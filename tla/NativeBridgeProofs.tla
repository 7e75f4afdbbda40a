------------------------- MODULE NativeBridgeProofs -------------------------
(* Proofs about NativeBridge, for any camera, any descriptors and any      *)
(* failures of the library.                                                *)
EXTENDS NativeBridge, NativeScanProofs

-----------------------------------------------------------------------------
LEMMA AfterTyped ==
    ASSUME live \in [Kinds -> Int], NEW created, NEW freed
    PROVE  After(live, created, freed) \in [Kinds -> Int]
BY DEF After

\* The steps of the JNI functions outside the scan, by the functions they belong to.
Whole ==
    \/ SetLogFile \/ NativeInit \/ NativeDisconnect
Configuring ==
    \/ NewAbilitiesList \/ LoadAbilities \/ NewPortInfoList \/ LoadPorts
    \/ NewDetectedList \/ Detect \/ MatchIds \/ LookupModel \/ SetAbilities
    \/ LookupPort \/ SetPortInfo
Connecting ==
    \/ ConnectUninitialized \/ ConnectBegins \/ InitCamera \/ Diagnose
    \/ ReadWidgets
Answering ==
    \/ Skipped \/ GetLastMediaScanReport \/ Capture \/ ListFilesEnds
    \/ WaitForEvent \/ AnswerEvent
Downloading ==
    \/ OpenDestination \/ NewFile \/ GetFile \/ DownloadEnds
Other == Whole \/ Configuring \/ Connecting \/ Answering \/ Downloading

\* The call of a step, and what its local pointers hold.
LEMMA StageStep ==
    ASSUME TypeOK, StageInv, Other PROVE StageInv'
<1> USE DEF Enter, Answer, Creates, ConfigureMoves, ConfigureFails, apiVars,
        keptVars, matchVars, scanVars, StageInv, CallAt, LocalAt, ScanSteps,
        ConnectSteps, ConfigureSteps, Calls, AllLists, WidgetApi, FileApi,
        EventApi
<1>1. CASE Whole
  BY <1>1 DEF Whole, SetLogFile, NativeInit, NativeDisconnect
<1>2. CASE Configuring
  BY <1>2 DEF Configuring, NewAbilitiesList, LoadAbilities, NewPortInfoList,
         LoadPorts, NewDetectedList, Detect, MatchIds, LookupModel, SetAbilities,
         LookupPort, SetPortInfo
<1>3. CASE Connecting
  BY <1>3 DEF Connecting, ConnectUninitialized, ConnectBegins, InitCamera,
         Diagnose, ReadWidgets
<1>4. CASE Answering
  BY <1>4 DEF Answering, Skipped, GetLastMediaScanReport, Capture, ListFilesEnds,
         WaitForEvent, AnswerEvent
<1>5. CASE Downloading
  BY <1>5 DEF Downloading, OpenDestination, NewFile, GetFile, DownloadEnds
<1> QED BY <1>1, <1>2, <1>3, <1>4, <1>5 DEF Other

\* What a connect has hidden so far.
LEMMA BeforeStep ==
    ASSUME TypeOK, ConnectInv, BeforeInv, Other PROVE BeforeInv'
<1> USE DEF Enter, Answer, Creates, ConfigureMoves, ConfigureFails, apiVars,
        keptVars, matchVars, scanVars, TypeOK, ConnectInv, BeforeInv,
        ConnectSteps, ConfigureSteps, ScanSteps
<1>1. CASE Whole
  BY <1>1 DEF Whole, SetLogFile, NativeInit, NativeDisconnect
<1>2. CASE Configuring
  BY <1>2 DEF Configuring, NewAbilitiesList, LoadAbilities, NewPortInfoList,
         LoadPorts, NewDetectedList, Detect, MatchIds, LookupModel, SetAbilities,
         LookupPort, SetPortInfo
<1>3. CASE Connecting
  BY <1>3 DEF Connecting, ConnectUninitialized, ConnectBegins, InitCamera,
         Diagnose, ReadWidgets
<1>4. CASE Answering
  BY <1>4 DEF Answering, Skipped, GetLastMediaScanReport, Capture, ListFilesEnds,
         WaitForEvent, AnswerEvent
<1>5. CASE Downloading
  BY <1>5 DEF Downloading, OpenDestination, NewFile, GetFile, DownloadEnds
<1> QED BY <1>1, <1>2, <1>3, <1>4, <1>5 DEF Other

\* What a connect knows on its way.
LEMMA ConnectStep ==
    ASSUME TypeOK, StageInv, ConnectInv, Other PROVE ConnectInv'
<1> USE DEF Enter, Answer, Creates, ConfigureMoves, ConfigureFails, apiVars,
        keptVars, matchVars, scanVars, TypeOK, ConnectInv, ConnectSteps,
        ConfigureSteps, ScanSteps, NoDevice
<1>1. CASE Whole
  <2>1. CASE SetLogFile  BY <2>1, BridgeAssumption DEF SetLogFile
  <2>2. CASE NativeInit  BY <2>2, BridgeAssumption DEF NativeInit
  <2>3. CASE NativeDisconnect  BY <2>3, BridgeAssumption DEF NativeDisconnect
  <2> QED BY <1>1, <2>1, <2>2, <2>3 DEF Whole
<1>2. CASE Configuring
  BY <1>2, BridgeAssumption
     DEF Configuring, NewAbilitiesList, LoadAbilities, NewPortInfoList, LoadPorts,
         NewDetectedList, Detect, MatchIds, LookupModel, SetAbilities, LookupPort,
         SetPortInfo
<1>3. CASE Connecting
  BY <1>3, BridgeAssumption
     DEF Connecting, ConnectUninitialized, ConnectBegins, InitCamera, Diagnose,
         ReadWidgets
<1>4. CASE Answering
  BY <1>4, BridgeAssumption
     DEF Answering, Skipped, GetLastMediaScanReport, Capture, ListFilesEnds,
         WaitForEvent, AnswerEvent
<1>5. CASE Downloading
  BY <1>5, BridgeAssumption
     DEF Downloading, OpenDestination, NewFile, GetFile, DownloadEnds
<1> QED BY <1>1, <1>2, <1>3, <1>4, <1>5 DEF Other

\* What a download leaves behind.
LEMMA DownloadStep ==
    ASSUME TypeOK, StageInv, DownloadInv, Other PROVE DownloadInv'
<1> USE DEF Enter, Answer, Creates, ConfigureMoves, ConfigureFails, apiVars,
        keptVars, matchVars, scanVars, TypeOK, StageInv, DownloadInv,
        DownloadIsWhole, CallAt, ScanSteps, ConnectSteps, ConfigureSteps
<1>1. CASE Whole
  BY <1>1 DEF Whole, SetLogFile, NativeInit, NativeDisconnect
<1>2. CASE Configuring
  BY <1>2 DEF Configuring, NewAbilitiesList, LoadAbilities, NewPortInfoList,
         LoadPorts, NewDetectedList, Detect, MatchIds, LookupModel, SetAbilities,
         LookupPort, SetPortInfo
<1>3. CASE Connecting
  BY <1>3 DEF Connecting, ConnectUninitialized, ConnectBegins, InitCamera,
         Diagnose, ReadWidgets
<1>4. CASE Answering
  BY <1>4 DEF Answering, Skipped, GetLastMediaScanReport, Capture, ListFilesEnds,
         WaitForEvent, AnswerEvent
<1>5. CASE Downloading
  <2>1. CASE OpenDestination  BY <2>1 DEF OpenDestination
  <2>2. CASE NewFile  BY <2>2 DEF NewFile
  <2>3. CASE GetFile  BY <2>3 DEF GetFile
  <2>4. CASE DownloadEnds  BY <2>4 DEF DownloadEnds
  <2> QED BY <1>5, <2>1, <2>2, <2>3, <2>4 DEF Downloading
<1> QED BY <1>1, <1>2, <1>3, <1>4, <1>5 DEF Other

\* Outside the scan nothing of it moves.
LEMMA AsideStep ==
    ASSUME Other
    PROVE  UNCHANGED scanVars /\ step \notin ScanSteps
           /\ step' \notin ScanSteps \cup {"scan.done"}
<1> USE DEF Enter, Answer, Creates, ConfigureMoves, ConfigureFails, apiVars,
        keptVars, matchVars, scanVars, ScanSteps, ConnectSteps, ConfigureSteps
<1>1. CASE Whole
  BY <1>1 DEF Whole, SetLogFile, NativeInit, NativeDisconnect
<1>2. CASE Configuring
  BY <1>2 DEF Configuring, NewAbilitiesList, LoadAbilities, NewPortInfoList,
         LoadPorts, NewDetectedList, Detect, MatchIds, LookupModel, SetAbilities,
         LookupPort, SetPortInfo
<1>3. CASE Connecting
  BY <1>3 DEF Connecting, ConnectUninitialized, ConnectBegins, InitCamera,
         Diagnose, ReadWidgets
<1>4. CASE Answering
  BY <1>4 DEF Answering, Skipped, GetLastMediaScanReport, Capture, ListFilesEnds,
         WaitForEvent, AnswerEvent
<1>5. CASE Downloading
  BY <1>5 DEF Downloading, OpenDestination, NewFile, GetFile, DownloadEnds
<1> QED BY <1>1, <1>2, <1>3, <1>4, <1>5 DEF Other

\* The counts stay numbers.
LEMMA LiveStep ==
    ASSUME live \in [Kinds -> Int], Other PROVE live' \in [Kinds -> Int]
<1> USE DEF Enter, Answer, Creates, ConfigureMoves, ConfigureFails, apiVars,
        keptVars, matchVars, scanVars
<1>1. CASE Whole
  <2>1. CASE SetLogFile  BY <2>1, AfterTyped DEF SetLogFile
  <2>2. CASE NativeInit  BY <2>2, AfterTyped DEF NativeInit
  <2>3. CASE NativeDisconnect  BY <2>3, AfterTyped DEF NativeDisconnect
  <2> QED BY <1>1, <2>1, <2>2, <2>3 DEF Whole
<1>2. CASE Configuring
  BY <1>2, AfterTyped
     DEF Configuring, NewAbilitiesList, LoadAbilities, NewPortInfoList, LoadPorts,
         NewDetectedList, Detect, MatchIds, LookupModel, SetAbilities, LookupPort,
         SetPortInfo
<1>3. CASE Connecting
  BY <1>3, AfterTyped
     DEF Connecting, ConnectUninitialized, ConnectBegins, InitCamera, Diagnose,
         ReadWidgets
<1>4. CASE Answering
  BY <1>4, AfterTyped
     DEF Answering, Skipped, GetLastMediaScanReport, Capture, ListFilesEnds,
         WaitForEvent, AnswerEvent
<1>5. CASE Downloading
  BY <1>5, AfterTyped
     DEF Downloading, OpenDestination, NewFile, GetFile, DownloadEnds
<1> QED BY <1>1, <1>2, <1>3, <1>4, <1>5 DEF Other

\* TypeOK in three parts.
ControlTyped == /\ step \in Steps /\ call \in Calls
                /\ result \in {"none", "ok", "failed"} /\ local \in SUBSET Kinds
                /\ saved \in {"absent", "partial", "complete"}
CameraTyped == /\ g_initialized \in BOOLEAN /\ g_connected \in BOOLEAN
               /\ g_camera \in {"null", "new", "configured", "open"}
               /\ g_context \in BOOLEAN
               /\ {g_file_descriptor, sysDevice, openedOn}
                     \subseteq Descriptors \cup {NoDevice}
               /\ ids \in UsbIds \cup {NoIds}
               /\ g_log_func_id \in BOOLEAN
MatchTyped == loaded \in SUBSET Drivers /\ matched \in Drivers \cup {NoDriver}
BeforeTyped == before \in [connected : BOOLEAN, sysDevice : Descriptors \cup {NoDevice},
                           camera : {"null", "new", "configured", "open"},
                           openedOn : Descriptors \cup {NoDevice}]

\* Where the call is.
LEMMA ControlStep ==
    ASSUME ControlTyped, Other PROVE ControlTyped'
<1> USE DEF Enter, Answer, Creates, ConfigureMoves, ConfigureFails, apiVars,
        keptVars, matchVars, scanVars, ControlTyped, Steps, Calls, ScanSteps,
        ConnectSteps, ConfigureSteps, AllLists, Kinds, AbilitiesApi, PortInfoApi,
        ListApi, WidgetApi, FileApi, EventApi
<1>1. CASE Whole
  BY <1>1 DEF Whole, SetLogFile, NativeInit, NativeDisconnect
<1>2. CASE Configuring
  <2>1. CASE NewAbilitiesList  BY <2>1 DEF NewAbilitiesList
  <2>2. CASE LoadAbilities  BY <2>2 DEF LoadAbilities
  <2>3. CASE NewPortInfoList  BY <2>3 DEF NewPortInfoList
  <2>4. CASE LoadPorts  BY <2>4 DEF LoadPorts
  <2>5. CASE NewDetectedList  BY <2>5 DEF NewDetectedList
  <2>6. CASE Detect  BY <2>6 DEF Detect
  <2>7. CASE MatchIds  BY <2>7 DEF MatchIds
  <2>8. CASE LookupModel  BY <2>8 DEF LookupModel
  <2>9. CASE SetAbilities  BY <2>9 DEF SetAbilities
  <2>10. CASE LookupPort  BY <2>10 DEF LookupPort
  <2>11. CASE SetPortInfo  BY <2>11 DEF SetPortInfo
  <2> QED BY <1>2, <2>1, <2>2, <2>3, <2>4, <2>5, <2>6, <2>7, <2>8, <2>9, <2>10,
        <2>11 DEF Configuring
<1>3. CASE Connecting
  BY <1>3 DEF Connecting, ConnectUninitialized, ConnectBegins, InitCamera,
         Diagnose, ReadWidgets
<1>4. CASE Answering
  BY <1>4 DEF Answering, Skipped, GetLastMediaScanReport, Capture, ListFilesEnds,
         WaitForEvent, AnswerEvent
<1>5. CASE Downloading
  BY <1>5 DEF Downloading, OpenDestination, NewFile, GetFile, DownloadEnds
<1> QED BY <1>1, <1>2, <1>3, <1>4, <1>5 DEF Other

\* What the globals hold.
LEMMA CameraStep ==
    ASSUME CameraTyped, Other PROVE CameraTyped'
<1> USE DEF Enter, Answer, Creates, ConfigureMoves, ConfigureFails, apiVars,
        keptVars, matchVars, scanVars, CameraTyped
<1>1. CASE Whole
  BY <1>1 DEF Whole, SetLogFile, NativeInit, NativeDisconnect
<1>2. CASE Configuring
  BY <1>2 DEF Configuring, NewAbilitiesList, LoadAbilities, NewPortInfoList,
         LoadPorts, NewDetectedList, Detect, MatchIds, LookupModel, SetAbilities,
         LookupPort, SetPortInfo
<1>3. CASE Connecting
  BY <1>3 DEF Connecting, ConnectUninitialized, ConnectBegins, InitCamera,
         Diagnose, ReadWidgets
<1>4. CASE Answering
  BY <1>4 DEF Answering, Skipped, GetLastMediaScanReport, Capture, ListFilesEnds,
         WaitForEvent, AnswerEvent
<1>5. CASE Downloading
  BY <1>5 DEF Downloading, OpenDestination, NewFile, GetFile, DownloadEnds
<1> QED BY <1>1, <1>2, <1>3, <1>4, <1>5 DEF Other

\* The drivers.
LEMMA MatchStep ==
    ASSUME MatchTyped, Other PROVE MatchTyped'
<1> USE DEF Enter, Answer, Creates, ConfigureMoves, ConfigureFails, apiVars,
        keptVars, matchVars, scanVars, MatchTyped
<1>1. CASE Whole
  BY <1>1 DEF Whole, SetLogFile, NativeInit, NativeDisconnect
<1>2. CASE Configuring
  BY <1>2 DEF Configuring, NewAbilitiesList, LoadAbilities, NewPortInfoList,
         LoadPorts, NewDetectedList, Detect, MatchIds, LookupModel, SetAbilities,
         LookupPort, SetPortInfo
<1>3. CASE Connecting
  BY <1>3 DEF Connecting, ConnectUninitialized, ConnectBegins, InitCamera,
         Diagnose, ReadWidgets
<1>4. CASE Answering
  BY <1>4 DEF Answering, Skipped, GetLastMediaScanReport, Capture, ListFilesEnds,
         WaitForEvent, AnswerEvent
<1>5. CASE Downloading
  BY <1>5 DEF Downloading, OpenDestination, NewFile, GetFile, DownloadEnds
<1> QED BY <1>1, <1>2, <1>3, <1>4, <1>5 DEF Other

\* The state before a connect.
LEMMA BeforeTypedStep ==
    ASSUME CameraTyped, BeforeTyped, Other PROVE BeforeTyped'
<1> USE DEF Enter, Answer, Creates, ConfigureMoves, ConfigureFails, apiVars,
        keptVars, matchVars, scanVars, CameraTyped, BeforeTyped, NoBefore
<1>1. CASE Whole
  BY <1>1 DEF Whole, SetLogFile, NativeInit, NativeDisconnect
<1>2. CASE Configuring
  BY <1>2 DEF Configuring, NewAbilitiesList, LoadAbilities, NewPortInfoList,
         LoadPorts, NewDetectedList, Detect, MatchIds, LookupModel, SetAbilities,
         LookupPort, SetPortInfo
<1>3. CASE Connecting
  BY <1>3 DEF Connecting, ConnectUninitialized, ConnectBegins, InitCamera,
         Diagnose, ReadWidgets
<1>4. CASE Answering
  BY <1>4 DEF Answering, Skipped, GetLastMediaScanReport, Capture, ListFilesEnds,
         WaitForEvent, AnswerEvent
<1>5. CASE Downloading
  BY <1>5 DEF Downloading, OpenDestination, NewFile, GetFile, DownloadEnds
<1> QED BY <1>1, <1>2, <1>3, <1>4, <1>5 DEF Other


\* Objects a local pointer takes over or gives back.
LEMMA LocalCounts ==
    ASSUME CountsInv, ListsHeld = 0, ListsHeld' = 0, Owned' = Owned,
           NEW created, NEW freed, live' = After(live, created, freed),
           created \cap local = {}, created \cap freed = {}, freed \subseteq local,
           local' = (local \cup created) \ freed
    PROVE  CountsInv'
BY DEF CountsInv, After

\* Objects a global pointer takes over or gives back.
LEMMA GlobalCounts ==
    ASSUME CountsInv, ListsHeld = 0, ListsHeld' = 0, local' = local,
           NEW created, NEW freed, live' = After(live, created, freed),
           freed \subseteq Owned, created \cap (Owned \ freed) = {},
           Owned' = (Owned \ freed) \cup created
    PROVE  CountsInv'
BY DEF CountsInv, After

\* Nothing changes hands.
LEMMA SameCounts ==
    ASSUME CountsInv, ListsHeld = 0, ListsHeld' = 0, local' = local, live' = live,
           Owned' = Owned
    PROVE  CountsInv'
BY DEF CountsInv

\* Every object has one owner.
LEMMA CountsStep ==
    ASSUME StageInv, CountsInv, ListsHeld = 0, ListsHeld' = 0, Other
    PROVE  CountsInv'
<1> USE DEF Enter, Answer, Creates, ConfigureMoves, ConfigureFails, apiVars,
        keptVars, matchVars, scanVars, StageInv, LocalAt, Owned,
        ReleasedByRelease, ScanSteps, ConnectSteps, ConfigureSteps, AllLists,
        AbilitiesApi, PortInfoApi, ListApi, CameraApi, ContextApi, WidgetApi,
        FileApi, LogApi, EventApi
<1>1. CASE Whole
  <2>1. CASE SetLogFile  BY <2>1, GlobalCounts DEF SetLogFile
  <2>2. CASE NativeInit  BY <2>2, GlobalCounts DEF NativeInit
  <2>3. CASE NativeDisconnect  BY <2>3, GlobalCounts DEF NativeDisconnect
  <2> QED BY <1>1, <2>1, <2>2, <2>3 DEF Whole
<1>2. CASE Configuring
  <2>1. CASE NewAbilitiesList
    BY <2>1, SameCounts, LocalCounts DEF NewAbilitiesList
  <2>2. CASE LoadAbilities  BY <2>2, SameCounts, LocalCounts DEF LoadAbilities
  <2>3. CASE NewPortInfoList  BY <2>3, SameCounts, LocalCounts DEF NewPortInfoList
  <2>4. CASE LoadPorts  BY <2>4, SameCounts, LocalCounts DEF LoadPorts
  <2>5. CASE NewDetectedList  BY <2>5, SameCounts, LocalCounts DEF NewDetectedList
  <2>6. CASE Detect  BY <2>6, SameCounts, LocalCounts DEF Detect
  <2>7. CASE MatchIds  BY <2>7, SameCounts, LocalCounts DEF MatchIds
  <2>8. CASE LookupModel  BY <2>8, SameCounts, LocalCounts DEF LookupModel
  <2>9. CASE SetAbilities  BY <2>9, SameCounts, LocalCounts DEF SetAbilities
  <2>10. CASE LookupPort  BY <2>10, SameCounts, LocalCounts DEF LookupPort
  <2>11. CASE SetPortInfo  BY <2>11, SameCounts, LocalCounts DEF SetPortInfo
  <2> QED BY <1>2, <2>1, <2>2, <2>3, <2>4, <2>5, <2>6, <2>7, <2>8, <2>9, <2>10,
        <2>11 DEF Configuring
<1>3. CASE Connecting
  BY <1>3, SameCounts, LocalCounts
     DEF Connecting, ConnectUninitialized, ConnectBegins, InitCamera, Diagnose,
         ReadWidgets
<1>4. CASE Answering
  BY <1>4, SameCounts, LocalCounts
     DEF Answering, Skipped, GetLastMediaScanReport, Capture, ListFilesEnds,
         WaitForEvent, AnswerEvent
<1>5. CASE Downloading
  BY <1>5, SameCounts, LocalCounts
     DEF Downloading, OpenDestination, NewFile, GetFile, DownloadEnds
<1> QED BY <1>1, <1>2, <1>3, <1>4, <1>5 DEF Other

\* The kept report changes with a listing only.
LEMMA ReportKeeps ==
    ASSUME Other
    PROVE  g_last_media_scan_report' \in
               {g_last_media_scan_report, [report EXCEPT !.discovered = Len(encoded)]}
<1> USE DEF Enter, Answer, Creates, ConfigureMoves, ConfigureFails, apiVars,
        keptVars, matchVars, scanVars
<1>1. CASE Whole
  BY <1>1 DEF Whole, SetLogFile, NativeInit, NativeDisconnect
<1>2. CASE Configuring
  BY <1>2 DEF Configuring, NewAbilitiesList, LoadAbilities, NewPortInfoList,
         LoadPorts, NewDetectedList, Detect, MatchIds, LookupModel, SetAbilities,
         LookupPort, SetPortInfo
<1>3. CASE Connecting
  BY <1>3 DEF Connecting, ConnectUninitialized, ConnectBegins, InitCamera,
         Diagnose, ReadWidgets
<1>4. CASE Answering
  BY <1>4 DEF Answering, Skipped, GetLastMediaScanReport, Capture, ListFilesEnds,
         WaitForEvent, AnswerEvent
<1>5. CASE Downloading
  BY <1>5 DEF Downloading, OpenDestination, NewFile, GetFile, DownloadEnds
<1> QED BY <1>1, <1>2, <1>3, <1>4, <1>5 DEF Other

-----------------------------------------------------------------------------
(* Small facts                                                             *)

LEMMA EmptyTyped == EmptyReport \in Reports /\ EmptyReport.visited = 0
<1>1. GP_ERROR \in Results
  BY DEF Results, Errors, PortErrors, GP_ERROR
<1> QED
  BY <1>1, LimitsAssumption DEF EmptyReport, Reports

LEMMA SingletonIsSeq ==
    ASSUME NEW S, NEW e \in S
    PROVE  <<e>> \in Seq(S) /\ <<e>> # <<>> /\ Len(<<e>>) = 1 /\ <<e>>[1] = e
OBVIOUS

LEMMA HeldTyped ==
    ASSUME ScanTypeOK, ScanTypeOK' PROVE ListsHeld \in Int /\ ListsHeld' \in Int
<1>1. Len(stack) \in Nat /\ Len(stack') \in Nat
  BY LenProperties DEF ScanTypeOK
<1> QED
  BY <1>1 DEF ListsHeld, Depth

\* A step of the scan leads to another one or to its end.
LEMMA DoneOrScanning == ASSUME ScanNext PROVE step' \in ScanSteps \cup {"scan.done"}
BY DEF ScanNext, RefuseFolder, SkipFolder, EnterFolder, NewFileList, ListFiles,
       ListFilesFails, TakeName, FilesDone, NewFolderList, NewFolderListFails,
       ListFolders, ListFoldersFails, VisitChild, FoldersDone, Return, LeaveFolder,
       ScanSteps

\* IInv is kept outside the scan, which is then quiet.
LEMMA ScanQuiet ==
    ASSUME ScanInv, UNCHANGED scanVars, step \notin ScanSteps,
           step' \notin ScanSteps \cup {"scan.done"}
    PROVE  ScanInv' /\ stack = <<>> /\ stack' = <<>>
<1>1. stack = <<>> /\ stack' = <<>>
  BY DEF ScanInv, ScanTypeOK, scanVars
<1>2. step # "scan.enter" /\ step' \notin {"scan.enter", "scan.visit", "scan.name"}
  BY DEF ScanSteps
<1>3. ScanTypeOK' /\ NoFileTwice'
  BY <1>1 DEF ScanInv, ScanTypeOK, NoFileTwice, scanVars
<1>4. LimitsInv'
  BY <1>2 DEF ScanInv, LimitsInv, scanVars
<1>5. RestInv'
  BY <1>1, <1>2, EmptySeq DEF RestInv
<1>6. CompleteInv'
  BY DEF CompleteInv
<1> QED
  BY <1>1, <1>3, <1>4, <1>5, <1>6 DEF ScanInv

LEMMA OtherStep == ASSUME IInv, Other PROVE IInv'
<1>1. /\ TypeOK /\ CountsInv /\ StageInv /\ ConnectInv /\ BeforeInv /\ DownloadInv
      /\ ScanInv
  BY DEF IInv
<1>2. ScanInv' /\ stack = <<>> /\ stack' = <<>>
  BY <1>1, AsideStep, ScanQuiet
<1>3. live' \in [Kinds -> Int]
  BY <1>1, LiveStep DEF TypeOK
<1>4. g_last_media_scan_report' \in Reports
  <2>1. report \in Reports /\ encoded \in Seq(Entries)
    BY <1>1 DEF ScanInv, ScanTypeOK
  <2>2. GP_ERROR \in Results
    BY DEF Results, Errors, PortErrors, GP_ERROR
  <2>3. [report EXCEPT !.discovered = Len(encoded)] \in Reports
    BY <2>1, <2>2, ReportEdits
  <2>4. g_last_media_scan_report' \in {g_last_media_scan_report,
                                       [report EXCEPT !.discovered = Len(encoded)]}
    BY ReportKeeps
  <2> QED
    BY <1>1, <2>3, <2>4 DEF TypeOK
<1>5. TypeOK'
  <2>1. ControlTyped /\ CameraTyped /\ MatchTyped /\ BeforeTyped
    BY <1>1 DEF TypeOK, ControlTyped, CameraTyped, MatchTyped, BeforeTyped
  <2>2. ControlTyped' /\ CameraTyped' /\ MatchTyped' /\ BeforeTyped'
    BY <2>1, ControlStep, CameraStep, MatchStep, BeforeTypedStep
  <2> QED
    BY <1>3, <1>4, <2>2 DEF TypeOK, ControlTyped, CameraTyped, MatchTyped, BeforeTyped
<1>6. CountsInv'
  BY <1>1, <1>2, CountsStep DEF ListsHeld
<1>7. StageInv' /\ ConnectInv' /\ BeforeInv' /\ DownloadInv'
  BY <1>1, StageStep, ConnectStep, BeforeStep, DownloadStep
<1> QED
  BY <1>2, <1>5, <1>6, <1>7 DEF IInv

\* The listing: everything else waits.
LEMMA ListingStep == ASSUME IInv, Scan PROVE IInv'
<1>1. ScanNext /\ ScanInv /\ step \in ScanSteps
  BY StackCases DEF Scan, IInv
<1>2. ScanInv'
  BY <1>1, ScanStep
<1>3. step' \in ScanSteps \cup {"scan.done"}
  BY <1>1, DoneOrScanning
<1>4. /\ live' \in [Kinds -> Int]
      /\ \A k \in Kinds :
            live'[k] = live[k] + (IF k = "list" THEN ListsHeld' - ListsHeld ELSE 0)
  BY <1>1, ListsStep DEF IInv, TypeOK, ScanInv
<1>5. UNCHANGED <<call, result, local, apiVars, ids, keptVars, matchVars, before>>
  BY DEF Scan
<1> USE DEF apiVars, keptVars, matchVars, IInv
<1>6. TypeOK'
  BY <1>3, <1>4, <1>5 DEF TypeOK, Steps
<1>7. CountsInv'
  <2>1. ListsHeld \in Int /\ ListsHeld' \in Int
    BY <1>1, <1>2, HeldTyped DEF ScanInv
  <2>2. Owned' = Owned
    BY <1>5 DEF Owned
  <2> QED
    BY <1>4, <1>5, <2>1, <2>2 DEF CountsInv, TypeOK
<1>8. StageInv'
  BY <1>1, <1>3, <1>5 DEF StageInv, CallAt, LocalAt, ScanSteps, ConnectSteps,
                        ConfigureSteps
<1>9. ConnectInv' /\ BeforeInv' /\ DownloadInv'
  BY <1>1, <1>3, <1>5
     DEF ConnectInv, BeforeInv, DownloadInv, DownloadIsWhole, ScanSteps, ConnectSteps,
         ConfigureSteps
<1> QED
  BY <1>2, <1>6, <1>7, <1>8, <1>9

LEMMA BeginStep == ASSUME IInv, ListFilesBegins PROVE IInv'
<1> USE DEF ListFilesBegins, Enter, apiVars, keptVars, matchVars, IInv
<1>1. stack = <<>> /\ visited = {} /\ step = "idle" /\ step' = "scan.enter"
  BY DEF ScanInv, ScanTypeOK, StageInv, ScanSteps
<1>2. PICK folder \in Folders : root' = folder /\ stack' = <<Frame(folder, <<>>)>>
  OBVIOUS
<1>3. /\ stack' \in Seq([folder : Folders, rest : Rests]) /\ stack' # <<>>
      /\ Len(stack') = 1 /\ stack'[1] = Frame(folder, <<>>)
  <2>1. <<>> \in Rests
    BY EmptySeq DEF Rests
  <2>2. Frame(folder, <<>>) \in [folder : Folders, rest : Rests]
    BY <2>1 DEF Frame
  <2> QED
    BY <1>2, <2>2, SingletonIsSeq
<1>4. ScanInv'
  <2>1. ScanTypeOK'
    BY <1>1, <1>2, <1>3 DEF ScanInv, ScanTypeOK, ScanSteps
  <2>2. RestInv'
    <3>1. DOMAIN stack' = {1}
      BY <1>3, LenProperties
    <3> QED
      BY <1>1, <1>3, <3>1 DEF RestInv, Visits
  <2>3. LimitsInv' /\ NoFileTwice'
    BY <1>1, <1>3, LimitsAssumption DEF ScanInv, LimitsInv, NoFileTwice
  <2>4. CompleteInv'
    <3>1. Top'.folder = folder
      BY <1>3 DEF Top, Frame
    <3> QED
      BY <1>1, <1>2, <1>3, <3>1 DEF CompleteInv
  <2> QED
    BY <2>1, <2>2, <2>3, <2>4 DEF ScanInv
<1>5. TypeOK'
  BY <1>1 DEF TypeOK, Steps, ScanSteps, Calls
<1>6. CountsInv'
  <2>1. ListsHeld = 0 /\ ListsHeld' = 0
    BY <1>1, <1>3 DEF ListsHeld, Depth
  <2>2. Owned' = Owned
    BY DEF Owned
  <2> QED
    BY <2>1, <2>2, SameCounts
<1>7. StageInv' /\ ConnectInv' /\ BeforeInv' /\ DownloadInv'
  BY <1>1 DEF StageInv, CallAt, LocalAt, ConnectInv, BeforeInv, DownloadInv,
              DownloadIsWhole, ScanSteps, ConnectSteps, ConfigureSteps
<1> QED
  BY <1>4, <1>5, <1>6, <1>7

\* The return forgets the local variables, which hold nothing any more.
LEMMA LeaveStep == ASSUME IInv, Leave PROVE IInv'
<1> USE DEF Leave, apiVars, IInv
<1>1. stack = <<>> /\ stack' = <<>> /\ step = "return" /\ step' = "idle"
  BY DEF ScanInv, ScanTypeOK, ScanSteps
<1>2. EmptyReport \in Reports /\ EmptyReport.visited = 0
  BY EmptyTyped
<1>3. ScanInv'
  <2>1. ScanTypeOK'
    BY <1>1, <1>2, EmptySeq DEF ScanInv, ScanTypeOK, ScanSteps
  <2>2. RestInv' /\ NoFileTwice' /\ CompleteInv'
    BY <1>1, EmptySeq DEF RestInv, NoFileTwice, CompleteInv, ScanSteps
  <2>3. LimitsInv'
    BY <1>1, <1>2, EmptySeq, FS_EmptySet, LimitsAssumption DEF LimitsInv
  <2> QED
    BY <2>1, <2>2, <2>3 DEF ScanInv
<1>4. local = {}
  BY <1>1 DEF StageInv, LocalAt
<1>5. TypeOK'
  BY DEF TypeOK, Steps, Calls, NoBefore
<1>6. CountsInv'
  <2>1. ListsHeld = 0 /\ ListsHeld' = 0
    BY <1>1 DEF ListsHeld
  <2>2. Owned' = Owned
    BY DEF Owned
  <2> QED
    BY <1>4, <2>1, <2>2, SameCounts
<1>7. StageInv'
  BY <1>1 DEF StageInv, CallAt, LocalAt, ScanSteps, ConnectSteps, ConfigureSteps
<1>8. ConnectInv' /\ BeforeInv' /\ DownloadInv'
  BY <1>1 DEF ConnectInv, BeforeInv, DownloadInv, DownloadIsWhole, ConnectSteps,
              ConfigureSteps
<1> QED
  BY <1>3, <1>5, <1>6, <1>7, <1>8

-----------------------------------------------------------------------------
(* The theorems                                                            *)

LEMMA IInvInit == ASSUME Init PROVE IInv
<1> USE DEF Init, ScanInit, IInv
<1>1. ScanInv
  <2>1. LimitsInv
    BY EmptySeq, FS_EmptySet, EmptyTyped, LimitsAssumption DEF LimitsInv
  <2>2. ScanTypeOK /\ RestInv /\ NoFileTwice /\ CompleteInv
    BY EmptySeq, EmptyTyped
       DEF ScanTypeOK, RestInv, NoFileTwice, CompleteInv, ScanSteps
  <2> QED
    BY <2>1, <2>2 DEF ScanInv
<1>2. TypeOK
  <2>1. live \in [Kinds -> Int]
    OBVIOUS
  <2>2. ControlTyped /\ CameraTyped /\ MatchTyped /\ BeforeTyped
    BY DEF ControlTyped, CameraTyped, MatchTyped, BeforeTyped, Steps, Calls, NoBefore
  <2> QED
    BY <2>1, <2>2, EmptyTyped
       DEF TypeOK, ControlTyped, CameraTyped, MatchTyped, BeforeTyped
<1>3. CountsInv
  BY DEF CountsInv, Owned, ListsHeld
<1>4. StageInv
  BY DEF StageInv, CallAt, LocalAt, ScanSteps, ConnectSteps, ConfigureSteps
<1>5. ConnectInv /\ BeforeInv /\ DownloadInv
  BY DEF ConnectInv, BeforeInv, DownloadInv, DownloadIsWhole, ConnectSteps,
         ConfigureSteps
<1> QED
  BY <1>1, <1>2, <1>3, <1>4, <1>5

\* No step at all.
LEMMA StutterStep == ASSUME IInv, UNCHANGED vars PROVE IInv'
<1> USE DEF IInv
<1>1. UNCHANGED scanVars /\ UNCHANGED <<step, live>>
  BY DEF vars
<1>2. ScanInv'
  <2>1. ScanTypeOK' /\ RestInv'
    BY <1>1 DEF ScanInv, ScanTypeOK, RestInv, scanVars, Visits, Top
  <2>2. LimitsInv' /\ NoFileTwice'
    BY <1>1 DEF ScanInv, LimitsInv, NoFileTwice, scanVars
  <2>3. CompleteInv'
    <3>1. /\ Top' = Top /\ Reached' = Reached /\ Found' = Found
          /\ \A folder : /\ Listed(folder)' = Listed(folder)
                         /\ Children(folder)' = Children(folder)
          /\ \A i : Visits(i)' <=> Visits(i)
      BY <1>1 DEF scanVars, Visits, Top, Reached, Entering, Listed, Children, Found
    <3>2. \A folder : /\ FilesRead(folder)' <=> FilesRead(folder)
                      /\ SubfoldersVisited(folder)' <=> SubfoldersVisited(folder)
      BY <1>1, <3>1 DEF scanVars, FilesRead, SubfoldersVisited
    <3> QED
      BY <1>1, <3>1, <3>2 DEF ScanInv, CompleteInv, scanVars
  <2> QED
    BY <2>1, <2>2, <2>3 DEF ScanInv
<1>3. TypeOK'
  BY <1>1 DEF TypeOK, vars, apiVars, keptVars, matchVars
<1>4. CountsInv'
  BY <1>1 DEF CountsInv, vars, apiVars, keptVars, scanVars, Owned, ListsHeld, Depth
<1>5. StageInv'
  BY <1>1 DEF StageInv, vars, scanVars, CallAt, LocalAt
<1>6. ConnectInv' /\ BeforeInv'
  BY <1>1 DEF ConnectInv, BeforeInv, vars, apiVars, matchVars
<1>7. DownloadInv'
  BY <1>1 DEF DownloadInv, DownloadIsWhole, vars, keptVars
<1> QED
  BY <1>2, <1>3, <1>4, <1>5, <1>6, <1>7

LEMMA NextCases ==
    ASSUME Next PROVE Other \/ Scan \/ ListFilesBegins \/ Leave
BY DEF Next, Connect, Configure, Operate, Other, Whole, Configuring, Connecting,
       Answering, Downloading

\* Every step keeps IInv: of the calls, of the scan, of a return, of no call.
LEMMA IInvNext == ASSUME IInv, [Next]_vars PROVE IInv'
<1>1. CASE Next
  BY <1>1, NextCases, OtherStep, ListingStep, BeginStep, LeaveStep
<1>2. CASE UNCHANGED vars
  BY <1>2, StutterStep
<1> QED
  BY <1>1, <1>2

\* The inductive invariant of flyphoto_gphoto2_bridge.cpp: who owns every library
\* object at every step, and what each stage of a call may rely on.
THEOREM Invariance == Spec => []IInv
<1>1. Init => IInv
  BY IInvInit
<1>2. IInv /\ [Next]_vars => IInv'
  BY IInvNext
<1> QED
  BY <1>1, <1>2, PTL DEF Spec

\* No JNI function leaks or frees twice, on any of its error paths.
THEOREM NothingLeaks == Spec => []Balanced
<1>1. IInv => Balanced
  <2> SUFFICES ASSUME IInv, step \in {"idle", "return"} PROVE Balanced
    BY DEF Balanced
  <2>1. local = {}
    BY DEF IInv, StageInv, LocalAt
  <2>2. stack = <<>>
    BY DEF IInv, ScanInv, ScanTypeOK, ScanSteps
  <2> QED
    BY <2>1, <2>2 DEF IInv, CountsInv, Balanced, ListsHeld
<1> QED
  BY <1>1, Invariance, PTL

\* A download that is answered left the whole file or nothing of it.
THEOREM DownloadsAreWhole == Spec => []DownloadIsWhole
<1>1. IInv => DownloadIsWhole
  BY DEF IInv, DownloadInv
<1> QED
  BY <1>1, Invariance, PTL

\* The listing stays within its limits and returns no file twice; without an error
\* in its report it misses none.
THEOREM ListingsAreComplete ==
    Spec => [](ScanIsBounded /\ NoFileTwice /\ ScanIsCompleteOrSaysSo)
<1>1. IInv => ScanIsBounded /\ NoFileTwice /\ ScanIsCompleteOrSaysSo
  BY ScanInvSuffices DEF IInv, ScanInv
<1> QED
  BY <1>1, Invariance, PTL

\* log_config_widget gives gp_widget_get_value a variable of the type it writes.
THEOREM WidgetReadsFit ==
    \A type \in CameraWidgetType : ReadInto(type) \in {WidgetValue(type), "nothing"}
BY DEF CameraWidgetType, ReadInto, WidgetValue

-----------------------------------------------------------------------------
(* What nativeConnectCamera answers                                        *)

\* What a connect answers.
LEMMA AnswerStep ==
    ASSUME TypeOK, StageInv, ConnectInv, ConnectAnswerIsTrue, Other
    PROVE  ConnectAnswerIsTrue'
<1> USE DEF Enter, Answer, Creates, ConfigureMoves, ConfigureFails, apiVars,
        keptVars, matchVars, scanVars, TypeOK, StageInv, CallAt, ConnectInv,
        ConnectAnswerIsTrue, ScanSteps, ConnectSteps, ConfigureSteps
<1>1. CASE Whole
  BY <1>1 DEF Whole, SetLogFile, NativeInit, NativeDisconnect
<1>2. CASE Configuring
  BY <1>2 DEF Configuring, NewAbilitiesList, LoadAbilities, NewPortInfoList,
         LoadPorts, NewDetectedList, Detect, MatchIds, LookupModel, SetAbilities,
         LookupPort, SetPortInfo
<1>3. CASE Connecting
  BY <1>3 DEF Connecting, ConnectUninitialized, ConnectBegins, InitCamera,
         Diagnose, ReadWidgets
<1>4. CASE Answering
  BY <1>4 DEF Answering, Skipped, GetLastMediaScanReport, Capture, ListFilesEnds,
         WaitForEvent, AnswerEvent
<1>5. CASE Downloading
  BY <1>5 DEF Downloading, OpenDestination, NewFile, GetFile, DownloadEnds
<1> QED BY <1>1, <1>2, <1>3, <1>4, <1>5 DEF Other

-----------------------------------------------------------------------------
(* The promise of BridgeApi                                                *)

\* A step of BridgeApi under the mapping, or none.
ApiStep == [Api!ApiNext]_(Api!apiVars)

\* The mapping, as long as a connect is undecided and when none is.
LEMMA Mapped ==
    /\ Hidden => Api!apiVars = <<g_initialized, before.connected,
                                 ApiCamera(before.camera), g_context,
                                 before.sysDevice, before.openedOn>>
    /\ ~Hidden => Api!apiVars = <<g_initialized, g_connected, ApiCamera(g_camera),
                                  g_context, sysDevice, openedOn>>
BY DEF Api!apiVars

\* Steps on the way of a connect are invisible.
LEMMA ConfigureIsHidden ==
    ASSUME step \in ConnectSteps, step' \in ConnectSteps,
           UNCHANGED <<before, g_initialized, g_context>>
    PROVE  ApiStep
BY DEF ApiStep, Api!apiVars, Hidden, ApiCamera

\* An error shows what the connect has done to the camera.
LEMMA FailureShowsApi ==
    ASSUME TypeOK, ConnectInv, BeforeInv, step \in ConnectSteps, step' = "return",
           g_connected' = FALSE,
           UNCHANGED <<g_initialized, g_camera, g_context, sysDevice, openedOn>>
    PROVE  ApiStep
<1>1. step' \notin ConnectSteps
  BY DEF ConnectSteps, ConfigureSteps
<1>2. sysDevice \in Descriptors /\ g_initialized
  BY DEF ConnectInv, BeforeInv
<1>3. \/ ApiCamera(g_camera) = ApiCamera(before.camera) /\ openedOn = before.openedOn
      \/ before.camera = "open" /\ ApiCamera(g_camera) = "new" /\ openedOn = NoDevice
  BY DEF TypeOK, ConnectInv, BeforeInv, ApiCamera
<1>4. before.camera = "open" => ApiCamera(before.camera) = "open"
  BY DEF ApiCamera
<1>5. Api!ConnectFails(sysDevice)
  BY <1>1, <1>2, <1>3, <1>4
     DEF Api!ConnectFails, Hidden, ApiCamera, NoDevice, Api!NoDevice
<1> QED
  BY <1>2, <1>5 DEF ApiStep, Api!ApiNext, Api!NativeConnect

\* Its success opens the camera on the descriptor of the call.
LEMMA SuccessShowsApi ==
    ASSUME TypeOK, ConnectInv, BeforeInv, InitCamera, g_camera' = "open",
           step' = "connect.diagnose"
    PROVE  ApiStep
<1>1. step \in ConnectSteps /\ step' \notin ConnectSteps
  BY DEF InitCamera, ConnectSteps, ConfigureSteps
<1>2. /\ sysDevice \in Descriptors /\ g_initialized /\ g_connected
      /\ g_camera = "configured" /\ before.camera # "null"
  BY <1>1 DEF InitCamera, ConnectInv, BeforeInv
<1>3. /\ UNCHANGED <<g_initialized, g_connected, g_context, sysDevice>>
      /\ openedOn' = sysDevice
  BY DEF InitCamera, Answer
<1>4. Api!ConnectSucceeds(sysDevice)
  BY <1>1, <1>2, <1>3 DEF Api!ConnectSucceeds, Hidden, ApiCamera, TypeOK
<1> QED
  BY <1>2, <1>4 DEF ApiStep, Api!ApiNext, Api!NativeConnect

LEMMA InitImplements == ASSUME NativeInit PROVE ApiStep
<1>1. ~Hidden /\ ~Hidden'
  BY DEF NativeInit, Enter, Answer, Hidden, ConnectSteps, ConfigureSteps
<1>2. PICK camera, context \in BOOLEAN :
         /\ g_camera' = IF camera THEN "new" ELSE "null"
         /\ g_context' = context
         /\ g_initialized' = camera
  BY DEF NativeInit
<1>3. openedOn' = NoDevice /\ UNCHANGED <<g_connected, sysDevice>>
  BY DEF NativeInit
<1>4. \/ g_initialized' = TRUE /\ ApiCamera(g_camera') = "new"
      \/ g_initialized' = FALSE /\ ApiCamera(g_camera') = "null"
  BY <1>2 DEF ApiCamera
<1>5. g_context' \in BOOLEAN
  BY <1>2
<1>6. Api!NativeInit
  BY <1>1, <1>3, <1>4, <1>5 DEF Api!NativeInit, NoDevice, Api!NoDevice
<1> QED
  BY <1>6 DEF ApiStep, Api!ApiNext

LEMMA DisconnectImplements == ASSUME NativeDisconnect PROVE ApiStep
<1>1. ~Hidden /\ ~Hidden'
  BY DEF NativeDisconnect, Enter, Answer, Hidden, ConnectSteps, ConfigureSteps
<1>2. Api!NativeDisconnect
  BY <1>1 DEF NativeDisconnect, Api!NativeDisconnect, ApiCamera, NoDevice, Api!NoDevice
<1> QED
  BY <1>2 DEF ApiStep, Api!ApiNext

\* Every step is one of BridgeApi or invisible to it.
LEMMA ImplementStep ==
    ASSUME TypeOK, ConnectInv, BeforeInv, StageInv, Other PROVE ApiStep
<1> USE DEF Enter, Answer, Creates, ConfigureMoves, ConfigureFails, apiVars,
        keptVars, matchVars, scanVars, TypeOK, ConnectInv, BeforeInv, StageInv,
        CallAt, Hidden, ApiCamera, ApiStep, Api!apiVars, Api!ApiNext,
        Api!NativeConnect, Api!ConnectRefused, Api!ConnectFails, ScanSteps,
        ConnectSteps, ConfigureSteps, NoDevice
<1>1. CASE Whole
  <2>1. CASE SetLogFile
    BY <2>1, InitImplements, DisconnectImplements DEF SetLogFile
  <2>2. CASE NativeInit
    BY <2>2, InitImplements, DisconnectImplements DEF NativeInit
  <2>3. CASE NativeDisconnect
    BY <2>3, InitImplements, DisconnectImplements DEF NativeDisconnect
  <2> QED BY <1>1, <2>1, <2>2, <2>3 DEF Whole
<1>2. CASE Configuring
  <2>1. CASE NewAbilitiesList
    BY <2>1, ConfigureIsHidden, FailureShowsApi DEF NewAbilitiesList
  <2>2. CASE LoadAbilities
    BY <2>2, ConfigureIsHidden, FailureShowsApi DEF LoadAbilities
  <2>3. CASE NewPortInfoList
    BY <2>3, ConfigureIsHidden, FailureShowsApi DEF NewPortInfoList
  <2>4. CASE LoadPorts  BY <2>4, ConfigureIsHidden, FailureShowsApi DEF LoadPorts
  <2>5. CASE NewDetectedList
    BY <2>5, ConfigureIsHidden, FailureShowsApi DEF NewDetectedList
  <2>6. CASE Detect  BY <2>6, ConfigureIsHidden, FailureShowsApi DEF Detect
  <2>7. CASE MatchIds  BY <2>7, ConfigureIsHidden, FailureShowsApi DEF MatchIds
  <2>8. CASE LookupModel
    BY <2>8, ConfigureIsHidden, FailureShowsApi DEF LookupModel
  <2>9. CASE SetAbilities
    BY <2>9, ConfigureIsHidden, FailureShowsApi DEF SetAbilities
  <2>10. CASE LookupPort
    BY <2>10, ConfigureIsHidden, FailureShowsApi DEF LookupPort
  <2>11. CASE SetPortInfo
    BY <2>11, ConfigureIsHidden, FailureShowsApi DEF SetPortInfo
  <2> QED BY <1>2, <2>1, <2>2, <2>3, <2>4, <2>5, <2>6, <2>7, <2>8, <2>9, <2>10,
        <2>11 DEF Configuring
<1>3. CASE Connecting
  <2>1. CASE ConnectUninitialized
    BY <2>1, FailureShowsApi, SuccessShowsApi DEF ConnectUninitialized
  <2>2. CASE ConnectBegins
    BY <2>2, FailureShowsApi, SuccessShowsApi DEF ConnectBegins
  <2>3. CASE InitCamera  BY <2>3, FailureShowsApi, SuccessShowsApi DEF InitCamera
  <2>4. CASE Diagnose  BY <2>4, FailureShowsApi, SuccessShowsApi DEF Diagnose
  <2>5. CASE ReadWidgets  BY <2>5, FailureShowsApi, SuccessShowsApi DEF ReadWidgets
  <2> QED BY <1>3, <2>1, <2>2, <2>3, <2>4, <2>5 DEF Connecting
<1>4. CASE Answering
  BY <1>4 DEF Answering, Skipped, GetLastMediaScanReport, Capture, ListFilesEnds,
         WaitForEvent, AnswerEvent
<1>5. CASE Downloading
  BY <1>5 DEF Downloading, OpenDestination, NewFile, GetFile, DownloadEnds
<1> QED BY <1>1, <1>2, <1>3, <1>4, <1>5 DEF Other

\* A connect that answers "ok" has the camera open on its own descriptor, and one
\* that answers an error leaves no operation usable.
THEOREM ConnectAnswersTruly == Spec => []ConnectAnswerIsTrue
<1>1. Init => ConnectAnswerIsTrue
  BY DEF Init, ConnectAnswerIsTrue
<1>2. IInv /\ ConnectAnswerIsTrue /\ [Next]_vars => ConnectAnswerIsTrue'
  <2> SUFFICES ASSUME IInv, ConnectAnswerIsTrue, [Next]_vars
               PROVE  ConnectAnswerIsTrue'
    OBVIOUS
  <2>1. CASE Other
    BY <2>1, AnswerStep DEF IInv
  <2>2. CASE Scan
    BY <2>2, DoneOrScanning DEF Scan, ConnectAnswerIsTrue, ScanSteps
  <2>3. CASE ListFilesBegins \/ Leave
    BY <2>3 DEF ListFilesBegins, Leave, ConnectAnswerIsTrue
  <2>4. CASE UNCHANGED vars
    BY <2>4 DEF ConnectAnswerIsTrue, vars, apiVars
  <2> QED
    BY <2>1, <2>2, <2>3, <2>4, NextCases
<1> QED
  BY <1>1, <1>2, Invariance, PTL DEF Spec

\* The functions that open and close the camera take effect at once: the module
\* implements BridgeApi, with which PluginConnection is composed.
THEOREM Implementation == Spec => ImplementsApi
<1>1. Init => Api!ApiInit
  BY DEF Init, Api!ApiInit, Hidden, ApiCamera, ConnectSteps, ConfigureSteps, NoDevice,
         Api!NoDevice
<1>2. IInv /\ IInv' /\ [Next]_vars => ApiStep
  <2> SUFFICES ASSUME IInv, [Next]_vars PROVE ApiStep
    OBVIOUS
  <2>1. CASE Other
    BY <2>1, ImplementStep DEF IInv
  <2>2. CASE Scan
    <3>1. ~Hidden /\ ~Hidden'
      BY <2>2, DoneOrScanning, StackCases
         DEF Scan, Hidden, ScanSteps, ConnectSteps, ConfigureSteps
    <3> QED
      BY <2>2, <3>1 DEF Scan, apiVars, ApiStep, Api!apiVars, ApiCamera
  <2>3. CASE ListFilesBegins \/ Leave
    <3>1. ~Hidden /\ ~Hidden'
      BY <2>3 DEF ListFilesBegins, Leave, Enter, Hidden, ConnectSteps, ConfigureSteps
    <3> QED
      BY <2>3, <3>1 DEF ListFilesBegins, Leave, apiVars, ApiStep, Api!apiVars, ApiCamera
  <2>4. CASE UNCHANGED vars
    BY <2>4 DEF vars, apiVars, ApiStep, Api!apiVars, Hidden, ApiCamera
  <2> QED
    BY <2>1, <2>2, <2>3, <2>4, NextCases
<1> QED
  BY <1>1, <1>2, Invariance, PTL DEF Spec, ImplementsApi, Api!ApiSpec, ApiStep

=============================================================================
