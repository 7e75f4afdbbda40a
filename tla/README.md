# A TLA+ verification of usb_camera_sdk

`usb_camera_sdk` is a Flutter plugin that discovers a USB camera on an Android
host, announces the photos and videos it takes and downloads them. This
directory holds TLA+ modules translated from its Kotlin and Dart source, the
TLC configurations that check them, and theorems checked by TLAPS.

`B` below is `CanonPtpBackend.kt`, `P` is `UsbCameraSdkPlugin.kt`, both in
`src/android/src/main/kotlin/com/flyphoto/usb_camera_sdk/`; `C` is
`src/lib/src/usb_camera_controller.dart`; `N` is
`src/android/src/main/cpp/flyphoto_gphoto2_bridge.cpp`.

## Inventory

| part | state | operations | interacts with | what is hard |
|---|---|---|---|---|
| Canon event threads (B) | `running`, `eventListening`, `eventGeneration`, `eventThread`, monitor `ioLock` | connect, start, stop, close, the loop | the dispatcher thread, the camera | a join that gives up, old and new threads side by side, teardown outside the monitor |
| Canon capture (B, C) | capture listeners and latch; `_captureInFlight` | capture, captureAndDownload | event threads complete the latch | who is left to hear of the photo; a flag across awaits |
| Canon ingestion (B, `CanonHandleCatalog.kt`, `CanonPhotoHandleRegistry.kt`, P) | handle catalog, `photoCache`, `inspectedHandles`, pending and published handles, `mediaEventListening` | polling round, reconciliation, list, page, incremental list | camera events, PTP snapshots, the main thread's flag | duplicated, lost and incomplete events; every path suppresses the others |
| PTP transactions (B, `CanonPtpBulkReader.kt`) | `transactionId`, the reader's surplus bytes | transaction, downloadObject | two bulk pipes | timeouts with late answers, refused containers |
| EOS events and PTP decoders (`CanonEosEventParser.kt`, B) | none | decode | ingestion | lengths at the limits of 32 bits |
| generic catalog (P) | `genericMediaCatalog`, `genericMediaItems`, interval, `mediaEventPollScheduled` | seed, poll, page, publish | bridge, dispatcher | the poll chain across stop and start; what replaces the catalog |
| plugin lifecycle (P, `CameraOperationDispatcher.kt`) | active device, connection and backend, permission result, event sink | connect with fallback, disconnect, release, detach | receivers on the main thread, queue on one worker | a detach queued behind a connect; requests after shutdown |
| downloads (P, B) | files of the cache directory | downloadPhoto | bridge or PTP | delete before rename, name collisions |
| native bridge (`flyphoto_gphoto2_bridge.cpp`) | camera, context, port info, last report, one mutex | init, connect, list, capture, wait, download, disconnect | libgphoto2 | partial listings, handles after failures |
| Dart controller (C) | status, device, photo lists, `_eventListening` | connect, refresh, incremental refresh, resolve, capture | channel futures and the event stream | events between awaits |
| repository and models (`src/lib/src/`) | none | channel calls, map parsing | controller | nothing stateful |

What makes the parts correct: one reader of camera events and none after a
stop or while a session is torn down; every operation ends; a photo taken while
the application listens is delivered, once, and history is never reported as
new; no transaction returns another one's answer; every object of the native
library is given back once, on every error path; a listing is complete or says
that it is not; no descriptor is leaked or used after it was closed, every
request is answered once and the last event is the truth; a flow that fails
leaves no flag behind. `PROJECT.json` lists the hazards one by one, at the line
where each bites.

## Modules

* **CanonEventLoop** - the threads of one `CanonPtpBackend`. One action per
  step between two accesses of shared state: the dispatcher's `connect`,
  `startMediaEventListening` (three steps: flag, thread started, field
  assigned), `stopMediaEventListening` (flag, generation, join that returns or
  gives up), `close` (through its synchronized block to the teardown outside
  it), a foreground operation and `capture`; for each event thread the loop's
  head, the monitor, the test under it, the transaction, the handling and the
  two-step exit. Actions are named for the code they stand for.
* **EventReader** - what the backend promises of those threads, without locks,
  flags or generations: one of them is the reader, a retired one never is again,
  rounds do not overlap, what a round brought is handled only if its thread is
  still the reader, and the session is closed between two rounds. CanonEventLoop
  is shown, by TLC and by proof, to implement it (`Reader`, `ImplementsReader`):
  the reader is the live thread of the current generation (`CurrentThread`).
* **CanonCapture** - `captureAndDownload` of the Dart controller on top of it:
  every await is one request of the dispatcher (a place where the flow waits for
  its turn, and one where its request is under way), and other requests may run
  between two of them. `connected`, `listening` and `inFlight` are the
  controller's own fields, kept apart from the backend's: the status may fall at
  any step (a detached device), the backend may be closed under a controller
  that still believes to be connected and listening. `_captureInFlight` is set
  at once and cleared only when the restart of listening has been answered, or
  is not asked for. What the listings return is a free choice.
* **CanonPhotoHandleRegistry** - the registry class, as operators on a registry
  value.
* **CanonIngest** - the camera (objects, their events, deletions, a change of
  card), the polling round, the maintenance of long scans, full list, page,
  incremental list, the flag on the main thread. One step is one PTP
  transaction or one event record; `op` is who holds `ioLock`, `phase` where it
  is. `announced`, `listed`, `found`, `attended`, `old` and `fresh` are history.
* **PtpTransaction** - a host that writes commands and reads containers, and a
  camera that answers in order, late or never.
* **PtpByteStream** - what the bulk reader promises: the endpoint's bytes in
  order, each once.
* **PtpBulkReader** - `CanonPtpBulkReader`, one step per pass of a loop: a
  transport read of up to a buffer, an empty packet, a timeout, a copy with
  `clearConsumedPending`, a file that cannot be written, `reset`. A byte is its
  place in what the camera sends, so a lost or repeated byte shows. It is
  shown, by TLC and by proof, to implement PtpByteStream: `output`, everything
  handed to callers, is the stream's `delivered`.
* **GenericMedia** - the libgphoto2 counterpart of CanonIngest: the catalog, the
  chain of polls that schedules itself (flag, timer of 25 ms, task), seed, event
  wait, comparison with the catalog, pages, and the stop that acts at once on
  the main thread and again in its turn on the dispatcher. One action per task,
  or per step of a task between two reads of a flag that the main thread may
  clear. `wish`, `fresh`, `holes` and `announced` are history.
* **PluginConnection** - several engines, each with a plugin instance and a
  dispatcher of its own, over one process: descriptors, the bus, the broadcast
  of a detached device, and one native bridge. `connectCamera` is a step per
  call that takes or closes something or may fail: open the new device, take
  the old one down, activate, Canon backend, fallback, reopening, `nativeInit`,
  `nativeConnectCamera`, completion. `disconnectCamera` is two steps, `next` is
  where it returns to. `Held(i)` are the descriptors an instance must close.
* **BridgeApi** - what the JNI functions that open and close the camera promise:
  each takes effect at once. PluginConnection is built on it, NativeBridge
  implements it, so the two compose.
* **NativeBridge** - every JNI function of N. All hold `g_mutex`, so `call` is
  the one under way and `step` where it is; each library call that may fail is a
  step. `live` counts the library's objects by kind, `local` are those that
  local pointers hold: an object that is neither in a global nor in `local` is
  leaked, one that is freed twice makes a negative count.
* **NativeScan** - `collect_camera_files`, the recursive listing, as a stack of
  frames: enter a folder, count it against the limits, list its files, name
  each, list its folders, visit each. A frame below the top keeps its folder
  list alive. `visited`, `encoded` and `report` are the code's.
* **GPhoto2** - what the vendored headers declare and the bridge relies on:
  result codes, kinds of owned objects, events with their data, widget types.
* **CanonEventLoopProofs**, **CanonIngestProofs**, **PtpTransactionProofs**,
  **PtpBulkReaderProofs**, **GenericMediaProofs**, **PluginConnectionProofs**,
  **NativeScanProofs**,
  **NativeBridgeProofs** - the theorems about these modules.
* **MC...** - the instances TLC checks.

Assumed of libgphoto2 and not of N: `gp_camera_set_abilities` refuses a null
camera and closes an open one; a failed `gp_camera_get_config` has created
nothing; `gp_file_unref` closes the descriptor of its file. What detection,
loading and every other call return is free, within the declared results.

Some modules contain an operator that no action uses, placed before the
definition it varies (`ActiveWithoutGeneration`, `ReadAnyHeader`, ...): the
code with a plausible bug. Substituted for the definition it makes the named
property fail, which shows that the property depends on that line.

## What the runs check

| run | instance | shows |
|---|---|---|
| `event_loop` | 2 threads, fair | the inductive invariant `IInv`; `ClosedSessionIsQuiet`, `OneActiveThread`, `StoppedMeansStopped`; the threads implement `EventReader` (`ImplementsReader`); retired threads end, operations end |
| `capture_live` | 2 threads, fair | `_captureInFlight` is always cleared, whatever throws, is closed or is lost on the way |
| `capture_heard` | 2 threads | **violated**: the capture of an application that listens (`resume`) stops the listening and waits for an event nobody reads |
| `ingest` | 2 photos, 2 storages, one failure of any of three kinds, pages and incremental lists, stops | news is reported once, by an event or by a list, never by both; what came with a card is never news; the registry's invariant |
| `ingest_kept` | 2 photos, full and incremental lists, one transient failure, fair | a photo taken while listening is settled when an incremental list returns, and is delivered in the end, except what a failed list had to itself |
| `ingest_missed` | as above, no failure, not yet listening | **violated**: the maintenance of a full list consumes an event that the plugin then drops |
| `ptp` | 4 transactions, payloads to 2 pieces, 1 allowed outside downloads, fair | the inductive invariant `IInv`; own answers only, in step until a transaction is given up, every transaction ends |
| `bulk_reader` | 5 bytes, a buffer of 3, 2 empty packets, fair | the inductive invariant `IInv`; a call hands out exactly its range; the reader implements `PtpByteStream`; every call ends |
| `native_bridge` | 2 descriptors, 2 ids, 2 drivers, two trees, every library call may fail, fair | the inductive invariant `IInv`; nothing leaks (`Balanced`); connect answers the truth; a listing without an error is complete; the bridge implements `BridgeApi`; every call ends |
| `generic_media` | an old and a new file, pages of the root, one incomplete listing, 2 waiting tasks, fair | the inductive invariant `IInv`; one chain of polls; the last request wins; only new files are announced; a file created while listening arrives |
| `generic_pages` | the same, pages of another folder | **violated**: such a page makes the next poll announce old files as new |
| `plugin_connection` | 2 engines (2 requests and 1), a Canon and another camera, 2 descriptors | every dispatcher's stage (`Stages`, inductive with the rest); no descriptor leaks or is used after it was closed; a usable bridge has an open camera except while an instance connects; one answer per request; the last event is the truth; a device that went is dropped; an engine that goes leaves nothing |

The violated properties state what a test or a comment of the repository says;
`PROJECT.json` quotes the line under `findings`.

### Bounds, and why they are enough

* *Threads*: a thread object is started once, so their number bounds the starts.
  Two give a thread whose join timed out and its successor, both alive. A third
  one, started while both are alive, is covered by the proofs, which do not
  depend on the number.
* *MaxBytes* 5 with a *BufferSize* of 3: a range inside one transfer, one that
  ends with it, one over several, and a surplus over several ranges. The
  proofs do not depend on these either.
* *Handles*: two photos show every interaction of one handle with the published
  limit (1 here, 512 in the code: with two photos the first is evicted). The
  camera numbers its objects upwards and announces each once or twice.
* *Requests* of CanonIngest: a full list is a page that covers everything and
  leaves nothing out, so `ingest`, which asks what may be said twice, takes
  pages and gets the lists with them; `ingest_kept`, which asks what may be
  lost, takes full lists, since a page does not promise to return anything.
* *MaxAttempts* is 2 (3 in the code): a first failure that is retried and a
  last one. The 5 s age limit is the failure kind `aged`.
* *MaxFaults* 1 bounds failed transactions and deletions (CanonIngest) or
  incomplete listings (GenericMedia) in a behaviour.
* *Storages*: 2; a new card has a storage id not seen before. A card with the
  id of the old one cannot be told apart by the code, and is not modelled.
* *Transactions*: 4 show a timed-out one, one that meets its late answer and
  two more; payload pieces 0 to 2 with a limit of 1 show the empty payload, the
  allowed one and the refused one.
* *MaxDepth* 1, *MaxFolders* 3, *MaxErrors* 2 (32, 512 and 20 in the code): one
  tree exceeds all of them, has folders listed twice, entries without a name and
  a cycle; the other stays within them, so that an error-free listing occurs.
  The proofs hold for any tree and any limits.
* *Failures*: one code stands for all; the bridge compares results with zero
  only. The proofs hold for any set of them.
* *MaxQueue* 2: a stop that overtakes a start and a poll behind both. The proofs
  about GenericMedia hold for a queue of any length.
* *Descriptors* and engines of PluginConnection: two of each. An engine opens
  the new device before it closes the old one, so two descriptors are both in
  use while the other engine finds none free, and a closed number is given out
  again to the other engine, which is the case the properties are about. One
  request of the second engine is enough to meet it at every step of the first.

### Fairness

`CanonEventLoop`: a thread that can run runs, and each USB call has a timeout,
so steps inside an operation and the threads' steps are weakly fair; requests
are not. Entering the monitor is strongly fair: Java monitors are not fair, but
the loop sleeps 700 ms outside it between two rounds (B:329) and the
dispatcher leaves it between requests. `CanonCapture` asks of the event threads
only that they go on when they can, not that they ever get the monitor, and adds
strong fairness of the flow's own steps: its requests wait in the executor's
queue, which is first in, first out, and the rest is the controller's isolate.
`CanonIngest`: an operation that holds the monitor goes on (each transaction
times out); the loop gets the monitor again and again, and reconciles when 2 s
have passed. `PtpTransaction`: every read returns or times out; nothing is
assumed of the camera. `PtpBulkReader`: the same, for each transport read.
`NativeBridge`: a call under way goes on, since each library call returns;
that a call is made is not assumed. `GenericMedia`: the dispatcher runs, its
timers fire, and a poll that comes again and again finds a listing due
(strongly fair `PollLists`: the interval between two listings is bounded).

## What is proved

`CanonEventLoopProofs` assumes only `ActorsDistinct`: the dispatcher, the event
threads and null are different. For every set of event threads, finite or not:

* `Invariance`: `Spec => []IInv`. `IInv` strengthens the four properties, none
  of which is inductive. `LockInv` ties each program counter to the monitor's
  holder. `GenInv` says that live threads have different generations, none
  above the counter, and strictly below it when listening has been retired:
  this is what makes `Active` unique. `StageInv` records what the dispatcher
  knows of the flags at each step (for instance that `running` is off in the
  synchronized block of close). `StopInv` says which variable names the only
  live thread as long as no join timed out.
* `OneReader`, `QuietTeardown`, `StopLeavesNoThread`: the invariants of the run
  `event_loop`, from `IInv`.
* `RetiredForGood`: the action property `NeverRevived`, from `IInv` and the fact
  that an active thread's generation is the counter's current value. It is not a
  property of a run because the refinement that follows says more.
* `OneReaderAtATime`: `Spec => ImplementsReader`. `ExitInv` adds to `IInv` that a
  thread on its way out is not the current one; `RoundFacts` and `ThreadFacts`
  say who polls and who handles before and after a step of each kind, and
  `DispatcherReads`, `ThreadReads` map every action to a step of EventReader or
  to a stutter.
* `FlowImplementsEventLoop`: `CaptureSpec => Spec`. A flow of
  CanonCapture only says when requests of the dispatcher are made, so all the
  theorems above hold while one runs.

The step lemmas (`DispatcherKeepsIInv`, `ThreadKeepsIInv`) have one step per
action.

`CanonIngestProofs` assumes only `IngestParameters` and `RegistryLimits`:
handles and storage ids are numbers, MaxAttempts and PublishedLimit positive.
For any number of photos, storages, faults and repeated events:

* `Invariance`: `Spec => []IInv`. Besides types and the registry (`IngestInv`) it
  has `StageInv`, what the one operation that holds `ioLock` knows at each phase;
  `FreshInv`, a handle the camera has not used yet is in none of the
  sets; `OldInv`, history is in the catalog and in no place a report could start
  from; and `NewsInv`, news that was reported is in the catalog, does not wait,
  and an event of it that is still to come finds it cached. The last is what
  makes `NewsOnce` inductive although the memory of published handles forgets
  the oldest one.
* An action is first reduced to what it does to these sets of handles
  (`EveryStep`, from one lemma per action); then there is one lemma per conjunct,
  which no longer sees the code of the step.
* `RegistryKept`, `NewsIsOnce`, `HistoryIsNoNews`: `IngestInv`, `NewsOnce` and
  `NoHistory`, from `IInv`.
* `AttendedIsKept`: `AttendedPhotoIsKept` under the hypothesis `Steady`, which
  the run `ingest_kept` satisfies: one storage, no pages, no stop, only transient
  failures, and fewer of them than attempts. `KeptInv` is its invariant: an
  attended photo that is cached or published was delivered or is about to be
  returned, one that is in the catalog was delivered, waits or is in the list
  under way, and a handle that waits has failed no more often than there were
  faults. None of the hypotheses can go: without any one
  of them TLC finds a small instance that violates the property - a second card
  takes the photo away, a page caches it without reporting it, a stop drops what
  it learned, a fatal failure or the age limit or a last attempt gives it up.

`PtpTransactionProofs` assumes only `PtpBounds`: the three bounds are natural
numbers. For any number of transactions and any length of payload:

* `Invariant`: `Spec => []IInv`. `IdsInv` is what makes `OwnAnswer` inductive:
  ids are given out upwards (`IdsGiven`), the pipe and the camera's queue are
  sorted by id, one behind the other (`IdsInOrder`), so behind a header that
  passed validateHeader there is nothing of an earlier command (`OwnPayload`).
  `WholeInv` says that every answer in the pipe or on its way is in order and
  lacks nothing behind its first container there, so what the copy loop reads
  next is the payload it has not read yet, and the response after the last
  piece; that makes the second half of `OwnAnswer` inductive.
  `StepInv` makes `InStep` inductive: until a transaction is given up half read
  the pipe holds the rest of exactly one answer, `Rest(first, pieces)`, in one
  of five stages (`Between`, `Awaiting`, `AnswerBegins`, `Copying`,
  `AnswerEnds`).
* `ReadsOwnAnswer` and `StaysInStep`: `OwnAnswer` and `InStep`, from `IInv`.

`TypeStep`, `IdsStep`, `DataStep`, `WholeStep` and `RestStep` prove one conjunct
each, one step per action; `ReadWhole` and `SendWhole` say what reading and
sending do to a sequence of whole answers; `AppendFacts` and `TailFacts` are
what they need of sequences.

`PtpBulkReaderProofs` assumes only `ReaderBounds`: natural numbers, and a buffer
that is not empty. For any number of bytes, any buffer, any packets:

* `Invariant`: `Spec => []IInv`. `SurplusInv` is the whole argument: `pending`
  is the end of what the transport returned, and what is before its unread part
  is in `output`, in order. `CopyFacts` computes one copy from the lemmas on
  runs of bytes (`PartOfBytes`, `JoinBytes`).
* `HandsOutTheRange`: `ExactRange`, from `IInv`.
* `Implements`: `Spec => ReadsTheStream`: a copy is a step `Deliver` of the
  stream, the camera's sending an `Arrive`, every other step a stutter.

`GenericMediaProofs` assumes `GenericAssumption` (the constants' types, and that
no key is the name of another event). For any files, any queue and any number of
incomplete listings:

* `Invariance`: `Spec => []IInv`. `ChainInv` says where the one poll is - behind
  its timer, queued, about to clear the flag, under way - because the count in
  `OnePollChain` alone does not say which step may come next. `WishInv` keeps an
  end queued behind every start that is no longer wanted. `NewsInv`: what is on
  the camera is in the catalog, new, or was left out by an incomplete listing.
* `OneChain`, `LastRequestCounts`: the invariants of the run, from `IInv`.
* `NewsOnly`: `OnlyNewFilesAreAnnounced` under the hypothesis that every page is
  one of the root folder. The run `generic_pages` shows that it is needed.

`PluginConnectionProofs` assumes `ConnectionAssumption` and, of the descriptors,
`DescriptorsAssumption`. For any number of engines, devices and requests:

* `Invariance`: `Spec => []IInv`, which is `Stages` and the properties it rests
  on. In `Stages`, `TaskInv`, `ConnectionInv` and `EventInv` say
  for each step of a dispatcher what it runs, what it has open and what it has
  told; `BridgeInv` keeps the camera off a descriptor that is about to be closed
  or was not handed to it; `GoneInv` and `EngineInv` keep a disconnection queued
  or under way for a device or an engine that is gone.
* An action is first reduced to what it does to its own instance (`Effects`,
  one disjunct for each way it may go; `OthersStay` for the rest).
  `HeldMoves` shows that a step opens one descriptor, closes one it holds, or
  does neither, and `OwnedStep` that each of the three keeps one owner each.
* `StagesHold`, `NothingLeaks`, `DescriptorIsOpen`, `UsableIsOpen`, `OneAnswer`,
  `EventsAreTrue`, `GoneIsDropped`, `EnginesLeaveNothing`: every property of the
  run, from `IInv`.
* `UsesTheBridge`: `Spec => ApiSpec`. All a step does to the bridge is a call of
  BridgeApi (`CallsTheApi`), however the engines interleave. `Implementation`,
  below, is the other half: NativeBridge makes good what is relied on here.

`NativeScanProofs` assumes `NamesAssumption`, `TreesAssumption`,
`FailuresAssumption` and `LimitsAssumption`. `ScanStep`: every step of the
listing keeps `ScanInv` - frames are typed, `RestInv` says that what a frame has
yet to visit is the end of what the folder holds, `LimitsInv` bounds stack and
folders, no file is named twice, and `CompleteInv`: what was not read yet is
before a frame of the stack, or an error was reported. At an empty stack this is
completeness.

`NativeBridgeProofs` adds `BridgeAssumption`. For any camera, descriptors,
drivers and failures:

* `Invariance`: `Spec => []IInv`. `CountsInv` gives every live object one owner -
  a global, `local`, or a frame of the scan - and is what makes `Balanced`
  inductive. `StageInv` ties the step to the call and to what `local` holds;
  `ConnectInv` records what a connect has set so far, `BeforeInv` what it hides
  until it answers, `DownloadInv` the destination file.
* `NothingLeaks`, `ListingsAreComplete`, `ConnectAnswersTruly`,
  `DownloadsAreWhole`: the properties, from `IInv`.
* `Implementation`: `Spec => ImplementsApi`. A connect is hidden until it
  answers (`ConfigureIsHidden`); its answer is `ConnectSucceeds` or
  `ConnectFails` of the state before it (`SuccessShowsApi`, `FailureShowsApi`).

Only liveness stays with TLC: fairness and ENABLED are out of this prover's
reach. These are `StaleThreadsEnd`, `OperationsEnd`, `InFlightClears`,
`AttendedPhotoArrives`, `TransactionEnds`, `CallEnds` of both modules and
`NewFileArrives`. Every other property of a passing run is a theorem.

## What is not modelled, and abstractions

* Logging (nativeSetLogFile's registration is modelled, the writing is not),
  keep-alives, wording and the order of listings.
* `ObjectInfo` that is read but cannot be decoded is an object that is not a
  photo. The parser of EOS records is not modelled: a record is a handle, with
  or without usable metadata. Parser and decoders are pure functions of byte
  strings.
* A camera that reuses the handle of a deleted object, and a card that changes
  without its storage id changing.
* In PtpTransaction a header and a payload piece are read whole; a time out
  in the middle of a range, which loses what the call had copied, is in
  PtpBulkReader.
* The reads of `isActiveEventGeneration` are one step; the comment at `Active`
  says why that loses nothing.
* The drain calls and the queue `pendingMediaEvents`, and the chain of cursors
  over several pages (Canon and generic): a page is modelled by its effect on
  catalog and caches.
* The permission dialogue in front of connectCamera: it only delays or refuses a
  request.
* The Kotlin side of a download: the temporary file, delete and rename in the
  cache directory. The native side's destination and the PTP loop are modelled.
* `readHandleSnapshot` (B:445) asks for the storages and then for the handles of
  each, in transactions of its own under the monitor, and fails as a whole. It is
  one step of CanonIngest. One photo taken meanwhile is in the snapshot or is
  not, as if taken before or after it, and its event is fetched later in either
  case; a snapshot that mixes two moments (the later of two photos on different
  storages, without the earlier) or a card changed within it is left out.
* CanonCapture hears an answer when the dispatcher gives it, and has one
  connection: a later one has a backend of its own. An engine that is torn down
  takes the controller's pending requests with it and is left to
  PluginConnection.
* The Dart controller apart from captureAndDownload, and repository and models,
  which keep no state.
* The library binaries. What their headers declare is GPhoto2.

## Plan

Done: CanonEventLoop with EventReader, PtpTransaction, PtpBulkReader and
CanonIngest with their proofs; CanonCapture; NativeScan and NativeBridge with
BridgeApi and their proofs; GenericMedia and PluginConnection with their proofs.

Left, in this order:

1. Refinement: PtpTransaction implements an atomic request and answer while in
   step.
2. CameraController: the Dart state machine with events between awaits; the
   capture runs move to it.
3. MediaDownload: temporary file, delete, rename, crash and collisions.
4. EosEvents and paging as pure algorithms against reference definitions (cursor
   chains, record boundaries, 32-bit lengths), and the drain calls.
