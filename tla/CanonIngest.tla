----------------------------- MODULE CanonIngest -----------------------------
(***************************************************************************)
(* How a photo taken on a Canon camera reaches the application: the event  *)
(* polling round, the full list, the page and the incremental list of      *)
(* CanonPtpBackend.kt with its handle catalog, caches and registry, and    *)
(* the filter handleCanonPhotoAdded of UsbCameraSdkPlugin.kt.              *)
(*                                                                         *)
(* One operation at a time holds ioLock (CanonEventLoop).  An operation is *)
(* a sequence of PTP transactions, one step each, between which the camera *)
(* takes, deletes and announces photos and the main thread clears the      *)
(* plugin's flag mediaEventListening.  Keep-alives and logging are left    *)
(* out; so is the check of running, which is TRUE until close.             *)
(***************************************************************************)
EXTENDS CanonPhotoHandleRegistry

CONSTANTS Handles,    \* object handles, ordered as numbers
          Photos,     \* those whose file name has a photo or video extension
          History,    \* those on the card when the camera is connected
          Storages,   \* storage ids a card may have, ordered as numbers
          Requests,   \* foreground requests the application makes
          MayStop,    \* whether the application ever stops listening
          FaultKinds, \* how getObjectInfo fails: "transient", "fatal", "aged"
          MaxFaults   \* bound: failed transactions and deletions in a behaviour

ASSUME IngestParameters ==
    /\ Handles \subseteq Nat /\ Photos \subseteq Handles /\ History \subseteq Handles
    /\ Storages \subseteq Nat /\ Requests \subseteq {"list", "page", "new"}
    /\ MayStop \in BOOLEAN /\ MaxFaults \in Nat
    /\ FaultKinds \subseteq {"transient", "fatal", "aged"}

VARIABLES
    card, storage,    \* the camera: objects on its card, the card's storage id
    queue,            \* the camera: OBJECT_ADDED events it has not delivered
    fresh,            \* history: handles not used yet
    old,              \* history: handles that came with a card
    catalog, catalogStorage,       \* CanonHandleCatalog: handles, storageIds
    photoCache, inspected,         \* photoCache.keys, inspectedHandles
    registry,                      \* photoHandles
    listening,        \* mediaEventListening, the flag of the plugin
    loopOn,           \* an event thread of the current generation exists
    op, phase,        \* the operation that holds ioLock and its next step
    stale,            \* the polling round belongs to a stopped generation
    ending,           \* the scan is over, its last maintenance runs
    todo, result,     \* handles to inspect, photos to return
    batch, waiting,   \* events to handle, pending handles to resolve
    announced,        \* history: times handleCanonPhotoAdded emitted a handle
    listed, found,    \* history: returned by list or page; by listNewPhotos
    attended,         \* history: taken while the application listened
    unlisted,         \* history: of full lists that failed, what they were to return
    faults            \* history: failed transactions and deletions so far

cameraVars == <<card, storage, queue, fresh, old, attended>>
stateVars == <<catalog, catalogStorage, photoCache, inspected, registry>>
scanVars == <<ending, todo, result>>
deliveries == <<announced, listed, found, unlisted>>
vars == <<cameraVars, stateVars, listening, loopOn, op, phase, stale, scanVars,
          batch, waiting, deliveries, faults>>

\* After connect(): the baseline is the card's content.
Init ==
    /\ card = History
    /\ storage \in Storages
    /\ queue = <<>>
    /\ fresh = Handles \ History /\ old = History
    /\ catalog = History /\ catalogStorage = storage
    /\ photoCache = {} /\ inspected = {}
    /\ registry = EmptyRegistry
    /\ listening = FALSE /\ loopOn = FALSE
    /\ op = "none" /\ phase = "idle" /\ stale = FALSE
    /\ ending = FALSE /\ todo = {} /\ result = {}
    /\ batch = <<>> /\ waiting = {}
    /\ announced = [h \in Handles |-> 0]
    /\ listed = {} /\ found = {} /\ attended = {} /\ unlisted = {}
    /\ faults = 0

-----------------------------------------------------------------------------
(* The camera                                                              *)

\* An object appears on the card, announced once or twice, with its metadata
\* or without (OBJECT_ADDED, OBJECT_ADDED_EX and EX_64 records).
Shoot ==
    /\ \E h \in fresh, full \in BOOLEAN, copies \in {<<1>>, <<1, 2>>} :
          /\ \A g \in fresh : h <= g
          /\ fresh' = fresh \ {h}
          /\ card' = card \cup {h}
          /\ attended' = IF listening THEN attended \cup {h} ELSE attended
          /\ queue' = queue \o
                [i \in DOMAIN copies |-> [handle |-> h, full |-> full]]
    /\ UNCHANGED <<storage, old, stateVars, listening, loopOn, op, phase, stale,
                   scanVars, batch, waiting, deliveries, faults>>

\* The bound on what goes wrong.
Fault == faults < MaxFaults /\ faults' = faults + 1

Delete ==
    /\ Fault
    /\ \E h \in card : card' = card \ {h}
    /\ UNCHANGED <<storage, queue, fresh, old, attended, stateVars, listening,
                   loopOn, op, phase, stale, scanVars, batch, waiting, deliveries>>

\* Another card, with objects of its own and a storage id not seen before.
SwapCard ==
    /\ \E s \in Storages, content \in SUBSET fresh :
          /\ s > storage
          /\ storage' = s
          /\ card' = content
          /\ fresh' = fresh \ content
          /\ old' = old \cup content
    /\ UNCHANGED <<queue, attended, stateVars, listening, loopOn, op, phase,
                   stale, scanVars, batch, waiting, deliveries, faults>>

-----------------------------------------------------------------------------
(* Starting and stopping, on the dispatcher and the main thread            *)

DispatcherFree == op \in {"none", "poll"}   \* no foreground request is running

\* The plugin's startMediaEventListening; the stop that an earlier clearing of
\* the flag queued comes before it.
StartListening ==
    /\ DispatcherFree
    /\ ~listening /\ ~loopOn
    /\ listening' = TRUE /\ loopOn' = TRUE
    /\ UNCHANGED <<cameraVars, stateVars, op, phase, stale, scanVars, batch,
                   waiting, deliveries, faults>>

\* onMethodCall("stop..."), on the main thread, whatever the dispatcher does.
MainClearsFlag ==
    /\ MayStop /\ listening
    /\ listening' = FALSE
    /\ UNCHANGED <<cameraVars, stateVars, loopOn, op, phase, stale, scanVars,
                   batch, waiting, deliveries, faults>>

\* The request it queued: the backend's stop.  A round that is under way is of
\* a stopped generation from now on; its join may time out before it ends.
StopLoop ==
    /\ DispatcherFree
    /\ ~listening /\ loopOn
    /\ loopOn' = FALSE
    /\ stale' = (op = "poll")
    /\ UNCHANGED <<cameraVars, stateVars, listening, op, phase, scanVars, batch,
                   waiting, deliveries, faults>>

-----------------------------------------------------------------------------
(* Pieces of the operations                                                *)

\* CanonHandleCatalog: hasSameStorage, what reconcile returns, and the new
\* baseline, with which everything known of the old one goes
\* (replaceCatalogBaseline).
SameStorage == catalogStorage = storage
Added == card \ catalog
\* A reset that empties the catalog instead.
ForgetBaseline ==
    /\ catalog' = {} /\ catalogStorage' = storage
    /\ photoCache' = {} /\ inspected' = {}
    /\ registry' = EmptyRegistry
ReplaceBaseline ==
    /\ catalog' = card /\ catalogStorage' = storage
    /\ photoCache' = {} /\ inspected' = {}
    /\ registry' = EmptyRegistry

\* handleCanonPhotoAdded: queued for drain and emitted, if the flag is set.
Emit(h) == announced' = [announced EXCEPT ![h] = IF listening THEN @ + 1 ELSE @]

\* Cached, marked published and handed to the plugin (publishPhoto).
Publish(h) ==
    /\ photoCache' = photoCache \cup {h}
    /\ inspected' = inspected \cup {h}
    /\ registry' = MarkPublished(registry, h)
    /\ Emit(h)

\* How getObjectInfo fails; about an object that is no longer there it is
\* answered INVALID_OBJECT_HANDLE, which is transient.
Fails(h, kind) ==
    \/ kind \in FaultKinds /\ Fault
    \/ kind = "transient" /\ h \notin card /\ UNCHANGED faults
Reads(h) == h \in card /\ UNCHANGED faults

\* Leaving the monitor.
Finish ==
    /\ op' = "none" /\ phase' = "idle" /\ stale' = FALSE
    /\ ending' = FALSE /\ todo' = {} /\ result' = {}
    /\ batch' = <<>> /\ waiting' = {}

-----------------------------------------------------------------------------
(* Events and pending handles: the polling round, and the maintenance of a *)
(* long scan                                                               *)

BeginPoll ==
    /\ op = "none" /\ loopOn
    /\ op' = "poll" /\ phase' = "fetch"
    /\ UNCHANGED <<cameraVars, stateVars, listening, loopOn, stale, scanVars,
                   batch, waiting, deliveries, faults>>

\* EOS_EVENT_CHECK takes what the camera has; a round whose generation was
\* stopped meanwhile drops the answer.
FetchEvents ==
    /\ phase = "fetch"
    /\ queue' = <<>>
    /\ IF op = "poll" /\ stale
       THEN Finish
       ELSE /\ batch' = queue
            /\ phase' = "events"
            /\ UNCHANGED <<op, stale, scanVars, waiting>>
    /\ UNCHANGED <<card, storage, fresh, old, attended, stateVars, listening, loopOn,
                   deliveries, faults>>

\* The round is over, a scan goes on or, after its last maintenance, returns.
AfterMaintenance ==
    IF op = "poll"
    THEN Finish
    ELSE /\ phase' = IF ending THEN "return" ELSE "inspect"
         /\ UNCHANGED <<op, stale, scanVars, batch, waiting>>

\* It fails, before or after the camera gave its events away.
FetchFails ==
    /\ phase = "fetch"
    /\ Fault
    /\ queue' \in {queue, <<>>}
    /\ AfterMaintenance
    /\ UNCHANGED <<card, storage, fresh, old, attended, stateVars, listening, loopOn,
                   deliveries>>

\* A handler that trusts the registry alone.
HandleEventUncached ==
    /\ phase = "events" /\ batch # <<>>
    /\ LET h == Head(batch).handle IN
       /\ catalog' = catalog \cup {h}
       /\ IF ~Offers(registry, h)
          THEN UNCHANGED <<photoCache, inspected, registry, announced>>
          ELSE IF Head(batch).full /\ h \in Photos
               THEN Publish(h)
               ELSE /\ registry' = Offer(registry, h)
                    /\ UNCHANGED <<photoCache, inspected, announced>>
    /\ batch' = Tail(batch)
    /\ UNCHANGED <<cameraVars, catalogStorage, listening, loopOn, op, phase,
                   stale, scanVars, waiting, listed, found,
                   unlisted, faults>>

\* One record of handleEosEvents.
HandleEvent ==
    /\ phase = "events" /\ batch # <<>>
    /\ LET h == Head(batch).handle IN
       /\ catalog' = catalog \cup {h}            \* observe
       /\ IF h \in photoCache \/ ~Offers(registry, h)
          THEN UNCHANGED <<photoCache, inspected, registry, announced>>
          ELSE IF Head(batch).full /\ h \in Photos
               THEN Publish(h)
               ELSE /\ registry' = Offer(registry, h)
                    /\ UNCHANGED <<photoCache, inspected, announced>>
    /\ batch' = Tail(batch)
    /\ UNCHANGED <<cameraVars, catalogStorage, listening, loopOn, op, phase,
                   stale, scanVars, waiting, listed, found,
                   unlisted, faults>>

\* A polling round reconciles when 2 s have passed; if that is not due, or its
\* snapshot fails (runCatching), the pending handles are next.
EventsDone ==
    /\ phase = "events" /\ batch = <<>>
    /\ \/ op = "poll" /\ phase' = "reconcile" /\ UNCHANGED waiting
       \/ phase' = "resolve" /\ waiting' = Pending(registry)
    /\ UNCHANGED <<cameraVars, stateVars, listening, loopOn, op, stale, scanVars,
                   batch, deliveries, faults>>

\* A reconciliation that takes the snapshot over without offering what is new.
ReconcileSilently ==
    /\ phase = "reconcile"
    /\ IF SameStorage
       THEN /\ catalog' = card
            /\ UNCHANGED <<catalogStorage, photoCache, inspected, registry>>
       ELSE ReplaceBaseline
    /\ phase' = "resolve"
    /\ waiting' = Pending(registry')
    /\ UNCHANGED <<cameraVars, listening, loopOn, op, stale, scanVars, batch,
                   deliveries, faults>>

\* reconcileHandleCatalog: what the snapshot adds waits for its ObjectInfo.
OfferAll(reg, hs) ==
    [reg EXCEPT !.pending = [h \in Pending(reg) \cup hs |->
        IF h \in Pending(reg) THEN reg.pending[h] ELSE 0]]
Reconcile ==
    /\ phase = "reconcile"
    /\ IF SameStorage
       THEN /\ catalog' = card
            /\ registry' = OfferAll(registry,
                   {h \in Added \ photoCache : Offers(registry, h)})
            /\ UNCHANGED <<catalogStorage, photoCache, inspected>>
       ELSE ReplaceBaseline
    /\ phase' = "resolve"
    /\ waiting' = Pending(registry')
    /\ UNCHANGED <<cameraVars, listening, loopOn, op, stale, scanVars, batch,
                   deliveries, faults>>

\* resolvePendingPhotos: the ObjectInfo of one pending handle is read, or the
\* failure recorded.
Resolve ==
    /\ phase = "resolve"
    /\ \E h \in waiting :
          /\ waiting' = waiting \ {h}
          /\ \/ /\ Reads(h)
                /\ h \in Photos
                /\ catalog' = catalog \cup {h}
                /\ Publish(h)
             \/ /\ Reads(h)
                /\ h \notin Photos
                /\ registry' = Discard(registry, h)
                /\ inspected' = inspected \cup {h}
                /\ UNCHANGED <<catalog, photoCache, announced>>
             \/ \E kind \in {"transient", "fatal", "aged"} :
                /\ Fails(h, kind)
                /\ registry' =
                      RecordFailure(registry, h, kind # "fatal", kind = "aged")
                /\ UNCHANGED <<catalog, photoCache, inspected, announced>>
    /\ UNCHANGED <<cameraVars, catalogStorage, listening, loopOn, op, phase,
                   stale, scanVars, batch, listed, found, unlisted>>

ResolveDone ==
    /\ phase = "resolve" /\ waiting = {}
    /\ AfterMaintenance
    /\ UNCHANGED <<cameraVars, stateVars, listening, loopOn, deliveries, faults>>

-----------------------------------------------------------------------------
(* The full list and the page                                              *)

\* A page covers the handles from its cursor, downwards, to where the limit or
\* the end stops it.
Segments(hs) == {{}} \cup {{h \in hs : a >= h /\ h >= b} : a \in hs, b \in hs}

\* The snapshot and updateCatalogForFullList.  A snapshot that fails throws
\* before anything is changed.
BeginScan ==
    /\ op = "none"
    /\ \E kind \in Requests \ {"new"} :
          /\ op' = kind
          /\ todo' \in IF kind = "list" THEN {card} ELSE Segments(card)
    /\ IF SameStorage
       THEN /\ catalog' = card
            /\ photoCache' = photoCache \cap card
            /\ inspected' = inspected \cap card
            /\ UNCHANGED <<catalogStorage, registry>>
       ELSE ReplaceBaseline
    /\ phase' = "inspect"
    /\ UNCHANGED <<cameraVars, listening, loopOn, stale, ending, result, batch,
                   waiting, deliveries, faults>>

\* A page of one media type leaves the others out.
Returned(h) == {result \cup {h}} \cup (IF op = "page" THEN {result} ELSE {})

\* A scan that returns only what it reads itself, not what is cached.
InspectUncached ==
    /\ phase = "inspect"
    /\ \E h \in todo :
          /\ todo' = todo \ {h}
          /\ \/ /\ h \in inspected \cup photoCache
                /\ UNCHANGED <<photoCache, inspected, result, phase, faults>>
             \/ /\ h \notin inspected \cup photoCache
                /\ Reads(h)
                /\ inspected' = inspected \cup {h}
                /\ photoCache' = photoCache \cup ({h} \cap Photos)
                /\ UNCHANGED result
                /\ phase' \in {"inspect", "fetch"}
    /\ UNCHANGED <<cameraVars, catalog, catalogStorage, registry, listening,
                   loopOn, op, stale, ending, batch, waiting, deliveries>>

\* One handle of the scan.  After every FULL_SCAN_MAINTENANCE_BATCH that were
\* read, wherever that falls, a maintenance runs.
Inspect ==
    /\ phase = "inspect"
    /\ \E h \in todo :
          /\ todo' = todo \ {h}
          /\ \/ /\ h \in photoCache
                /\ result' \in Returned(h)
                /\ UNCHANGED <<photoCache, inspected, phase, faults>>
             \/ /\ h \in inspected \ photoCache
                /\ UNCHANGED <<photoCache, inspected, result, phase, faults>>
             \/ /\ h \notin inspected \cup photoCache
                /\ Reads(h)
                /\ inspected' = inspected \cup {h}
                /\ photoCache' = photoCache \cup ({h} \cap Photos)
                /\ result' \in IF h \in Photos THEN Returned(h) ELSE {result}
                /\ phase' \in {"inspect", "fetch"}
    /\ UNCHANGED <<cameraVars, catalog, catalogStorage, registry, listening,
                   loopOn, op, stale, ending, batch, waiting, deliveries>>

\* getObjectInfo is not caught here: one failure ends the request.
InspectFails ==
    /\ phase = "inspect"
    /\ \E h \in todo \ (inspected \cup photoCache) :
          \E kind \in {"transient", "fatal"} : Fails(h, kind)
    /\ unlisted' = IF op = "list" THEN unlisted \cup todo \cup result ELSE unlisted
    /\ Finish
    /\ UNCHANGED <<cameraVars, stateVars, listening, loopOn, announced, listed,
                   found>>

ScanDone ==
    /\ phase = "inspect" /\ todo = {}
    /\ ending' = TRUE
    /\ phase' = "fetch"
    /\ UNCHANGED <<cameraVars, stateVars, listening, loopOn, op, stale, todo,
                   result, batch, waiting, deliveries, faults>>

ReturnScan ==
    /\ phase = "return" /\ op # "new"
    /\ listed' = listed \cup result
    /\ Finish
    /\ UNCHANGED <<cameraVars, stateVars, listening, loopOn, announced, found,
                   unlisted, faults>>

-----------------------------------------------------------------------------
(* The incremental list                                                    *)

\* The snapshot; the new handles are what it has and the catalog had not.  A
\* changed storage resets the baseline and returns nothing.
BeginNew ==
    /\ op = "none" /\ "new" \in Requests
    /\ op' = "new"
    /\ IF SameStorage
       THEN /\ todo' = Added
            /\ catalog' = card
            /\ UNCHANGED <<catalogStorage, photoCache, inspected, registry>>
       ELSE ReplaceBaseline /\ todo' = {}
    /\ phase' = "read"
    /\ UNCHANGED <<cameraVars, listening, loopOn, stale, ending, result, batch,
                   waiting, deliveries, faults>>

\* One new handle.  A transient failure leaves it to the polling rounds.
ReadNew ==
    /\ phase = "read"
    /\ \E h \in todo :
          /\ todo' = todo \ {h}
          /\ \/ /\ Reads(h)
                /\ inspected' = inspected \cup {h}
                /\ photoCache' = photoCache \cup ({h} \cap Photos)
                /\ result' = result \cup ({h} \cap Photos)
                /\ registry' = IF h \in Photos THEN MarkPublished(registry, h)
                                               ELSE registry
             \/ /\ Fails(h, "transient")
                /\ registry' = Offer(registry, h)
                /\ UNCHANGED <<inspected, photoCache, result>>
             \/ /\ Fails(h, "fatal")
                /\ inspected' = inspected \cup {h}
                /\ UNCHANGED <<registry, photoCache, result>>
    /\ UNCHANGED <<cameraVars, catalog, catalogStorage, listening, loopOn, op,
                   phase, stale, ending, batch, waiting, deliveries>>

ReturnNew ==
    /\ phase = "read" /\ todo = {}
    /\ found' = found \cup result
    /\ Finish
    /\ UNCHANGED <<cameraVars, stateVars, listening, loopOn, announced, listed,
                   unlisted, faults>>

-----------------------------------------------------------------------------
Camera == Shoot \/ Delete \/ SwapCard
Control == StartListening \/ MainClearsFlag \/ StopLoop
Maintenance == FetchEvents \/ FetchFails \/ HandleEvent \/ EventsDone \/ Reconcile
               \/ Resolve \/ ResolveDone
Scan == BeginScan \/ Inspect \/ InspectFails \/ ScanDone \/ ReturnScan
Incremental == BeginNew \/ ReadNew \/ ReturnNew
Next == Camera \/ Control \/ BeginPoll \/ Maintenance \/ Scan \/ Incremental

Spec == Init /\ [][Next]_vars

\* An operation that holds the monitor goes on; the loop polls again and, every
\* 2 s, reconciles.  A queue of requests without end would starve the loop: it
\* gets the monitor again and again (CanonEventLoop).
Working == Maintenance \/ Inspect \/ InspectFails \/ ScanDone \/ ReturnScan
           \/ ReadNew \/ ReturnNew
FairSpec ==
    /\ Spec
    /\ WF_vars(Working) /\ SF_vars(BeginPoll) /\ SF_vars(Reconcile)
    /\ SF_vars(EventsDone /\ phase' = "reconcile")

-----------------------------------------------------------------------------
(* What must hold                                                          *)

CameraTypeOK ==
    /\ card \subseteq Handles /\ storage \in Storages
    /\ fresh \subseteq Handles /\ old \subseteq Handles /\ attended \subseteq Handles
    /\ queue \in Seq([handle : Handles, full : BOOLEAN])

CacheTypeOK ==
    /\ catalog \subseteq Handles /\ catalogStorage \in Storages
    /\ photoCache \subseteq Photos /\ inspected \subseteq Handles
    /\ IsRegistry(registry, Handles)

RunTypeOK ==
    /\ listening \in BOOLEAN /\ loopOn \in BOOLEAN
    /\ op \in {"none", "poll", "list", "page", "new"}
    /\ phase \in {"idle", "fetch", "events", "reconcile", "resolve", "inspect",
                  "read", "return"}
    /\ stale \in BOOLEAN /\ ending \in BOOLEAN
    /\ todo \subseteq Handles /\ result \subseteq Photos
    /\ batch \in Seq([handle : Handles, full : BOOLEAN])
    /\ waiting \subseteq Handles

DeliveryTypeOK ==
    /\ announced \in [Handles -> Nat]
    /\ listed \subseteq Photos /\ found \subseteq Photos /\ unlisted \subseteq Handles
    /\ faults \in Nat

TypeOK == CameraTypeOK /\ CacheTypeOK /\ RunTypeOK /\ DeliveryTypeOK
IngestInv == TypeOK /\ RegistryOK(registry)

Announced == {h \in Handles : announced[h] > 0}
Delivered == Announced \cup listed \cup found

\* A photo is news once: it is announced at most once, or returned as new by the
\* incremental list, although the camera may report it twice, the catalog may find
\* it too, a list may cache it before its event is read, and the registry remembers
\* only PublishedLimit published handles.
NewsOnce == \A h \in card : announced[h] + (IF h \in found THEN 1 ELSE 0) <= 1

\* What was on the card when the camera was connected, or came with another
\* card, is never announced and never returned as new: only what appeared since.
NoHistory == (Announced \cup found) \cap old = {}

\* What becomes of a photo: it was delivered, is about to be returned, waits in
\* the registry, or its event is still to be read.
EventHandles(seq) == {seq[i].handle : i \in DOMAIN seq}
Settled(h) == h \in Delivered \cup result \cup Pending(registry)
                    \cup EventHandles(queue) \cup EventHandles(batch)

\* When the incremental list returns, every photo on the card that appeared
\* since the connection is settled: what was missed has been recovered.
MissedPhotoIsRecovered ==
    op = "new" /\ phase = "read" /\ todo = {}
        => \A h \in (catalog \cap Photos) \ old : Settled(h)

\* The same of the photos taken while the application listened, save those that
\* a failed list had taken into the catalog: nothing else loses one.
AttendedPhotoIsKept ==
    op = "new" /\ phase = "read" /\ todo = {}
        => \A h \in (catalog \cap Photos \cap attended) \ unlisted : Settled(h)

\* A photo taken while the application listens is delivered, unless it is
\* deleted first or a list that fails has taken it, although its event may be
\* lost or come without metadata and its ObjectInfo may not be readable at first.
AttendedPhotoArrives ==
    \A h \in Photos : (h \in attended)
        ~> (h \in Delivered \cup unlisted \/ h \notin card)

-----------------------------------------------------------------------------
(* Why this is so                                                          *)

\* What the registry and the events say, as sets of handles.
Waits == Pending(registry)
Known == Published(registry)
Coming == EventHandles(queue)
Here == EventHandles(batch)

\* What an operation leaves behind, and what it has not reached yet.
StageInv ==
    /\ op = "none" <=> phase = "idle"
    /\ op = "new" <=> phase = "read"
    /\ op \in {"none", "poll"} => todo = {} /\ result = {} /\ ~ending
    /\ phase \in {"inspect", "return"} => op \in {"list", "page"}
    /\ phase = "reconcile" => op = "poll"
    /\ batch # <<>> => phase = "events"
    /\ waiting # {} => phase = "resolve"
    /\ waiting \subseteq Waits
    /\ ending => todo = {}
    /\ phase = "return" => ending

\* Whatever was heard of is not fresh any more.
Heard == card \cup old \cup catalog \cup photoCache \cup todo \cup result \cup Waits
         \cup Known \cup Coming \cup Here \cup Announced \cup found \cup attended
FreshInv == fresh \cap Heard = {}

\* What may become news: it is announced, waits or is new to the running list.
Reported == Announced \cup found \cup Waits
            \cup (IF op = "new" THEN todo \cup result ELSE {})

\* The catalog of the card in the camera has all that came with it.
OldInv ==
    /\ catalogStorage <= storage
    /\ SameStorage => card \cap old \subseteq catalog
    /\ old \cap (Reported \cup Coming \cup Here) = {}

\* The news of the card is in the catalog and no request or pending handle is left
\* of it; an event that is still to come finds it cached.  The baseline, and with
\* it the cache, is replaced only when no such event can come.
NewsInv ==
    /\ Coming \cap Here = {}
    /\ ~SameStorage => card \cap Reported \cap Coming = {}
    /\ op = "new" => /\ card \cap todo \cap result = {}
                     /\ card \cap result \subseteq photoCache \ Waits
                     /\ card \cap (todo \cup result) \subseteq catalog
    /\ \A h \in card \cap (Announced \cup found) :
          /\ h \in catalog \ Waits
          /\ h \in Coming \cup Here => h \in photoCache
          /\ op = "new" => h \notin todo \cup result

\* The inductive invariant of the module.
IInv == IngestInv /\ StageInv /\ FreshInv /\ OldInv /\ NewsInv /\ NewsOnce

\* One card, whole lists, no stop, and failures that a pending handle survives.
Steady ==
    /\ \A s, t \in Storages : s = t
    /\ Requests \subseteq {"list", "new"} /\ ~MayStop
    /\ FaultKinds \subseteq {"transient"} /\ MaxFaults < MaxAttempts

\* A photo that is known was delivered or is about to be, waits, or is in a list
\* that is being made; a failure counts against it only if it was a fault.
KeptInv ==
    /\ op # "page" /\ (attended # {} => listening)
    /\ Photos \cap inspected \subseteq photoCache
    /\ faults <= MaxFaults
    /\ \A h \in card \cap Waits : registry.pending[h] <= faults
    /\ \A h \in (Photos \cap attended) \ unlisted :
          /\ h \in photoCache \cup Known => h \in Delivered \cup result
          /\ h \in catalog /\ (h \in card \/ op = "new")
                => h \in Delivered \cup result \cup Waits \cup todo
=============================================================================
