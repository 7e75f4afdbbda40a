---------------------------- MODULE CanonCapture ----------------------------
(***************************************************************************)
(* UsbCameraController.captureAndDownload on top of a Canon backend: the   *)
(* Dart flow stops event listening, captures, lists and downloads, and     *)
(* starts listening again.  Each of its awaits is a request in the queue   *)
(* of the dispatcher, so other requests of the application may run between *)
(* two of its own, and the camera may go away at any time.                 *)
(*                                                                         *)
(* An answer is heard when the dispatcher gives it: what the application   *)
(* does between the two it may do before.  The engine is not torn down,    *)
(* and one connection is made; a later one has a backend of its own.       *)
(***************************************************************************)
EXTENDS CanonEventLoop

VARIABLES connected,  \* isConnected: _status is connected
          listening,  \* _eventListening, what the controller believes
          inFlight,   \* _captureInFlight
          flow,       \* where captureAndDownload is
          resume,     \* its local shouldResumeEvents
          attempt     \* its loop variable: listings asked for so far

flowVars == <<flow, resume, attempt>>
dartVars == <<connected, listening, inFlight, flowVars>>
captureVars == <<vars, dartVars>>

\* At "stop", "capture", "list" and "resume" the flow has a request in the queue;
\* at "stopping", "capturing", "listing" and "resuming" that request is what the
\* dispatcher does.
CaptureInit ==
    /\ Init
    /\ connected = FALSE /\ listening = FALSE /\ inFlight = FALSE
    /\ flow = "none" /\ resume = FALSE /\ attempt = 0

\* if (!isConnected || _captureInFlight) return null.
FlowBegins ==
    /\ connected /\ ~inFlight /\ flow = "none"
    /\ inFlight' = TRUE
    /\ resume' = listening
    /\ flow' = IF listening THEN "stop" ELSE "capture"
    /\ UNCHANGED <<vars, connected, listening, attempt>>

\* await stopPhotoEventListening(); a backend that does not listen has nothing
\* to stop.
FlowStops ==
    /\ flow = "stop" /\ pc = "idle"
    /\ IF eventListening
         THEN StopListening /\ flow' = "stopping" /\ UNCHANGED listening
         ELSE UNCHANGED vars /\ flow' = "capture" /\ listening' = FALSE
    /\ UNCHANGED <<connected, inFlight, resume, attempt>>

\* await _repository.capture(); a closed backend throws at once.
FlowCaptures ==
    /\ flow = "capture" /\ pc = "idle"
    /\ IF running THEN CaptureBegin /\ flow' = "capturing"
                  ELSE UNCHANGED vars /\ flow' = "finally"
    /\ UNCHANGED <<connected, listening, inFlight, resume, attempt>>

\* Up to three listings, until one has the photo.
AfterListing(n) == {"finally"} \cup (IF n < 3 THEN {"list"} ELSE {})

\* await _repository.listPhotos(); the plugin answers for a closed backend
\* with an empty list.
FlowLists ==
    /\ flow = "list" /\ pc = "idle"
    /\ attempt' = attempt + 1
    /\ IF running THEN OpBegin /\ flow' = "listing"
                  ELSE UNCHANGED vars /\ flow' \in AfterListing(attempt')
    /\ UNCHANGED <<connected, listening, inFlight, resume>>

\* finally: if (shouldResumeEvents && isConnected).
FlowRestarts ==
    /\ flow = "finally" /\ resume /\ connected
    /\ flow' = "resume"
    /\ UNCHANGED <<vars, connected, listening, inFlight, resume, attempt>>

\* await startPhotoEventListening(): the backend starts, listens already, or
\* refuses, which is caught.  The instance may be out of unused threads (a bound
\* of the model).
FlowResumes ==
    /\ flow = "resume" /\ pc = "idle"
    /\ \/ BeginListening /\ flow' = "resuming" /\ UNCHANGED listening
       \/ /\ eventListening
          /\ UNCHANGED vars /\ flow' = "restarted" /\ listening' = TRUE
       \/ /\ ~running \/ \A t \in Threads : tpc[t] # "new"
          /\ UNCHANGED <<vars, listening>> /\ flow' = "restarted"
    /\ UNCHANGED <<connected, inFlight, resume, attempt>>

AtItsEnd == flow = "restarted" \/ (flow = "finally" /\ ~(resume /\ connected))

\* A clear at the end of the try block: a capture that threw passes it by.
FlowClearsUnlessThrown ==
    /\ AtItsEnd
    /\ inFlight' = (inFlight /\ attempt = 0)
    /\ flow' = "none" /\ resume' = FALSE /\ attempt' = 0
    /\ UNCHANGED <<vars, connected, listening>>

\* _captureInFlight = false, after the restart was answered or without one.
FlowClears ==
    /\ AtItsEnd
    /\ inFlight' = FALSE
    /\ flow' = "none" /\ resume' = FALSE /\ attempt' = 0
    /\ UNCHANGED <<vars, connected, listening>>

FlowSteps == FlowStops \/ FlowCaptures \/ FlowLists \/ FlowRestarts
             \/ FlowResumes \/ FlowClears

-----------------------------------------------------------------------------
(* The controller hears what the dispatcher did                            *)

Answered == pc # "idle" /\ pc' = "idle"

\* Where the flow goes on when its request is answered: a capture that threw,
\* at the shutter or at the end of its wait, leads to no listing.
AfterAnswer ==
    CASE flow = "stopping"  -> {"capture"}
      [] flow = "capturing" -> {IF pc = "capture.wait" /\ latch = "done"
                                  THEN "list" ELSE "finally"}
      [] flow = "listing"   -> AfterListing(attempt)
      [] flow = "resuming"  -> {"restarted"}
      [] OTHER              -> {flow}

HearsAnswer ==
    /\ connected' = (connected \/ (Answered /\ pc = "fresh"))
    /\ listening' = IF Answered /\ pc \in {"start.assign", "stop.join"}
                      THEN pc = "start.assign" ELSE listening
    /\ flow' \in (IF Answered THEN AfterAnswer ELSE {flow})
    /\ UNCHANGED <<inFlight, resume, attempt>>

\* What the application asks for beside the flow, its downloads among them.
Requests ==
    /\ Connect \/ BeginListening \/ StopListening \/ Close \/ OpBegin
    /\ HearsAnswer

\* stopPhotoEventListening on a backend that was closed meanwhile.
StopsNothing ==
    /\ pc = "idle" /\ ~eventListening
    /\ listening /\ listening' = FALSE
    /\ UNCHANGED <<vars, connected, inFlight, flowVars>>

\* deviceDetached, disconnected, or a refresh that failed.
StatusFalls ==
    /\ connected /\ connected' = FALSE
    /\ UNCHANGED <<vars, listening, inFlight, flowVars>>

CaptureNext ==
    \/ FlowBegins \/ FlowSteps
    \/ Requests \/ StopsNothing \/ StatusFalls
    \/ (InOperation \/ DispatcherLocks) /\ HearsAnswer
    \/ PhysicalShutter /\ UNCHANGED dartVars
    \/ \E t \in Threads : ThreadNext(t) /\ UNCHANGED dartVars

CaptureSpec == CaptureInit /\ [][CaptureNext]_captureVars

\* The flow's next request is queued behind at most the requests before it, and
\* the queue is first in, first out; that a capture is asked for is not assumed,
\* nor that an event thread ever gets the monitor.
CaptureFairSpec ==
    /\ CaptureSpec
    /\ WF_captureVars(InOperation /\ HearsAnswer)
    /\ SF_captureVars(DispatcherLocks /\ HearsAnswer)
    /\ \A t \in Threads : WF_captureVars(ThreadNext(t) /\ UNCHANGED dartVars)
    /\ SF_captureVars(FlowSteps)

-----------------------------------------------------------------------------
\* _captureInFlight is cleared again (usb_camera_controller.dart:497), whatever
\* the camera and the application do meanwhile: a flag left set would refuse
\* every later capture.
InFlightClears == inFlight ~> ~inFlight

\* A capture of an application that was listening waits for its photo only
\* while an event thread is there to hear of it: the latch of capture() is
\* completed by publishPhoto alone, and with the dispatcher blocked in await
\* only an event thread calls that.  The test of captureAndDownload expects the
\* photo it resolves.
CaptureIsHeard ==
    resume /\ flow = "capturing" /\ pc = "capture.wait" /\ latch = "armed"
        => \E t \in Threads : Live(t) /\ Active(t)
=============================================================================
