----------------------------- MODULE AndroidDefense -----------------------------
(***************************************************************************)
(* The Android application: the activity, the capture service with its     *)
(* thread, the overlay it draws on, and the VPN service.  All but the      *)
(* capture thread and the idle VPN thread runs on the main thread, which   *)
(* takes clicks, answers of the system's dialogs and the intents that      *)
(* startService queues.  The streak record and the permission tour are     *)
(* left out.                                                               *)
(***************************************************************************)
EXTENDS Integers, Sequences

CONSTANTS
  MaxClicks,  \* bound: clicks on the master button
  MaxIntents, \* bound: intents waiting on the main thread
  MaxDeaths   \* bound: ends of the process, or of the activity alone

VARIABLES
  isDefenseRunning,  \* of the activity
  dialogs,           \* the dialogs the activity waits for: "vpn", "capture"
  intents,           \* the intents the services have not been given yet
  capture,           \* whether there is a capture service
  overlayService,    \* its reference to the overlay service; never cleared
  projections,       \* how many screen projections have not been stopped
  frame,             \* the boxes the capture thread is about to show, if any
  covered,           \* whether the overlay view has boxes to draw
  vpnInterface,      \* "none", "open", or "refused" by the system
  isRunning,         \* of the VPN service
  vpnThreads,        \* how many VPN threads have not been told to end
  late,              \* a frame was in the works at the last stop of the capture
  clicks, deaths

activityVars == <<isDefenseRunning, dialogs, clicks, deaths>>
captureServiceVars == <<capture, overlayService, projections, frame, covered, late>>
vpnVars == <<vpnInterface, isRunning, vpnThreads>>
androidVars == <<activityVars, intents, captureServiceVars, vpnVars>>

NoFrame == "none"

AndroidInit ==
  /\ isDefenseRunning = FALSE /\ dialogs = {} /\ intents = <<>>
  /\ capture = FALSE /\ overlayService = FALSE
  /\ projections = 0 /\ frame = NoFrame /\ covered = FALSE
  /\ vpnInterface = "none" /\ isRunning = FALSE /\ vpnThreads = 0
  /\ late = FALSE /\ clicks = 0 /\ deaths = 0

-----------------------------------------------------------------------------
(* The activity                                                             *)

Clicks == clicks < MaxClicks /\ clicks' = clicks + 1

startService(sent) ==
  Len(intents) + Len(sent) <= MaxIntents /\ intents' = intents \o sent

\* startFullDefense, once overlays are permitted: the VPN is started, or asked
\* for first; the capture is always asked for.  Either switch may be off.
startFullDefense ==
  /\ ~isDefenseRunning /\ Clicks
  /\ \E vpn \in {"off", "prepared", "asked"}, visual \in BOOLEAN :
       /\ startService(IF vpn = "prepared" THEN <<"START_VPN">> ELSE <<>>)
       /\ dialogs' = dialogs \cup (IF vpn = "asked" THEN {"vpn"} ELSE {})
                             \cup (IF visual THEN {"capture"} ELSE {})
  /\ UNCHANGED <<isDefenseRunning, deaths, captureServiceVars, vpnVars>>

\* A dialog is answered; only a capture that is granted counts as running.
DialogAnswered(dialog) ==
  /\ dialog \in dialogs /\ dialogs' = dialogs \ {dialog}
  /\ \/ startService(<<>>) /\ UNCHANGED isDefenseRunning
     \/ /\ startService(IF dialog = "vpn" THEN <<"START_VPN">> ELSE <<"START_CAPTURE">>)
        /\ isDefenseRunning' = (isDefenseRunning \/ dialog = "capture")
  /\ UNCHANGED <<clicks, deaths, captureServiceVars, vpnVars>>

stopFullDefense ==
  /\ isDefenseRunning /\ Clicks
  /\ startService(<<"STOP_CAPTURE", "STOP_VPN">>)
  /\ isDefenseRunning' = FALSE
  /\ UNCHANGED <<dialogs, deaths, captureServiceVars, vpnVars>>

\* The activity is created anew: it takes the defence to be stopped.
ActivityRecreated ==
  /\ deaths < MaxDeaths /\ deaths' = deaths + 1
  /\ isDefenseRunning' = FALSE
  /\ UNCHANGED <<dialogs, clicks, intents, captureServiceVars, vpnVars>>

\* The process ends.  A sticky service comes back without an action and does
\* nothing; a boot or an update has BootReceiver start the VPN.
ProcessDies ==
  /\ deaths < MaxDeaths /\ deaths' = deaths + 1
  /\ isDefenseRunning' = FALSE /\ dialogs' = {}
  /\ intents' \in {<<>>, <<"START_VPN">>}
  /\ capture' = FALSE /\ overlayService' = FALSE /\ late' = FALSE
  /\ projections' = 0 /\ frame' = NoFrame /\ covered' = FALSE
  /\ vpnInterface' = "none" /\ isRunning' = FALSE /\ vpnThreads' = 0
  /\ UNCHANGED clicks

-----------------------------------------------------------------------------
(* ScreenCaptureService and BlurOverlayService                              *)

Given(action) == intents # <<>> /\ Head(intents) = action /\ intents' = Tail(intents)

\* ACTION_START: a new projection, display and reader take the place of those
\* the service refers to, which nobody releases any more.
StartCapture ==
  /\ Given("START_CAPTURE")
  /\ capture' = TRUE
  /\ overlayService' = (overlayService /\ capture)
  /\ projections' = projections + 1
  /\ UNCHANGED <<activityVars, frame, covered, late, vpnVars>>

\* Mutant: the boxes of the last frame are left on the overlay.
StopCaptureCovered ==
  /\ Given("STOP_CAPTURE")
  /\ capture' = FALSE
  /\ projections' = IF capture THEN projections - 1 ELSE projections
  /\ late' = (frame # NoFrame \/ ~overlayService)
  /\ UNCHANGED <<activityVars, overlayService, frame, covered, vpnVars>>

\* ACTION_STOP: the projection is stopped, the overlay is cleared if the service
\* is bound to it, and stopSelf ends the service and then its thread, where a
\* frame that is being detected still finds the reference to the overlay.
StopCapture ==
  /\ Given("STOP_CAPTURE")
  /\ capture' = FALSE
  /\ projections' = IF capture THEN projections - 1 ELSE projections
  /\ covered' = (covered /\ ~overlayService)
  /\ late' = (frame # NoFrame \/ ~overlayService)
  /\ UNCHANGED <<activityVars, overlayService, frame, vpnVars>>

\* The overlay service, made in onCreate, is bound.
OverlayBound ==
  /\ capture /\ ~overlayService
  /\ overlayService' = TRUE
  /\ UNCHANGED <<activityVars, intents, capture, projections, frame, covered, late, vpnVars>>

\* An image is available and not throttled; detection may take its time, and
\* its boxes go to the overlay, unless an exception drops them.  The thread of
\* a service that was stopped is taken to end before the next one has a frame.
FrameBegins ==
  /\ frame = NoFrame /\ capture
  /\ frame' \in {"boxes", "no boxes"}
  /\ UNCHANGED <<activityVars, intents, capture, overlayService, projections, covered, late, vpnVars>>

FrameEnds ==
  /\ frame # NoFrame /\ frame' = NoFrame
  /\ \/ UNCHANGED covered
     \/ covered' = IF overlayService THEN frame = "boxes" ELSE covered
  /\ UNCHANGED <<activityVars, intents, capture, overlayService, projections, late, vpnVars>>

-----------------------------------------------------------------------------
(* DnsFilterVpnService                                                      *)

\* ACTION_START_VPN: refused while running; establish answers null without
\* permission, which is not looked at, or throws, which is.
startVpn ==
  /\ Given("START_VPN")
  /\ \/ UNCHANGED vpnVars
     \/ /\ ~isRunning /\ isRunning' = TRUE
        /\ vpnInterface' \in {"open", "refused"}
        /\ vpnThreads' = vpnThreads + 1
  /\ UNCHANGED <<activityVars, captureServiceVars>>

\* ACTION_STOP_VPN, and once more in onDestroy.
stopVpn ==
  /\ Given("STOP_VPN")
  /\ isRunning' = FALSE /\ vpnInterface' = "none"
  /\ vpnThreads' = IF vpnThreads > 0 THEN vpnThreads - 1 ELSE 0
  /\ UNCHANGED <<activityVars, captureServiceVars>>

AndroidNext ==
  \/ startFullDefense \/ stopFullDefense \/ ActivityRecreated \/ ProcessDies
  \/ \E dialog \in {"vpn", "capture"} : DialogAnswered(dialog)
  \/ StartCapture \/ StopCapture \/ OverlayBound \/ FrameBegins \/ FrameEnds
  \/ startVpn \/ stopVpn

-----------------------------------------------------------------------------
\* A stopped capture covers nothing, unless a frame was in the works when it
\* was stopped, or the overlay had not been bound yet.
StoppedUncovers == ~capture /\ covered => late

\* At most one projection goes on, and one more for each time the activity has
\* lost track of what runs.
ProjectionsAreTracked == projections <= 1 + deaths

\* Whatever starts and stops, and whoever sends them, there is one VPN thread
\* while the service runs and none else, and no interface outlives a stop.
VpnIsWhole ==
  /\ vpnThreads = IF isRunning THEN 1 ELSE 0
  /\ ~isRunning => vpnInterface = "none"
=============================================================================
