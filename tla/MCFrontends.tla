------------------------------ MODULE MCFrontends ------------------------------
(***************************************************************************)
(* What stands between the detector and the user on each platform, and the *)
(* capture that the Linux daemon does not use yet.  They share no state,   *)
(* so a behaviour explores one of them and leaves the others as they began.*)
(***************************************************************************)
EXTENDS Overlay, WindowOverlay, PipeWireCapture, Extension, AndroidDefense

VARIABLE part

\* A box, a small step from it, and another small step, which is too far from
\* the first one to let it stand and covers other pixels; two boxes that overlap;
\* nothing.
MCStart == Box(372, 250, 250, 500)
MCStep == Box(374, 250, 250, 500)
MCFar == Box(376, 250, 250, 500)
MCRequests == {<<>>, <<MCStart>>, <<MCStep>>, <<MCFar>>, <<MCFar, Box(400, 0, 600, 600)>>}
MCConfigures == {<<0, 0>>, <<4, 4>>}
MCDefault == <<8, 4>>
MCSmall == {<<8, 4>>, <<4, 4>>}

\* A canvas, a picture in a marked post, and a background with a telling name.
MCMedia == {[kind |-> "canvas", mark |-> "none", inner |-> FALSE],
            [kind |-> "image", mark |-> "post", inner |-> TRUE],
            [kind |-> "background", mark |-> "name", inner |-> FALSE]}

vars == <<part, overlayVars, windowVars, captureVars, extensionVars, androidVars>>

Init ==
  /\ part \in {"wayland", "window", "capture", "extension", "android"}
  /\ OverlayInit /\ WindowInit /\ CaptureInit /\ ExtensionInit /\ AndroidInit
  /\ tab.onAdultSite => part = "extension"

Next ==
  /\ UNCHANGED part
  /\ \/ /\ part = "wayland" /\ OverlayNext
        /\ UNCHANGED <<windowVars, captureVars, extensionVars, androidVars>>
     \/ /\ part = "window" /\ WindowNext
        /\ UNCHANGED <<overlayVars, captureVars, extensionVars, androidVars>>
     \/ /\ part = "capture" /\ CaptureNext
        /\ UNCHANGED <<overlayVars, windowVars, extensionVars, androidVars>>
     \/ /\ part = "extension" /\ ExtensionNext
        /\ UNCHANGED <<overlayVars, windowVars, captureVars, androidVars>>
     \/ /\ part = "android" /\ AndroidNext
        /\ UNCHANGED <<overlayVars, windowVars, captureVars, extensionVars>>

Spec == Init /\ [][Next]_vars /\ OverlayFairness

\* Both overlays do what is promised of an overlay: while they work and the
\* compositor keeps pace, the screen shows whole pictures in the order they were
\* asked for; however far it falls behind, it comes to show the last picture,
\* whole; and that one never strays from what was asked for last by more than
\* the tolerance.
OverlaysImplementScreen == WaylandScreen!ScreenSpec /\ WindowScreen!ScreenSpec

\* A frame that PipeWire lends is valid as long as the callback works on it, and
\* once a stop has returned no callback is at work and nothing is left.
CaptureIsSafe == FrameIsLent /\ StopIsFinal

\* What the content script is to hide is hidden; and the background page keeps up
\* with the changes it was told of and with its totals.
ExtensionKeepsUp == MediaIsHidden /\ NothingIsMissed /\ BackgroundAgrees /\ TotalsAreKept

\* On Android a stop leaves nothing behind but what was in the works, and the
\* VPN service never runs twice or in part.
AndroidStopsClean == StoppedUncovers /\ ProjectionsAreTracked /\ VpnIsWhole
=============================================================================
