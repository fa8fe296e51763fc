------------------------------ MODULE Hysteresis ------------------------------
(***************************************************************************)
(* What a smoothing tracker promises whoever draws its boxes, and nothing  *)
(* of how: the boxes it hands out after a call cover every region that was *)
(* detected within the window, and once nothing has been detected for that *)
(* long there is nothing to draw.  A caller with room for one box for each *)
(* detection within the window is handed out all of them.  A clock that is *)
(* set back may cost detections, and nothing else does.                    *)
(***************************************************************************)
EXTENDS Integers, Sequences, FiniteSets

CONSTANTS
  Calls,          \* the calls, numbered, to tell detections apart
  Covered(_, _),  \* Covered(boxes, region): the boxes hide all of the region
  Regions,        \* what a detector can report
  Windows         \* the windows a tracker can be made with

VARIABLES
  window,    \* the tracker's window, 0 while there is no tracker
  clock,     \* the time of the last call
  detected,  \* the detections within the window: region, time and call
  shown,     \* the boxes the last call handed out
  room       \* the number of boxes the last call that was taken had room for

abstractVars == <<window, clock, detected, shown, room>>

Within(t, w) == {d \in detected : d.time <= t /\ t - d.time < w}

HysteresisInit ==
  window = 0 /\ clock = 0 /\ detected = {} /\ shown = <<>> /\ room = 0

\* A tracker is made or destroyed, or forgets what it knows.
Settle ==
  /\ window' \in Windows \cup {0}
  /\ detected' = {}
  /\ UNCHANGED <<clock, shown, room>>

\* A call at some time that reports some regions.
Frame ==
  /\ window > 0
  /\ \E regions \in SUBSET Regions, call \in Calls, kept \in SUBSET Within(clock', window) :
       /\ clock' >= clock => kept = Within(clock', window)
       /\ detected' = kept \cup [region : regions, time : {clock'}, call : {call}]
  /\ room' > 0
  /\ room' >= Cardinality(detected') =>
       \A d \in detected' : Covered(shown', d.region)
  /\ detected' = {} => shown' = <<>>
  /\ UNCHANGED window

\* A call that is refused hands out nothing and changes nothing.
Refuse ==
  /\ shown' = <<>>
  /\ UNCHANGED <<window, clock, detected, room>>

HysteresisNext == Settle \/ Frame \/ Refuse

HysteresisSpec == HysteresisInit /\ [][HysteresisNext]_abstractVars
=============================================================================
