-------------------------- MODULE TemporalSmoothing --------------------------
(***************************************************************************)
(* The smoothing tracker (core/engine_shared/src/temporal_smoothing.cpp)   *)
(* behind the handle of the C interface (c_api.cpp): boxes with the time   *)
(* they were last seen at, matched with new detections by overlap, grown,  *)
(* aged, padded and merged.  The caller brings the time of each call.      *)
(***************************************************************************)
EXTENDS Boxes

CONSTANTS
  Detections,      \* the boxes a detector reports
  Creations,       \* the arguments of dg_tracker_create: window, padding and
                   \* threshold in percent, 0 for the default
  Times,           \* times of calls
  Rooms,           \* sizes of callers' buffers
  MaxPerCall,      \* bound: detections in one call
  MaxCalls         \* bound: calls to dg_tracker_process

\* onnx_detector.cpp:177 clamps what it reports to the frame.
ASSUME DetectionsAssumption == \A b \in Detections : IsBox(b) /\ OnScreen(b)
ASSUME CreationsAssumption ==
  \A c \in Creations : c.window \in Int /\ c.padding \in Int /\ c.threshold \in Int
ASSUME CallsAssumption == MaxPerCall \in Nat /\ MaxCalls \in Nat
ASSUME TimesAssumption == Times \subseteq Nat
ASSUME RoomsAssumption == Rooms \subseteq Nat

VARIABLES
  tracker,         \* config_, or NoTracker while the handle is null
  tracked_boxes_,  \* each with the time it was last seen at
  out_boxes,       \* what the last dg_tracker_process wrote
  calls,           \* calls made so far
  asked,           \* max_out_count of the last call that was not refused
  now,             \* its timestamp_ms
  detections       \* history: what is within the window

trackerVars == <<tracker, tracked_boxes_, out_boxes, calls, asked, now, detections>>

NoTracker == [window |-> 0, padding |-> 0, threshold |-> 0]

Tracked(b, t) == [box |-> b, time |-> t]

TrackerTypeOK ==
  /\ \A field \in {"window", "padding", "threshold"} : tracker[field] \in Nat
  /\ \A i \in DOMAIN tracked_boxes_ :
       OnScreen(tracked_boxes_[i].box) /\ tracked_boxes_[i].time \in Times
  /\ Len(out_boxes) <= asked /\ \A i \in DOMAIN out_boxes : OnScreen(out_boxes[i])
  /\ detections \subseteq [region : Detections, time : Times, call : 1 .. MaxCalls]
  /\ calls \in 0 .. MaxCalls /\ asked \in Rooms \cup {0} /\ now \in Times \cup {0}

TrackerInit ==
  /\ tracker = NoTracker /\ tracked_boxes_ = <<>> /\ out_boxes = <<>>
  /\ calls = 0 /\ asked = 0 /\ now = 0 /\ detections = {}

-----------------------------------------------------------------------------
(* process_frame                                                            *)

\* The boxes that the purge leaves: seen within the window, and not later than now.
Alive(t) ==
  Only(tracked_boxes_,
       {b \in ToSet(tracked_boxes_) : t >= b.time /\ t - b.time < tracker.window})

\* One detection: it grows the first box it overlaps, or becomes a new one.
Ingest(boxes, det, t) ==
  LET matches == {i \in DOMAIN boxes : Overlaps(boxes[i].box, det, tracker.threshold)}
      first == CHOOSE i \in matches : \A j \in matches : i <= j
  IN IF matches = {} THEN Append(boxes, Tracked(det, t))
     ELSE [boxes EXCEPT ![first] = Tracked(United(@.box, det), t)]

\* All of process_frame but its result.
Processed(dets, t) ==
  FoldLeft(LAMBDA boxes, det : Ingest(boxes, det, t), Alive(t), dets)

\* What process_frame returns: every tracked box padded, and the results merged.
Results(boxes) ==
  Merged([i \in DOMAIN boxes |-> Expanded(boxes[i].box, tracker.padding)], tracker.threshold)

-----------------------------------------------------------------------------
(* The C interface.                                                         *)

OrDefault(value, default) == IF value <= 0 THEN default ELSE value

\* Times are in units of 100 ms.
dg_tracker_create ==
  /\ tracker = NoTracker
  /\ \E c \in Creations :
       tracker' = [window |-> OrDefault(c.window, 3), padding |-> OrDefault(c.padding, 15),
                   threshold |-> OrDefault(c.threshold, 25)]
  /\ UNCHANGED <<tracked_boxes_, out_boxes, calls, asked, now, detections>>

dg_tracker_destroy ==
  /\ tracker # NoTracker
  /\ tracker' = NoTracker
  /\ tracked_boxes_' = <<>> /\ detections' = {}
  /\ UNCHANGED <<out_boxes, calls, asked, now>>

dg_tracker_reset ==
  /\ tracker # NoTracker
  /\ tracked_boxes_' = <<>> /\ detections' = {}
  /\ UNCHANGED <<tracker, out_boxes, calls, asked, now>>

\* The detections within the window, of which a clock that was set back keeps
\* those that a box still stands for and will stand for as long.
StillWithin(t) ==
  LET alive == Alive(t)
  IN {d \in detections :
        /\ t >= d.time /\ t - d.time < tracker.window
        /\ t >= now \/ \E i \in DOMAIN alive : Covers(alive[i].box, d.region) /\ alive[i].time >= d.time}

\* Results beyond the caller's room are dropped without a sign.
dg_tracker_process ==
  \E k \in 0 .. MaxPerCall, t \in Times, max_out_count \in Rooms :
    \E dets \in [1 .. k -> Detections] :
      /\ tracker # NoTracker /\ max_out_count > 0 /\ calls < MaxCalls
      /\ \A i, j \in 1 .. k : i # j => dets[i] # dets[j]
      /\ calls' = calls + 1 /\ now' = t /\ asked' = max_out_count
      /\ tracked_boxes_' = Processed(dets, t)
      /\ LET results == Results(tracked_boxes_')
         IN out_boxes' = SubSeq(results, 1, Least(Len(results), max_out_count))
      /\ detections' = StillWithin(t) \cup
                         {[region |-> dets[i], time |-> t, call |-> calls'] : i \in 1 .. k}
      /\ UNCHANGED tracker

\* A null handle, or no room: not even the detections are taken in.
dg_tracker_process_refused ==
  /\ tracker = NoTracker \/ 0 \in Rooms
  /\ out_boxes' = <<>>
  /\ UNCHANGED <<tracker, tracked_boxes_, calls, asked, now, detections>>

\* dg_tracker_active_count
ActiveCount == Len(tracked_boxes_)

TrackerNext ==
  \/ dg_tracker_create \/ dg_tracker_destroy \/ dg_tracker_reset
  \/ dg_tracker_process \/ dg_tracker_process_refused

-----------------------------------------------------------------------------
(* What was detected within the window is covered by what is drawn, whatever
   the boxes were matched with, grown to and merged into: temporal_smoothing.hpp:21
   gives this as the formula the class implements.                          *)

Hidden(boxes, region) == \E i \in DOMAIN boxes : Covers(boxes[i], region)

Smoothing ==
  INSTANCE Hysteresis WITH
    Calls <- 1 .. MaxCalls, Covered <- Hidden, Regions <- Detections,
    Windows <- {OrDefault(c.window, 3) : c \in Creations},
    window <- tracker.window, clock <- now, detected <- detections,
    shown <- out_boxes, room <- asked

ImplementsHysteresis == Smoothing!HysteresisSpec
=============================================================================
