---------------------------- MODULE VisualAnchor ----------------------------
(***************************************************************************)
(* The anchor tracker of the daemon (inference/visual_anchor_tracker.hpp): *)
(* shields with a box, the time they were last seen at, and anchors, the   *)
(* pixels just outside the padded box.  A unit of Boxes is a pixel here: a *)
(* frame is One pixels wide and high.  A frame is what a picture shows at  *)
(* a scroll position, and always has data: capture_frame hands out no      *)
(* other.  The clock is steady_clock, which never goes back.               *)
(***************************************************************************)
EXTENDS Boxes

CONSTANTS
  Frames,         \* the frames, records with a picture and a scroll position
  Colour(_, _, _),\* Colour(picture, x, y): grey level of a pixel of the page
  Reports,        \* what the detector reports of a frame: sequences of boxes
  Steps,          \* how long, in ms, after the one before a frame comes
  Paddings,       \* the ratios of SET_PADDING, in percent
  MaxFrames       \* bound: frames processed

ASSUME ScrollsAssumption == \A f \in Frames : f.scroll \in Int

\* onnx_detector.cpp:177 clamps what it reports to the frame, and reports
\* nothing smaller than 0.005 of it.
ASSUME ReportsAssumption ==
  \A r \in Reports :
    /\ r \in Seq(ToSet(r))
    /\ \A b \in ToSet(r) :
         IsBox(b) /\ OnScreen(b) /\ 200 * b.width > One /\ 200 * b.height > One
ASSUME StepsAssumption == Steps \subseteq Nat
ASSUME PaddingsAssumption == Paddings \subseteq Int
ASSUME MaxFramesAssumption == MaxFrames \in Nat

VARIABLES
  padding,        \* config_.padding_ratio, the one field that changes
  shields,        \* the tracked shields in order, each with its box, its
                  \* anchors, and how long before the last frame it was seen
  shown,          \* what process_frame returned last
  frame, report,  \* history: the last frame and what was reported of it,
  reported_in,    \*   the pictures of which something was ever reported,
  quiet,          \*   how long the frames have shown others and reported nothing
  frames          \* the number of frames processed

lastVars == <<frame, report, reported_in, quiet, frames>>
anchorVars == <<padding, shields, shown, lastVars>>

\* AnchorTrackerConfig as main() sets it, and the defaults it leaves.
persistence_window_ms == 1200
dynamic_decay_ms == 280
merge_iou_threshold == 15
anchor_error_threshold == 22
ema_alpha == 70

NoFrame == [picture |-> "none", scroll |-> 0]

AnchorTypeOK ==
  /\ padding \in Paddings \cup {35}
  /\ \A i \in DOMAIN shields :
       /\ shields[i].is_static \in BOOLEAN /\ shields[i].unseen \in Nat
       /\ OnScreen(shields[i].box)
       /\ \A a \in shields[i].anchors : a.x \in 0 .. One - 1
  /\ \A i \in DOMAIN shown : Area(shown[i]) = 0 \/ OnScreen(shown[i])
  /\ frame \in Frames \cup {NoFrame} /\ report \in Reports \cup {<<>>}
  /\ reported_in \subseteq {f.picture : f \in Frames} /\ quiet \in Nat
  /\ frames \in 0 .. MaxFrames

AnchorInit ==
  /\ padding = 35
  /\ shields = <<>> /\ shown = <<>>
  /\ frame = NoFrame /\ report = <<>> /\ reported_in = {} /\ quiet = 0 /\ frames = 0

-----------------------------------------------------------------------------
(* Anchors                                                                  *)

\* get_pixel_rgb
Pixel(f, x, y) == Colour(f.picture, x, y + f.scroll)

\* sample_anchors: six points along each side of the padded box, 14 pixels
\* outside of it, those that are on the screen.  n tells the points of a narrow
\* side apart that fall on the same pixel: each of them counts.
SampleAnchors(f, box) ==
  LET exp == Expanded(box, padding)
      sx1 == Clamp(exp.x, 0, One - 1)          sy1 == Clamp(exp.y, 0, One - 1)
      sx2 == Clamp(Right(exp), 0, One - 1)     sy2 == Clamp(Bottom(exp), 0, One - 1)
      margin == 14
      column(i) == sx1 + (i * (sx2 - sx1)) \div 7
      row(i) == sy1 + (i * (sy2 - sy1)) \div 7
      points == {<<column(i), y, i>> : i \in 1 .. 6, y \in {sy1 - margin, sy2 + margin}}
                \cup {<<x, row(i), i>> : i \in 1 .. 6, x \in {sx1 - margin, sx2 + margin}}
  IN {[x |-> p[1], y |-> p[2], n |-> p[3], colour |-> Pixel(f, p[1], p[2])] :
        p \in {q \in points : q[1] \in 0 .. One - 1 /\ q[2] \in 0 .. One - 1}}

\* eval_anchors is below bound, on average over the anchors that are on the
\* screen when moved down by dy; fewer than four of them are no evidence.
Difference(f, a, dy) ==
  LET d == Pixel(f, a.x, a.y + dy) - a.colour IN IF d < 0 THEN -d ELSE d

NoEvidence == 999

EvalAnchors(f, anchors, dy) ==
  LET valid == {a \in anchors : a.y + dy \in 0 .. One - 1}
      sum == FoldSet(LAMBDA a, s : s + Difference(f, a, dy), 0, valid)
  IN IF Cardinality(valid) < 4 THEN NoEvidence ELSE sum \div Cardinality(valid)

\* The offset with the least error, and that error: the earlier one of equals,
\* and 0 if none improves on standing still.
BestScroll(f, anchors, error) ==
  FoldLeft(LAMBDA best, dy :
             LET e == EvalAnchors(f, anchors, dy)
             IN IF e < best.error THEN [dy |-> dy, error |-> e] ELSE best,
           [dy |-> 0, error |-> error], <<-80, -60, -40, -20, -10, 10, 20, 40, 60, 80>>)

-----------------------------------------------------------------------------
(* process_frame                                                            *)

\* A shield and how long ago it was last seen, while a frame is processed.
Seen(s) == [s EXCEPT !.unseen = 0]

\* Mutant: a shield whose surroundings stand still is passed over.
AnchoredUnmarked(s, f) ==
  LET error == EvalAnchors(f, s.anchors, 0) IN
    IF error < anchor_error_threshold THEN s ELSE [s EXCEPT !.is_static = FALSE]

\* Mutant: is_static is set, never reset.
AnchoredSticky(s, f) ==
  LET error == EvalAnchors(f, s.anchors, 0) IN
    IF error < anchor_error_threshold THEN Seen([s EXCEPT !.is_static = TRUE]) ELSE s

\* Step 1 for one shield: it is held where it is, follows a scroll, or
\* is no longer static.
Anchored(s, f) ==
  LET error == EvalAnchors(f, s.anchors, 0)
      best == BestScroll(f, s.anchors, error)
      lowest == One - s.box.height
  IN IF error < anchor_error_threshold
       THEN Seen([s EXCEPT !.is_static = TRUE])
     ELSE IF best.dy # 0 /\ best.error < 8 /\ error - best.error > 8
       THEN Seen([s EXCEPT !.is_static = TRUE,
                           !.box.y = Clamp(@ + best.dy, 0, lowest),
                           !.anchors = {[a EXCEPT !.y = @ + best.dy] : a \in @}])
     ELSE [s EXCEPT !.is_static = FALSE]

\* Position smoothing: ema_alpha percent of the new box.
Smooth(old, det) ==
  LET mix(new, before) == (ema_alpha * new + (100 - ema_alpha) * before) \div 100
  IN Box(mix(det.x, old.x), mix(det.y, old.y),
         mix(det.width, old.width), mix(det.height, old.height))

\* Mutant: the size of a matched shield stays what it was.
IngestMovesOnly(list, det, f) ==
  LET matches == {i \in DOMAIN list : Overlaps(list[i].box, det, merge_iou_threshold)}
      first == CHOOSE i \in matches : \A j \in matches : i <= j
      moved == Box(det.x, det.y, list[first].box.width, list[first].box.height)
      Shield(box, before) ==
        [box |-> box, is_static |-> before, unseen |-> 0, anchors |-> SampleAnchors(f, box)]
  IN IF matches = {} THEN Append(list, Shield(det, FALSE))
     ELSE [list EXCEPT ![first] = Shield(moved, list[first].is_static)]

\* Step 2 for one detection: it moves the first shield it overlaps, or
\* becomes a new one.  Either is anchored in this frame.
Ingested(list, det, f) ==
  LET matches == {i \in DOMAIN list : Overlaps(list[i].box, det, merge_iou_threshold)}
      first == CHOOSE i \in matches : \A j \in matches : i <= j
      Shield(box, static) ==
        [box |-> box, is_static |-> static, unseen |-> 0, anchors |-> SampleAnchors(f, box)]
  IN IF matches = {} THEN Append(list, Shield(det, FALSE))
     ELSE [list EXCEPT ![first] = Shield(Smooth(list[first].box, det), list[first].is_static)]

\* Step 3: what remove_if leaves.
Kept(s) ==
  s.unseen < (IF s.is_static THEN persistence_window_ms ELSE dynamic_decay_ms)

\* Step 4: the shields padded and merged.
Drawn(list) ==
  Merged([i \in DOMAIN list |-> Expanded(list[i].box, padding)], merge_iou_threshold)

\* The whole of process_frame, dt after the last.
Process(f, dets, dt) ==
  LET aged == [i \in DOMAIN shields |-> [shields[i] EXCEPT !.unseen = @ + dt]]
      anchored == [i \in DOMAIN aged |-> Anchored(aged[i], f)]
      ingested == FoldLeft(LAMBDA list, det : Ingested(list, det, f), anchored, dets)
  IN Only(ingested, {s \in ToSet(ingested) : Kept(s)})

process_frame ==
  \E f \in Frames, dets \in Reports, dt \in Steps :
    /\ frames < MaxFrames
    /\ shields' = Process(f, dets, dt)
    /\ shown' = Drawn(shields')
    /\ frame' = f /\ report' = dets
    /\ reported_in' = IF dets = <<>> THEN reported_in ELSE reported_in \cup {f.picture}
    /\ quiet' = IF dets = <<>> /\ f.picture \notin reported_in THEN quiet + dt ELSE 0
    /\ frames' = frames + 1
    /\ UNCHANGED padding

\* SET_PADDING: any number that stof accepts.
set_config ==
  /\ padding' \in Paddings
  /\ UNCHANGED <<shields, shown, lastVars>>

\* PAUSE
reset ==
  /\ shields' = <<>>
  /\ UNCHANGED <<padding, shown, lastVars>>

AnchorNext == process_frame \/ set_config \/ reset

-----------------------------------------------------------------------------

NewFrame == frames' = frames + 1

HiddenBy(boxes, region) == \E i \in DOMAIN boxes : Covers(boxes[i], region)

Centre(b) == Box(b.x + b.width \div 2, b.y + b.height \div 2, 0, 0)

\* A shield that lags behind what it follows still hides the middle of it: a
\* region reported alone is hidden at its centre, however a shield of before
\* was matched with it, smoothed and merged, and all of it is hidden when no
\* shield was there.  A negative padding voids the promise.
LoneDetectionIsHidden ==
  [][NewFrame /\ Len(report') = 1 /\ padding >= 0 =>
       /\ HiddenBy(shown', Centre(report'[1]))
       /\ shields = <<>> => HiddenBy(shown', report'[1])]_anchorVars

\* The box that was held in the last frame and the box after it: the same,
\* unless a reported one overlaps it; one that is reported alone moves it by
\* the smoothing and no further.
HeldOrReported(before, after, dets) ==
  \/ after = before
  \/ \E d \in ToSet(dets) :
       /\ Overlaps(before, d, merge_iou_threshold)
       /\ Len(dets) = 1 => after = Smooth(before, d)

\* "Perimeter visual anchor locking for static images" (line 48): while the
\* picture stands still, a shield that was seen in the last frame is there
\* after the next one too, however long that takes: static, just seen, and where
\* it was unless a report overlaps it.  This also holds of a shield that has
\* followed a scroll, but not of one that leaves no room for four anchors.
StillPictureIsHeld ==
  [][NewFrame /\ frame' = frame =>
       \A i \in DOMAIN shields :
         shields[i].unseen = 0 /\ Cardinality(shields[i].anchors) >= 4 =>
           \E j \in DOMAIN shields' :
             /\ shields'[j].is_static /\ shields'[j].unseen = 0
             /\ HeldOrReported(shields[i].box, shields'[j].box, report')]_anchorVars

\* "Fast dynamic decay for video scenes" (line 51): once the frames have shown
\* nothing but pictures in which no shield was anchored, and nothing was
\* reported of them, for the decay time, be it one frame or many short ones that
\* add up to it, nothing is drawn, static as the shields may have been.
CutUncovers == quiet >= dynamic_decay_ms => shown = <<>>
=============================================================================
