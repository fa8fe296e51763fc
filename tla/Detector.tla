------------------------------ MODULE Detector ------------------------------
(***************************************************************************)
(* From a frame to boxes: ImagePreprocessor::preprocess, which scales the  *)
(* frame onto the square canvas the model sees, and OnnxDetector::detect,  *)
(* which maps what the model proposes back and drops duplicates.  What the *)
(* model proposes is external: any proposals with a score for each class.  *)
(*                                                                         *)
(* Boxes are measured in pixels of the scaled picture, scaled_w of them    *)
(* wide and scaled_h high, where the code divides by these two: iou and    *)
(* the order of coordinates are the same, and nothing is rounded.          *)
(***************************************************************************)
EXTENDS Boxes

CONSTANTS
  Canvas,      \* target_width_ and target_height_, input_width and input_height
  FrameSizes,  \* the sizes of frames, <<width, height>>
  Proposals,   \* records: centre cx, cy, size w, h on the canvas, and score,
               \* which maps classes to percent
  MaxProposals \* bound: proposals in one frame

ASSUME CanvasAssumption == Canvas \in Nat \ {0}
ASSUME ProposalsAssumption ==
  /\ IsFiniteSet(Proposals)
  /\ \A p \in Proposals :
       /\ p.cx \in Int /\ p.cy \in Int /\ p.w \in Int /\ p.h \in Int
       /\ DOMAIN p.score \subseteq Nat /\ DOMAIN p.score # {}
       /\ \A c \in DOMAIN p.score : p.score[c] \in 0 .. 100
ASSUME FrameSizesAssumption == FrameSizes \subseteq ((Nat \ {0}) \X (Nat \ {0}))

VARIABLES
  is_initialized_,
  letterbox,    \* how the last frame was laid onto the canvas
  proposed,     \* history: what the model proposed for it
  candidates,   \* history: what detect made of it before the suppression
  detected      \* what detect returned

detectorVars == <<is_initialized_, letterbox, proposed, candidates, detected>>

confidence_threshold == 18
nms_iou_threshold == 45

\* What is reported lies within the scaled picture, and that on the canvas.
DetectorTypeOK ==
  /\ is_initialized_ \in BOOLEAN
  /\ letterbox.scaled_w \in 0 .. Canvas /\ letterbox.pad_x \in 0 .. Canvas - letterbox.scaled_w
  /\ letterbox.scaled_h \in 0 .. Canvas /\ letterbox.pad_y \in 0 .. Canvas - letterbox.scaled_h
  /\ proposed \subseteq Proposals
  /\ \A c \in candidates :
       /\ c.box.x \in 0 .. letterbox.scaled_w /\ c.box.width \in 0 .. letterbox.scaled_w - c.box.x
       /\ c.box.y \in 0 .. letterbox.scaled_h /\ c.box.height \in 0 .. letterbox.scaled_h - c.box.y
       /\ c.confidence \in confidence_threshold .. 100
  /\ detected \in Seq(candidates)

NoLetterbox == [width |-> 0, height |-> 0, scaled_w |-> 0, scaled_h |-> 0, pad_x |-> 0, pad_y |-> 0]

DetectorInit ==
  /\ is_initialized_ = FALSE
  /\ letterbox = NoLetterbox
  /\ proposed = {} /\ candidates = {} /\ detected = <<>>

\* init(): the session is created, or the model cannot be loaded and every
\* detect returns nothing.
detector_init ==
  /\ letterbox = NoLetterbox
  /\ is_initialized_' \in BOOLEAN
  /\ UNCHANGED <<letterbox, proposed, candidates, detected>>

-----------------------------------------------------------------------------
(* preprocess                                                               *)

\* side * Canvas / longest, rounded to the nearest integer
Scaled(side, longest) == Clamp((2 * side * Canvas + longest) \div (2 * longest), 1, Canvas)

\* The frame keeps its aspect ratio and is centred.
Letterbox(width, height) ==
  LET longest == Greatest(width, height)
      w == Scaled(width, longest)
      h == Scaled(height, longest)
  IN [width |-> width, height |-> height, scaled_w |-> w, scaled_h |-> h,
      pad_x |-> (Canvas - w) \div 2, pad_y |-> (Canvas - h) \div 2]

\* The pixel of the frame that the model sees at <<x, y>> of the canvas, in
\* the loops of preprocess; outside of the picture it sees grey.
InPicture(l, x, y) ==
  x - l.pad_x \in 0 .. l.scaled_w - 1 /\ y - l.pad_y \in 0 .. l.scaled_h - 1

SourcePixel(l, x, y) ==
  LET longest == Greatest(l.width, l.height)
  IN << Least(((x - l.pad_x) * longest) \div Canvas, l.width - 1),
        Least(((y - l.pad_y) * longest) \div Canvas, l.height - 1) >>

-----------------------------------------------------------------------------
(* detect                                                                   *)

\* is_explicit_class
ExplicitClasses == {0, 2, 3, 4, 6, 13, 14, 15, 16, 17}

\* The first class of the highest score, if any score is positive.
BestClass(p) ==
  LET best == {c \in DOMAIN p.score : \A d \in DOMAIN p.score : p.score[d] <= p.score[c]}
  IN CHOOSE c \in best : \A d \in best : c <= d

Explicit(p) ==
  /\ p.score[BestClass(p)] > 0
  /\ p.score[BestClass(p)] >= confidence_threshold
  /\ BestClass(p) \in ExplicitClasses

\* Mutant: the offset of the picture on the canvas is forgotten.
UnmapNoPad(p, l) ==
  LET x == Clamp(p.cx - p.w \div 2, 0, l.scaled_w)
      y == Clamp(p.cy - p.h \div 2, 0, l.scaled_h)
  IN [box |-> Box(x, y, Clamp(p.w, 0, l.scaled_w - x), Clamp(p.h, 0, l.scaled_h - y)),
      confidence |-> p.score[BestClass(p)]]

\* From the canvas back to the frame, with everything clamped to it: a box
\* that begins left of the frame is moved into it and keeps its width.
Unmap(p, l) ==
  LET x == Clamp(p.cx - l.pad_x - p.w \div 2, 0, l.scaled_w)
      y == Clamp(p.cy - l.pad_y - p.h \div 2, 0, l.scaled_h)
  IN [box |-> Box(x, y, Clamp(p.w, 0, l.scaled_w - x), Clamp(p.h, 0, l.scaled_h - y)),
      confidence |-> p.score[BestClass(p)]]

\* More than 0.005 of the frame in both directions.
LargeEnough(b, l) == 200 * b.width > l.scaled_w /\ 200 * b.height > l.scaled_h

Candidates(ps, l) ==
  {c \in {Unmap(p, l) : p \in {q \in ps : Explicit(q)}} : LargeEnough(c.box, l)}

\* std::sort by confidence, which leaves the order of equals open.
Sorted(cs) ==
  {s \in SetToSeqs(cs) :
     \A i, j \in DOMAIN s : i < j => s[i].confidence >= s[j].confidence}

\* Non-maximum suppression: a box is kept if it overlaps none kept before it.
Suppress(s) ==
  FoldLeft(LAMBDA kept, c :
             IF \E i \in DOMAIN kept : Overlaps(kept[i].box, c.box, nms_iou_threshold)
               THEN kept ELSE Append(kept, c),
           <<>>, s)

\* preprocess and detect for one frame, as the AI thread calls them.
detect ==
  \E size \in FrameSizes, ps \in SUBSET Proposals :
    /\ is_initialized_
    /\ Cardinality(ps) <= MaxProposals
    /\ letterbox' = Letterbox(size[1], size[2])
    /\ proposed' = ps
    /\ candidates' = Candidates(ps, letterbox')
    /\ \E s \in Sorted(candidates') : detected' = Suppress(s)
    /\ UNCHANGED is_initialized_

\* Without a session, after an error of the runtime, or for an output of
\* another shape.
detect_fails ==
  \E size \in FrameSizes :
    /\ letterbox' = Letterbox(size[1], size[2])
    /\ proposed' = {} /\ candidates' = {} /\ detected' = <<>>
    /\ UNCHANGED is_initialized_

DetectorNext == detector_init \/ detect \/ detect_fails

-----------------------------------------------------------------------------

\* Pixel p of a side of the frame lies, at least in part, between from and to
\* on the scaled side, or less than half a pixel of the canvas before from.
Below(p, from, to, side, scaled, longest) ==
  /\ 2 * Canvas * from * side < (2 * Canvas * (p + 1) + longest) * scaled
  /\ p * scaled < to * side

\* The pixel of the frame lies below the box.
Hides(b, l, pixel) ==
  LET longest == Greatest(l.width, l.height)
  IN /\ Below(pixel[1], b.x, Right(b), l.width, l.scaled_w, longest)
     /\ Below(pixel[2], b.y, Bottom(b), l.height, l.scaled_h, longest)

\* Every pixel of the frame that the model saw within an explicit proposal is
\* below the box the proposal was mapped to: preprocess and detect agree about
\* the scaling and the padding, for frames of either orientation and boxes
\* beyond their edge.  Not about its rounding: preprocess steps by the exact
\* scale and detect divides by the rounded size, so that a side which was
\* rounded down moves the near edge inward, by less than half a pixel of the
\* canvas.
SeenIsMapped ==
  \A p \in {q \in proposed : Explicit(q)} :
    LET b == Unmap(p, letterbox).box IN
      \A x \in p.cx - p.w \div 2 .. p.cx + p.w \div 2 - 1,
         y \in p.cy - p.h \div 2 .. p.cy + p.h \div 2 - 1 :
        InPicture(letterbox, x, y) => Hides(b, letterbox, SourcePixel(letterbox, x, y))

\* The suppression drops no region for good: each candidate is kept, or a kept
\* one that is at least as certain overlaps it; and no two kept ones overlap.
KeptRepresentsAll ==
  /\ \A c \in candidates : \E i \in DOMAIN detected :
       /\ detected[i].confidence >= c.confidence
       /\ detected[i] = c \/ Overlaps(detected[i].box, c.box, nms_iou_threshold)
  /\ \A i, j \in DOMAIN detected :
       i # j => ~Overlaps(detected[i].box, detected[j].box, nms_iou_threshold)

DetectionsAreFaithful == SeenIsMapped /\ KeptRepresentsAll
=============================================================================
