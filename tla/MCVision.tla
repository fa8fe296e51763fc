------------------------------ MODULE MCVision ------------------------------
(***************************************************************************)
(* The detector and the two trackers.  They share no state, so a behaviour *)
(* explores one of them and leaves the others as they began.               *)
(***************************************************************************)
EXTENDS TemporalSmoothing, VisualAnchor, Detector

VARIABLE part

\* Smoothing: three boxes none of which matches another one until it is padded
\* or has grown, so that a merged box can meet one that it had passed over.
MCDetections == {Box(290, 480, 290, 180), Box(500, 370, 250, 280), Box(370, 560, 320, 180)}
MCCreations == { [window |-> 0, padding |-> 0, threshold |-> 0],
                 [window |-> 2, padding |-> 40, threshold |-> 10] }

\* SET_PADDING: less than the default, and more than a box taken away.
MCPaddings == {5, -250}

\* Anchors: a region that is reported at two sizes, two regions in one frame
\* that overlap it and each other and reach the edge of the screen, and nothing;
\* a page at two scroll positions and a film.
MCNarrow == Box(200, 700, 100, 200)
MCWide == Box(200, 700, 400, 200)
MCReports == { <<>>, <<MCNarrow>>, <<MCWide>>,
               <<Box(300, 700, 200, 200), Box(340, 840, 200, 160)>> }
MCFrames == { [picture |-> "page", scroll |-> 0], [picture |-> "page", scroll |-> 40],
              [picture |-> "film", scroll |-> 0] }
MCColour(picture, x, y) ==
  IF picture = "page" THEN (((7 * y) \div 10) % 101) + ((x \div 10) % 20)
                      ELSE 160 + ((x * y) % 90)

\* Detector: a canvas of 16 pixels, frames of both orientations, some of them
\* so narrow that their scaled side is rounded up to a pixel, and one whose
\* side is rounded down to 3; proposals that overlap in a chain, tie, lie
\* beyond an edge or miss a threshold.
MCProposal(cx, cy, w, h, harmless, explicit) ==
  [cx |-> cx, cy |-> cy, w |-> w, h |-> h, score |-> (1 :> harmless) @@ (2 :> explicit)]
MCProposals ==
  { MCProposal(8, 8, 4, 4, 0, 60), MCProposal(9, 8, 4, 4, 10, 50),
    MCProposal(10, 8, 4, 4, 0, 50), MCProposal(2, 3, 6, 8, 5, 30),
    MCProposal(15, 14, 6, 6, 30, 20), MCProposal(14, 13, 8, 6, 0, 17),
    MCProposal(14, 13, 8, 6, 0, 18) }
MCFrameSizes == {<<16, 9>>, <<9, 16>>, <<32, 18>>, <<7, 5>>, <<40, 1>>, <<3, 50>>,
                 <<20, 96>>}

vars == <<part, trackerVars, anchorVars, detectorVars>>

Init ==
  /\ part \in {"smoothing", "anchors", "detector"}
  /\ TrackerInit /\ AnchorInit /\ DetectorInit

Next ==
  /\ UNCHANGED part
  /\ \/ part = "smoothing" /\ TrackerNext /\ UNCHANGED <<anchorVars, detectorVars>>
     \/ part = "anchors" /\ AnchorNext /\ UNCHANGED <<trackerVars, detectorVars>>
     \/ part = "detector" /\ DetectorNext /\ UNCHANGED <<trackerVars, anchorVars>>

Spec == Init /\ [][Next]_vars

\* The variables of the three components keep their types: boxes stay on the
\* screen, or have no area left when SET_PADDING takes away more than all of
\* one; ages are not negative; no more boxes are handed out than fit; and what
\* the detector reports lies within the frame.
VisionTypeOK == TrackerTypeOK /\ AnchorTypeOK /\ DetectorTypeOK

\* Merging reaches its end in both trackers: no two boxes they draw overlap,
\* although a box that has just grown may meet one that it was compared with.
MergeIsComplete ==
  /\ NothingToMerge(Results(tracked_boxes_), tracker.threshold)
  /\ NothingToMerge(shown, merge_iou_threshold)
=============================================================================
