-------------------------------- MODULE Boxes --------------------------------
(***************************************************************************)
(* core::BoundingBox (bounding_box.hpp) over integers: a box is given in   *)
(* units of 1/One of the screen, and what the code computes with floats is *)
(* rounded down to a unit.  Ratios are given in percent.  The merging that *)
(* both trackers end with is here too, since they share it line by line.   *)
(***************************************************************************)
EXTENDS Integers, Sequences, FiniteSets, SequencesExt

CONSTANT One   \* the side of the screen, 1.0f

ASSUME OneAssumption == One \in Nat \ {0}

Box(x, y, width, height) == [x |-> x, y |-> y, width |-> width, height |-> height]

Right(b) == b.x + b.width
Bottom(b) == b.y + b.height
Area(b) == b.width * b.height

Least(a, b) == IF a <= b THEN a ELSE b
Greatest(a, b) == IF a >= b THEN a ELSE b
Clamp(v, low, high) == Greatest(low, Least(v, high))

\* Mutant: the union starts where the first box starts.
UnitedFirst(b, c) == Box(b.x, b.y, Greatest(b.width, c.width), Greatest(b.height, c.height))

\* The smallest box around both.
United(b, c) ==
  LET x1 == Least(b.x, c.x)   y1 == Least(b.y, c.y)
  IN Box(x1, y1, Greatest(Right(b), Right(c)) - x1, Greatest(Bottom(b), Bottom(c)) - y1)

\* Mutant: the padding is not clipped.
ExpandedUnclipped(b, ratio) ==
  LET dw == (b.width * ratio) \div 200   dh == (b.height * ratio) \div 200
  IN Box(b.x - dw, b.y - dh, b.width + 2 * dw, b.height + 2 * dh)

\* expanded(): outward by ratio percent around the centre, clipped to the
\* screen.  Nothing keeps the ratio from being negative.
Expanded(b, ratio) ==
  LET dw == (b.width * ratio) \div 200   dh == (b.height * ratio) \div 200
      x1 == Greatest(0, b.x - dw)        y1 == Greatest(0, b.y - dh)
  IN Box(x1, y1, Greatest(0, Least(One, Right(b) + dw) - x1),
                 Greatest(0, Least(One, Bottom(b) + dh) - y1))

Intersection(b, c) ==
  Greatest(0, Least(Right(b), Right(c)) - Greatest(b.x, c.x))
    * Greatest(0, Least(Bottom(b), Bottom(c)) - Greatest(b.y, c.y))

\* iou() > threshold percent; two boxes without area have an iou of 0.
Overlaps(b, c, threshold) ==
  LET union == Area(b) + Area(c) - Intersection(b, c)
  IN union > 0 /\ 100 * Intersection(b, c) > threshold * union

Covers(b, c) ==
  b.x <= c.x /\ b.y <= c.y /\ Right(c) <= Right(b) /\ Bottom(c) <= Bottom(b)

\* A box whose sides are not negative.
IsBox(b) ==
  /\ b = Box(b.x, b.y, b.width, b.height)
  /\ b.x \in Int /\ b.y \in Int /\ b.width \in Nat /\ b.height \in Nat

OnScreen(b) == b.x >= 0 /\ b.y >= 0 /\ Right(b) <= One /\ Bottom(b) <= One

\* erase(remove_if(...)): what of s is to be kept, in order.
Only(s, keep) ==
  FoldLeft(LAMBDA left, e : IF e \in keep THEN Append(left, e) ELSE left, <<>>, s)

-----------------------------------------------------------------------------
(* merge_overlapping_boxes                                                  *)

\* The inner loop: box takes in what overlaps it of the boxes after it, and
\* grows while it goes; rest is what it leaves.
Absorb(box, boxes, threshold) ==
  FoldLeft(LAMBDA acc, b : IF Overlaps(acc.box, b, threshold)
                             THEN [acc EXCEPT !.box = United(@, b)]
                             ELSE [acc EXCEPT !.rest = Append(@, b)],
           [box |-> box, rest |-> <<>>], boxes)

\* One round of the while loop: every box not yet consumed starts an Absorb.
MergePass(boxes, threshold) ==
  FoldLeft(LAMBDA acc, i :
             IF acc.todo = <<>> THEN acc
             ELSE LET a == Absorb(Head(acc.todo), Tail(acc.todo), threshold)
                  IN [todo |-> a.rest, next_stage |-> Append(acc.next_stage, a.box)],
           [todo |-> boxes, next_stage |-> <<>>], boxes).next_stage

\* Mutant: one round is taken to be enough.
MergedOnce(boxes, threshold) == MergePass(boxes, threshold)

\* A round that merges leaves fewer boxes, so as many rounds as there are
\* boxes reach the one that changes nothing.
Merged(boxes, threshold) ==
  FoldLeft(LAMBDA stage, i : MergePass(stage, threshold), boxes, boxes)

\* Merging has gone on to its end: no two of the boxes overlap any more.
NothingToMerge(boxes, threshold) ==
  \A i, j \in DOMAIN boxes : i # j => ~Overlaps(boxes[i], boxes[j], threshold)
=============================================================================
