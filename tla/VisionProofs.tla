---------------------------- MODULE VisionProofs ----------------------------
(***************************************************************************)
(* Proofs about what the model sees and what is drawn of it, for all       *)
(* values of the constants: the detector's mapping and suppression, the    *)
(* merging of boxes, and the two trackers.  Folds over sequences are       *)
(* reasoned about through the intermediate results they run through.       *)
(***************************************************************************)
EXTENDS MCVision, FiniteSetTheorems, SequenceTheorems, FoldProofs

-----------------------------------------------------------------------------
(* Boxes                                                                    *)

IntBoxes == [x : Int, y : Int, width : Int, height : Int]

\* Which of two boxes is the first does not matter.
LEMMA OverlapsBothWays ==
  ASSUME NEW b \in IntBoxes, NEW c \in IntBoxes, NEW threshold
  PROVE  Overlaps(b, c, threshold) <=> Overlaps(c, b, threshold)
<1>1. Area(b) \in Int /\ Area(c) \in Int
  BY DEF Area, IntBoxes
<1>2. Right(b) \in Int /\ Right(c) \in Int /\ Bottom(b) \in Int /\ Bottom(c) \in Int
      /\ b.x \in Int /\ c.x \in Int /\ b.y \in Int /\ c.y \in Int
  BY DEF Right, Bottom, IntBoxes
<1>3. \A v, w \in Int : Least(v, w) = Least(w, v) /\ Greatest(v, w) = Greatest(w, v)
  BY DEF Least, Greatest
<1>4. Intersection(b, c) = Intersection(c, b)
  BY <1>2, <1>3 DEF Intersection
<1>5. Intersection(b, c) \in Int
  BY <1>2 DEF Intersection, Least, Greatest
<1>6. Area(b) + Area(c) - Intersection(b, c) = Area(c) + Area(b) - Intersection(c, b)
  BY <1>1, <1>4, <1>5
<1> HIDE DEF IntBoxes
<1> QED
  BY <1>4, <1>6 DEF Overlaps

LEMMA UnitedIsAround ==
  ASSUME NEW b \in IntBoxes, NEW c \in IntBoxes
  PROVE  /\ United(b, c) \in IntBoxes
         /\ Covers(United(b, c), b) /\ Covers(United(b, c), c)
         /\ OnScreen(b) /\ OnScreen(c) => OnScreen(United(b, c))
BY DEF IntBoxes, United, Box, Covers, OnScreen, Right, Bottom, Least, Greatest

LEMMA CoversItself ==
  ASSUME NEW b \in IntBoxes
  PROVE  Covers(b, b)
BY DEF IntBoxes, Covers, Right, Bottom

LEMMA CoversThrough ==
  ASSUME NEW a \in IntBoxes, NEW b \in IntBoxes, NEW c \in IntBoxes, Covers(a, b), Covers(b, c)
  PROVE  Covers(a, c)
BY DEF IntBoxes, Covers, Right, Bottom

\* Sets of boxes that merging does not leave.
Mergeable(S, threshold) ==
  S \subseteq IntBoxes /\ \A b, c \in S : Overlaps(b, c, threshold) => United(b, c) \in S

-----------------------------------------------------------------------------
(* Merging                                                                  *)

\* What Absorb does with one box.
AbsorbOne(acc, b, threshold) ==
  IF Overlaps(acc.box, b, threshold)
    THEN [acc EXCEPT !.box = United(@, b)]
    ELSE [acc EXCEPT !.rest = Append(@, b)]

LEMMA AbsorbOneType ==
  ASSUME NEW S, NEW threshold, Mergeable(S, threshold), NEW acc \in [box : S, rest : Seq(S)], NEW b \in S
  PROVE  /\ AbsorbOne(acc, b, threshold) \in [box : S, rest : Seq(S)]
         /\ Overlaps(acc.box, b, threshold) =>
              /\ AbsorbOne(acc, b, threshold).box = United(acc.box, b)
              /\ AbsorbOne(acc, b, threshold).rest = acc.rest
         /\ ~Overlaps(acc.box, b, threshold) =>
              /\ AbsorbOne(acc, b, threshold).box = acc.box
              /\ AbsorbOne(acc, b, threshold).rest = Append(acc.rest, b)
<1>1. acc = [box |-> acc.box, rest |-> acc.rest] /\ acc.box \in S /\ acc.rest \in Seq(S)
  OBVIOUS
<1>2. /\ Overlaps(acc.box, b, threshold) => United(acc.box, b) \in S
      /\ Append(acc.rest, b) \in Seq(S)
  BY <1>1 DEF Mergeable
<1> DEFINE u == United(acc.box, b)
           a == Append(acc.rest, b)
<1>3. [acc EXCEPT !.box = u] = [box |-> u, rest |-> acc.rest]
      /\ [acc EXCEPT !.rest = a] = [box |-> acc.box, rest |-> a]
  BY <1>1, SMTT(40)
<1>4. AbsorbOne(acc, b, threshold) =
        IF Overlaps(acc.box, b, threshold) THEN [box |-> u, rest |-> acc.rest]
                                           ELSE [box |-> acc.box, rest |-> a]
  BY <1>3 DEF AbsorbOne
<1> HIDE DEF u, a
<1> QED
  BY <1>1, <1>2, <1>4 DEF u, a

\* The intermediate results of Absorb.
LEMMA AbsorbRuns ==
  ASSUME NEW S, NEW threshold, Mergeable(S, threshold), NEW box \in S, NEW boxes \in Seq(S)
  PROVE  \E f \in [0 .. Len(boxes) -> [box : S, rest : Seq(S)]] :
           /\ f[0] = [box |-> box, rest |-> <<>>]
           /\ \A i \in 1 .. Len(boxes) : f[i] = AbsorbOne(f[i - 1], boxes[i], threshold)
           /\ f[Len(boxes)] = Absorb(box, boxes, threshold)
<1> DEFINE n == Len(boxes)
           V == [box : S, rest : Seq(S)]
           base == [box |-> box, rest |-> <<>>]
           step == [p \in V \X (1 .. n) |-> AbsorbOne(p[1], boxes[p[2]], threshold)]
           Body(g) == [t \in SUBSET (DOMAIN boxes) |->
                        IF t = {} THEN base ELSE AbsorbOne(g[t \ {Max(t)}], boxes[Max(t)], threshold)]
           iter == CHOOSE g : g = Body(g)
<1>1. Absorb(box, boxes, threshold) = iter[DOMAIN boxes]
  BY DEF Absorb, FoldLeft, MapThenFoldSet, AbsorbOne
<1>2. n \in Nat /\ DOMAIN boxes = 1 .. n /\ \A i \in 1 .. n : boxes[i] \in S
  OBVIOUS
<1>3. base \in V
  OBVIOUS
<1> HIDE DEF V, n, base
<1>4. step \in [V \X (1 .. n) -> V]
  <2>1. ASSUME NEW v \in V, NEW i \in 1 .. n PROVE AbsorbOne(v, boxes[i], threshold) \in V
    BY <1>2, AbsorbOneType DEF V
  <2> QED
    BY <2>1
<1>5. \A v \in V, i \in 1 .. n : step[<<v, i>>] = AbsorbOne(v, boxes[i], threshold)
  OBVIOUS
<1> HIDE DEF step
<1>6. PICK g \in [SUBSET (1 .. n) -> V] : SolvesFold(g, n, base, step)
  BY <1>2, <1>3, <1>4, FoldExists
<1>7. g = Body(g)
  <2>1. ASSUME NEW t \in SUBSET (1 .. n), t # {}
        PROVE  g[t] = AbsorbOne(g[t \ {Max(t)}], boxes[Max(t)], threshold)
    <3>1. Max(t) \in 1 .. n /\ t \ {Max(t)} \in SUBSET (1 .. n)
      BY <1>2, <2>1, MaxIn
    <3>2. g[t \ {Max(t)}] \in V
      BY <3>1
    <3> QED
      BY <1>5, <1>6, <2>1, <3>1, <3>2 DEF SolvesFold
  <2> QED
    BY <1>2, <1>6, <2>1 DEF SolvesFold
<1>8. iter = Body(iter)
  BY <1>7
<1> HIDE DEF iter
<1>9. UnfoldsIn(V, iter, n, base, step)
  <2> SUFFICES ASSUME NEW t \in SUBSET (1 .. n)
      PROVE  IF t = {} THEN iter[t] = base
             ELSE iter[t \ {Max(t)}] \in V => iter[t] = step[<<iter[t \ {Max(t)}], Max(t)>>]
    BY DEF UnfoldsIn
  <2>1. t # {} => Max(t) \in 1 .. n
    BY <1>2, MaxIn
  <2>2. iter[t] = IF t = {} THEN base ELSE AbsorbOne(iter[t \ {Max(t)}], boxes[Max(t)], threshold)
    BY <1>2, <1>8
  <2> QED
    BY <1>5, <2>1, <2>2
<1>10. PICK f : RunsThrough(V, f, iter, n, base, step)
  BY <1>2, <1>3, <1>4, <1>9, FoldRuns
<1>11. \A i \in 1 .. n : f[i] = AbsorbOne(f[i - 1], boxes[i], threshold)
  <2> SUFFICES ASSUME NEW i \in 1 .. n PROVE f[i] = AbsorbOne(f[i - 1], boxes[i], threshold)
    OBVIOUS
  <2>1. i - 1 \in 0 .. n
    BY <1>2
  <2> QED
    BY <1>5, <1>10, <2>1 DEF RunsThrough
<1>12. \E h \in [0 .. n -> V] :
         /\ h[0] = base
         /\ \A i \in 1 .. n : h[i] = AbsorbOne(h[i - 1], boxes[i], threshold)
         /\ h[n] = Absorb(box, boxes, threshold)
  BY <1>1, <1>2, <1>10, <1>11 DEF RunsThrough
<1> QED
  BY <1>12 DEF V, n, base

\* Absorb grows a box over all that it takes in, and leaves the others as they
\* are; it takes something in unless nothing overlaps the box.
LEMMA AbsorbTakes ==
  ASSUME NEW S, NEW threshold, Mergeable(S, threshold), NEW box \in S, NEW boxes \in Seq(S)
  PROVE  LET a == Absorb(box, boxes, threshold) IN
         /\ a \in [box : S, rest : Seq(S)]
         /\ Len(a.rest) <= Len(boxes)
         /\ Covers(a.box, box)
         /\ \A j \in 1 .. Len(boxes) :
              Covers(a.box, boxes[j]) \/ \E i \in 1 .. Len(a.rest) : a.rest[i] = boxes[j]
         /\ Len(a.rest) = Len(boxes) =>
              /\ a.box = box
              /\ \A j \in 1 .. Len(boxes) : a.rest[j] = boxes[j] /\ ~Overlaps(box, boxes[j], threshold)
         /\ (\A j \in 1 .. Len(boxes) : ~Overlaps(box, boxes[j], threshold)) =>
              Len(a.rest) = Len(boxes)
<1> DEFINE n == Len(boxes)
           Apart(b) == ~Overlaps(box, b, threshold)
           Taken(acc, b) == Covers(acc.box, b) \/ \E i \in 1 .. Len(acc.rest) : acc.rest[i] = b
           Whole(acc, m) == Len(acc.rest) <= m /\ Covers(acc.box, box)
           Every(acc, m) == \A j \in 1 .. m : Taken(acc, boxes[j])
           Same(acc, m) == Len(acc.rest) = m =>
                             /\ acc.box = box
                             /\ \A j \in 1 .. m : acc.rest[j] = boxes[j] /\ Apart(boxes[j])
           None(acc, m) == (\A j \in 1 .. m : Apart(boxes[j])) => Len(acc.rest) = m
<1>1. PICK f \in [0 .. n -> [box : S, rest : Seq(S)]] :
        /\ f[0] = [box |-> box, rest |-> <<>>]
        /\ \A i \in 1 .. n : f[i] = AbsorbOne(f[i - 1], boxes[i], threshold)
        /\ f[n] = Absorb(box, boxes, threshold)
  BY AbsorbRuns, SMTT(40)
<1>2. n \in Nat /\ (\A i \in 1 .. n : boxes[i] \in S) /\ S \subseteq IntBoxes
  BY DEF Mergeable
<1> DEFINE T == {m \in 0 .. n : Whole(f[m], m) /\ Every(f[m], m) /\ Same(f[m], m) /\ None(f[m], m)}
<1>3. 0 \in T
  <2>1. f[0].box = box /\ f[0].rest = <<>> /\ Len(f[0].rest) = 0
    BY <1>1
  <2>2. Covers(box, box)
    BY <1>2, CoversItself
  <2> QED
    BY <1>2, <2>1, <2>2
<1> HIDE DEF n, Apart, Taken, Whole, Every, Same, None
<1>4. ASSUME NEW m \in 0 .. n - 1, m \in T PROVE m + 1 \in T
  <2> DEFINE acc == f[m]
             b == boxes[m + 1]
             next == f[m + 1]
  <2>1. /\ m \in Nat /\ m + 1 \in 1 .. n /\ m + 1 \in 0 .. n
        /\ acc \in [box : S, rest : Seq(S)] /\ b \in S /\ next = AbsorbOne(acc, b, threshold)
    <3>1. m \in Nat /\ m + 1 \in 1 .. n /\ m + 1 \in 0 .. n /\ m + 1 - 1 = m
      BY <1>2
    <3> QED
      BY <1>1, <1>2, <3>1
  <2>2. Whole(acc, m) /\ Every(acc, m) /\ Same(acc, m) /\ None(acc, m)
    BY <1>4
  <2> HIDE DEF acc, b, next
  <2>3. next \in [box : S, rest : Seq(S)]
    BY <2>1, AbsorbOneType
  <2>4. acc.box \in IntBoxes /\ acc.rest \in Seq(S) /\ Len(acc.rest) \in Nat /\ box \in IntBoxes
        /\ b \in IntBoxes
    BY <1>2, <2>1
  <2>5. CASE Overlaps(acc.box, b, threshold)
    <3>1. next.box = United(acc.box, b) /\ next.rest = acc.rest
      BY <2>1, <2>5, AbsorbOneType
    <3>2. next.box \in IntBoxes /\ Covers(next.box, acc.box) /\ Covers(next.box, b)
      BY <2>4, <3>1, UnitedIsAround
    <3>3. Whole(next, m + 1) /\ Len(next.rest) <= m
      BY <2>1, <2>2, <2>4, <3>1, <3>2, CoversThrough DEF Whole
    <3>4. Every(next, m + 1)
      <4> SUFFICES ASSUME NEW j \in 1 .. m + 1 PROVE Taken(next, boxes[j])
        BY DEF Every
      <4>1. CASE j = m + 1
        BY <3>2, <4>1 DEF Taken, b
      <4>2. CASE j \in 1 .. m
        <5>1. Taken(acc, boxes[j]) /\ boxes[j] \in IntBoxes
          BY <1>2, <2>1, <2>2, <4>2 DEF Every
        <5> QED
          BY <2>4, <3>1, <3>2, <5>1, CoversThrough DEF Taken
      <4> QED
        BY <2>1, <4>1, <4>2
    <3>5. Same(next, m + 1)
      BY <2>1, <3>3 DEF Same
    <3>6. None(next, m + 1)
      <4> SUFFICES ASSUME \A j \in 1 .. m + 1 : Apart(boxes[j]) PROVE FALSE
        BY DEF None
      <4>1. Len(acc.rest) = m
        BY <2>1, <2>2 DEF None
      <4>2. acc.box = box
        BY <2>2, <4>1 DEF Same
      <4>3. m + 1 \in 1 .. m + 1
        BY <2>1
      <4> QED
        BY <2>5, <4>2, <4>3 DEF Apart, b
    <3> QED
      BY <2>1, <3>3, <3>4, <3>5, <3>6, Zenon DEF next
  <2>6. CASE ~Overlaps(acc.box, b, threshold)
    <3>1. next.box = acc.box /\ next.rest = Append(acc.rest, b)
      BY <2>1, <2>6, AbsorbOneType
    <3>2. /\ Len(next.rest) = Len(acc.rest) + 1
          /\ \A i \in 1 .. Len(acc.rest) : next.rest[i] = acc.rest[i]
          /\ next.rest[Len(acc.rest) + 1] = b
      BY <2>1, <2>4, <3>1
    <3>3. Whole(next, m + 1)
      BY <2>1, <2>2, <2>4, <3>1, <3>2 DEF Whole
    <3>4. Every(next, m + 1)
      <4> SUFFICES ASSUME NEW j \in 1 .. m + 1 PROVE Taken(next, boxes[j])
        BY DEF Every
      <4>1. CASE j = m + 1
        <5>1. Len(acc.rest) + 1 \in 1 .. Len(next.rest)
          BY <2>4, <3>2
        <5> QED
          BY <3>2, <4>1, <5>1 DEF Taken, b
      <4>2. CASE j \in 1 .. m
        <5>1. Taken(acc, boxes[j])
          BY <2>2, <4>2 DEF Every
        <5>2. ASSUME NEW i \in 1 .. Len(acc.rest)
              PROVE  i \in 1 .. Len(next.rest) /\ next.rest[i] = acc.rest[i]
          BY <2>4, <3>2
        <5> QED
          BY <3>1, <5>1, <5>2 DEF Taken
      <4> QED
        BY <2>1, <4>1, <4>2
    <3>5. Same(next, m + 1)
      <4> SUFFICES ASSUME Len(next.rest) = m + 1
                   PROVE  /\ next.box = box
                          /\ \A j \in 1 .. m + 1 : next.rest[j] = boxes[j] /\ Apart(boxes[j])
        BY DEF Same
      <4>1. Len(acc.rest) = m
        BY <2>1, <2>4, <3>2
      <4>2. acc.box = box /\ \A j \in 1 .. m : acc.rest[j] = boxes[j] /\ Apart(boxes[j])
        BY <2>2, <4>1 DEF Same
      <4>3. next.rest[m + 1] = boxes[m + 1] /\ Apart(boxes[m + 1])
        BY <2>6, <3>2, <4>1, <4>2 DEF Apart, b
      <4>4. \A j \in 1 .. m : next.rest[j] = boxes[j] /\ Apart(boxes[j])
        BY <3>2, <4>1, <4>2
      <4> QED
        BY <2>1, <3>1, <4>2, <4>3, <4>4
    <3>6. None(next, m + 1)
      <4> SUFFICES ASSUME \A j \in 1 .. m + 1 : Apart(boxes[j]) PROVE Len(next.rest) = m + 1
        BY DEF None
      <4>1. Len(acc.rest) = m
        BY <2>1, <2>2 DEF None
      <4> QED
        BY <3>2, <4>1
    <3> QED
      BY <2>1, <3>3, <3>4, <3>5, <3>6, Zenon DEF next
  <2> QED
    BY <2>5, <2>6
<1> HIDE DEF T
<1>5. 0 .. n \subseteq T
  BY <1>2, <1>3, <1>4, NumbersUpTo
<1>6. n \in T
  BY <1>2, <1>5
<1> DEFINE a == Absorb(box, boxes, threshold)
<1>7. a \in [box : S, rest : Seq(S)] /\ a = f[n]
  BY <1>1, <1>2
<1>8. Whole(a, n) /\ Every(a, n) /\ Same(a, n) /\ None(a, n)
  BY <1>6, <1>7 DEF T
<1> HIDE DEF a, T
<1>9. /\ a \in [box : S, rest : Seq(S)]
      /\ Len(a.rest) <= n
      /\ Covers(a.box, box)
      /\ \A j \in 1 .. n :
           Covers(a.box, boxes[j]) \/ \E i \in 1 .. Len(a.rest) : a.rest[i] = boxes[j]
      /\ Len(a.rest) = n =>
           /\ a.box = box
           /\ \A j \in 1 .. n : a.rest[j] = boxes[j] /\ ~Overlaps(box, boxes[j], threshold)
      /\ (\A j \in 1 .. n : ~Overlaps(box, boxes[j], threshold)) => Len(a.rest) = n
  BY <1>7, <1>8 DEF Whole, Every, Same, None, Taken, Apart
<1> QED
  BY <1>9, Zenon DEF a, n

\* What a round does with the next box that is not consumed.
PassOne(acc, threshold) ==
  IF acc.todo = <<>> THEN acc
  ELSE LET a == Absorb(Head(acc.todo), Tail(acc.todo), threshold)
       IN [todo |-> a.rest, next_stage |-> Append(acc.next_stage, a.box)]

LEMMA PassOneType ==
  ASSUME NEW S, NEW threshold, Mergeable(S, threshold), NEW acc \in [todo : Seq(S), next_stage : Seq(S)]
  PROVE  PassOne(acc, threshold) \in [todo : Seq(S), next_stage : Seq(S)]
<1>1. CASE acc.todo = <<>>
  BY <1>1 DEF PassOne
<1>2. CASE acc.todo # <<>>
  <2> DEFINE a == Absorb(Head(acc.todo), Tail(acc.todo), threshold)
  <2>1. Head(acc.todo) \in S /\ Tail(acc.todo) \in Seq(S)
    BY <1>2
  <2>2. a \in [box : S, rest : Seq(S)]
    BY <2>1, AbsorbTakes
  <2>3. PassOne(acc, threshold) = [todo |-> a.rest, next_stage |-> Append(acc.next_stage, a.box)]
    BY <1>2 DEF PassOne
  <2> HIDE DEF a
  <2> QED
    BY <2>2, <2>3
<1> QED
  BY <1>1, <1>2

\* The intermediate results of a round of merging.
LEMMA MergePassRuns ==
  ASSUME NEW S, NEW threshold, Mergeable(S, threshold), NEW boxes \in Seq(S)
  PROVE  \E f \in [0 .. Len(boxes) -> [todo : Seq(S), next_stage : Seq(S)]] :
           /\ f[0] = [todo |-> boxes, next_stage |-> <<>>]
           /\ \A i \in 1 .. Len(boxes) : f[i] = PassOne(f[i - 1], threshold)
           /\ f[Len(boxes)].next_stage = MergePass(boxes, threshold)
<1> DEFINE n == Len(boxes)
           V == [todo : Seq(S), next_stage : Seq(S)]
           base == [todo |-> boxes, next_stage |-> <<>>]
           step == [p \in V \X (1 .. n) |-> PassOne(p[1], threshold)]
           Body(g) == [t \in SUBSET (DOMAIN boxes) |->
                        IF t = {} THEN base ELSE PassOne(g[t \ {Max(t)}], threshold)]
           iter == CHOOSE g : g = Body(g)
<1>1. MergePass(boxes, threshold) = iter[DOMAIN boxes].next_stage
  BY DEF MergePass, FoldLeft, MapThenFoldSet, PassOne
<1>2. n \in Nat /\ DOMAIN boxes = 1 .. n /\ \A i \in 1 .. n : boxes[i] \in S
  OBVIOUS
<1>3. base \in V
  OBVIOUS
<1> HIDE DEF V, n, base
<1>4. step \in [V \X (1 .. n) -> V]
  <2>1. ASSUME NEW v \in V, NEW i \in 1 .. n PROVE PassOne(v, threshold) \in V
    BY PassOneType DEF V
  <2> QED
    BY <2>1
<1>5. \A v \in V, i \in 1 .. n : step[<<v, i>>] = PassOne(v, threshold)
  OBVIOUS
<1> HIDE DEF step
<1>6. PICK g \in [SUBSET (1 .. n) -> V] : SolvesFold(g, n, base, step)
  BY <1>2, <1>3, <1>4, FoldExists
<1>7. g = Body(g)
  <2>1. ASSUME NEW t \in SUBSET (1 .. n), t # {}
        PROVE  g[t] = PassOne(g[t \ {Max(t)}], threshold)
    <3>1. Max(t) \in 1 .. n /\ t \ {Max(t)} \in SUBSET (1 .. n)
      BY <1>2, <2>1, MaxIn
    <3>2. g[t \ {Max(t)}] \in V
      BY <3>1
    <3> QED
      BY <1>5, <1>6, <2>1, <3>1, <3>2 DEF SolvesFold
  <2> QED
    BY <1>2, <1>6, <2>1 DEF SolvesFold
<1>8. iter = Body(iter)
  BY <1>7
<1> HIDE DEF iter
<1>9. UnfoldsIn(V, iter, n, base, step)
  <2> SUFFICES ASSUME NEW t \in SUBSET (1 .. n)
      PROVE  IF t = {} THEN iter[t] = base
             ELSE iter[t \ {Max(t)}] \in V => iter[t] = step[<<iter[t \ {Max(t)}], Max(t)>>]
    BY DEF UnfoldsIn
  <2>1. t # {} => Max(t) \in 1 .. n
    BY <1>2, MaxIn
  <2>2. iter[t] = IF t = {} THEN base ELSE PassOne(iter[t \ {Max(t)}], threshold)
    BY <1>2, <1>8
  <2> QED
    BY <1>5, <2>1, <2>2
<1>10. PICK f : RunsThrough(V, f, iter, n, base, step)
  BY <1>2, <1>3, <1>4, <1>9, FoldRuns
<1>11. \A i \in 1 .. n : f[i] = PassOne(f[i - 1], threshold)
  <2> SUFFICES ASSUME NEW i \in 1 .. n PROVE f[i] = PassOne(f[i - 1], threshold)
    OBVIOUS
  <2>1. i - 1 \in 0 .. n
    BY <1>2
  <2> QED
    BY <1>5, <1>10, <2>1 DEF RunsThrough
<1>12. \E h \in [0 .. n -> V] :
         /\ h[0] = base
         /\ \A i \in 1 .. n : h[i] = PassOne(h[i - 1], threshold)
         /\ h[n].next_stage = MergePass(boxes, threshold)
  BY <1>1, <1>2, <1>10, <1>11 DEF RunsThrough
<1> QED
  BY <1>12 DEF V, n, base

\* A round of merging loses no box: each is covered by one of those it leaves.
\* It leaves as many only if it changes nothing, and then no two overlap.
LEMMA MergePassMerges ==
  ASSUME NEW S, NEW threshold, Mergeable(S, threshold), NEW boxes \in Seq(S)
  PROVE  LET r == MergePass(boxes, threshold) IN
         /\ r \in Seq(S) /\ Len(r) <= Len(boxes)
         /\ \A j \in 1 .. Len(boxes) : \E i \in 1 .. Len(r) : Covers(r[i], boxes[j])
         /\ Len(r) = Len(boxes) => r = boxes /\ NothingToMerge(boxes, threshold)
         /\ NothingToMerge(boxes, threshold) => Len(r) = Len(boxes)
<1> DEFINE n == Len(boxes)
           V == [todo : Seq(S), next_stage : Seq(S)]
           Apart(b, c) == ~Overlaps(b, c, threshold)
           CoveredBy(s, b) == \E i \in 1 .. Len(s) : Covers(s[i], b)
           Size(acc, m) == /\ Len(acc.todo) + Len(acc.next_stage) <= n
                           /\ acc.todo = <<>> \/ Len(acc.next_stage) = m
           Every(acc) == \A j \in 1 .. n : CoveredBy(acc.todo, boxes[j])
                                             \/ CoveredBy(acc.next_stage, boxes[j])
           Done(s) == \A i \in 1 .. Len(s) :
                        s[i] = boxes[i] /\ \A j \in i + 1 .. n : Apart(boxes[i], boxes[j])
           Left(s, k) == \A i \in 1 .. Len(s) : s[i] = boxes[k + i]
           Same(acc) == Len(acc.todo) + Len(acc.next_stage) = n =>
                          Done(acc.next_stage) /\ Left(acc.todo, Len(acc.next_stage))
           Full(acc) == NothingToMerge(boxes, threshold) => Len(acc.todo) + Len(acc.next_stage) = n
<1>1. PICK f \in [0 .. n -> V] :
        /\ f[0] = [todo |-> boxes, next_stage |-> <<>>]
        /\ \A i \in 1 .. n : f[i] = PassOne(f[i - 1], threshold)
        /\ f[n].next_stage = MergePass(boxes, threshold)
  BY MergePassRuns, ZenonT(40)
<1>2. n \in Nat /\ (\A i \in 1 .. n : boxes[i] \in S) /\ S \subseteq IntBoxes /\ DOMAIN boxes = 1 .. n
  BY DEF Mergeable
<1> DEFINE T == {m \in 0 .. n : Size(f[m], m) /\ Every(f[m]) /\ Same(f[m]) /\ Full(f[m])}
<1>3. 0 \in T
  <2>1. f[0].todo = boxes /\ f[0].next_stage = <<>> /\ Len(f[0].next_stage) = 0
    BY <1>1
  <2>2. \A j \in 1 .. n : Covers(boxes[j], boxes[j])
    BY <1>2, CoversItself
  <2>3. Every(f[0])
    BY <2>1, <2>2
  <2>4. Size(f[0], 0) /\ Full(f[0])
    BY <1>2, <2>1
  <2>5. Same(f[0])
    BY <1>2, <2>1
  <2>6. 0 \in 0 .. n
    BY <1>2
  <2> HIDE DEF Every, Size, Same, Full
  <2> QED
    BY <2>3, <2>4, <2>5, <2>6
<1> HIDE DEF n, V, Apart, CoveredBy, Size, Every, Done, Left, Same, Full
<1>4. ASSUME NEW m \in 0 .. n - 1, m \in T PROVE m + 1 \in T
  <2> DEFINE acc == f[m]
             next == f[m + 1]
             t == acc.todo
             d == acc.next_stage
             h == Head(t)
             tl == Tail(t)
             a == Absorb(h, tl, threshold)
  <2>1. /\ m \in Nat /\ m + 1 \in 0 .. n /\ acc \in V /\ next = PassOne(acc, threshold)
    <3>1. m \in Nat /\ m + 1 \in 1 .. n /\ m + 1 \in 0 .. n /\ m + 1 - 1 = m
      BY <1>2
    <3> QED
      BY <1>1, <1>2, <3>1
  <2>2. Size(acc, m) /\ Every(acc) /\ Same(acc) /\ Full(acc)
    BY <1>4
  <2> HIDE DEF acc, next
  <2>3. CASE t = <<>>
    <3>1. next = acc
      BY <2>1, <2>3 DEF PassOne
    <3>2. Size(next, m + 1)
      BY <2>2, <2>3, <3>1 DEF Size
    <3> QED
      BY <2>1, <2>2, <3>1, <3>2, Zenon DEF next
  <2>4. CASE t # <<>>
    <3>1. t \in Seq(S) /\ d \in Seq(S) /\ Len(t) \in Nat /\ Len(d) \in Nat
      BY <2>1 DEF V
    <3>2. /\ Len(t) > 0 /\ h = t[1] /\ h \in S /\ tl \in Seq(S) /\ Len(tl) = Len(t) - 1
          /\ \A i \in 1 .. Len(tl) : tl[i] = t[i + 1]
      BY <2>4, <3>1
    <3>3. Len(d) = m /\ Len(t) + Len(d) <= n
      BY <2>2, <2>4 DEF Size
    <3>4. next = [todo |-> a.rest, next_stage |-> Append(d, a.box)]
      BY <2>1, <2>4 DEF PassOne
    <3> HIDE DEF t, d, h, tl
    <3>5. /\ a \in [box : S, rest : Seq(S)]
          /\ Len(a.rest) <= Len(tl)
          /\ Covers(a.box, h)
          /\ \A j \in 1 .. Len(tl) :
               Covers(a.box, tl[j]) \/ \E i \in 1 .. Len(a.rest) : a.rest[i] = tl[j]
          /\ Len(a.rest) = Len(tl) =>
               /\ a.box = h
               /\ \A j \in 1 .. Len(tl) : a.rest[j] = tl[j] /\ ~Overlaps(h, tl[j], threshold)
          /\ (\A j \in 1 .. Len(tl) : ~Overlaps(h, tl[j], threshold)) => Len(a.rest) = Len(tl)
      <4>1. h \in S
        BY <3>2
      <4>2. tl \in Seq(S)
        BY <3>2
      <4> QED
        BY <4>1, <4>2, AbsorbTakes
    <3> HIDE DEF a
    <3>6. a.box \in S /\ a.rest \in Seq(S) /\ Len(a.rest) \in Nat
          /\ a.box \in IntBoxes /\ h \in IntBoxes
      BY <1>2, <3>2, <3>5
    <3>7A. next.todo = a.rest /\ next.next_stage = Append(d, a.box)
      BY <3>4
    <3>7. /\ next.todo = a.rest /\ next.next_stage = Append(d, a.box)
          /\ Len(next.next_stage) = Len(d) + 1
          /\ \A i \in 1 .. Len(d) : next.next_stage[i] = d[i]
          /\ next.next_stage[Len(d) + 1] = a.box
      BY <1>2, <3>1, <3>6, <3>7A
    <3>7B. /\ Len(next.todo) = Len(a.rest) /\ Len(next.next_stage) = Len(d) + 1
           /\ Len(a.rest) <= Len(tl) /\ Len(tl) = Len(t) - 1
           /\ Len(t) \in Nat /\ Len(d) \in Nat /\ Len(a.rest) \in Nat /\ n \in Nat
      <4>1. Len(next.todo) = Len(a.rest) /\ Len(next.next_stage) = Len(d) + 1
        BY <3>7
      <4>2. Len(a.rest) <= Len(tl) /\ Len(tl) = Len(t) - 1
        BY <3>2, <3>5
      <4> QED
        BY <1>2, <3>1, <3>6, <4>1, <4>2
    <3>8. Size(next, m + 1)
      <4>1. Len(next.todo) + Len(next.next_stage) <= n
        <5>1. Len(a.rest) <= Len(t) - 1
          BY <3>7B
        <5>2. Len(a.rest) \in Int /\ Len(t) \in Int /\ Len(d) \in Int /\ n \in Int
          BY <3>7B
        <5>3. Len(a.rest) + Len(d) <= (Len(t) - 1) + Len(d)
          BY <5>1, <5>2
        <5>4. Len(t) + Len(d) <= n
          BY <3>3
        <5>5. Len(next.todo) + Len(next.next_stage) = Len(a.rest) + Len(d) + 1
          BY <3>7B
        <5> DEFINE left == Len(a.rest)   before == Len(t)   done == Len(d)
                   all == Len(next.todo) + Len(next.next_stage)
        <5>6. /\ left \in Int /\ before \in Int /\ done \in Int /\ n \in Int
              /\ left + done <= (before - 1) + done /\ before + done <= n
              /\ all = left + done + 1
          BY <5>2, <5>3, <5>4, <5>5
        <5> HIDE DEF left, before, done, all
        <5>7. all <= n
          BY <5>6
        <5> QED
          BY <5>7 DEF all
      <4>2. Len(next.next_stage) = m + 1
        BY <3>3, <3>7B
      <4> QED
        BY <4>1, <4>2 DEF Size
    <3>9. Every(next)
      <4> SUFFICES ASSUME NEW j \in 1 .. n
                   PROVE  CoveredBy(next.todo, boxes[j]) \/ CoveredBy(next.next_stage, boxes[j])
        BY DEF Every
      <4>1. boxes[j] \in IntBoxes
        BY <1>2
      <4>2. Covers(a.box, boxes[j]) => CoveredBy(next.next_stage, boxes[j])
        <5>1. Len(d) + 1 \in 1 .. Len(next.next_stage)
          BY <3>1, <3>7
        <5> QED
          BY <3>7, <5>1 DEF CoveredBy
      <4>3. CASE CoveredBy(t, boxes[j])
        <5>1. PICK i \in 1 .. Len(t) : Covers(t[i], boxes[j])
          BY <4>3 DEF CoveredBy
        <5>2. CASE i = 1
          BY <3>2, <3>5, <3>6, <4>1, <4>2, <5>1, <5>2, CoversThrough
        <5>3. CASE i # 1
          <6>1. i - 1 \in 1 .. Len(tl) /\ tl[i - 1] = t[i]
            <7>1. i - 1 \in 1 .. Len(tl) /\ (i - 1) + 1 = i
              <8> DEFINE before == Len(t)   rest == Len(tl)
              <8>1. before \in Nat /\ rest = before - 1 /\ i \in 1 .. before
                BY <3>1, <3>2
              <8> HIDE DEF before, rest
              <8>2. i - 1 \in 1 .. rest /\ (i - 1) + 1 = i
                BY <5>3, <8>1
              <8> QED
                BY <8>2 DEF rest
            <7>2. tl[i - 1] = t[(i - 1) + 1]
              BY <3>2, <7>1
            <7> QED
              BY <7>1, <7>2
          <6>2. t[i] \in IntBoxes
            BY <1>2, <3>1
          <6>3. CASE Covers(a.box, tl[i - 1])
            BY <3>6, <4>1, <4>2, <5>1, <6>1, <6>2, <6>3, CoversThrough
          <6>4. CASE \E k \in 1 .. Len(a.rest) : a.rest[k] = tl[i - 1]
            BY <3>7, <5>1, <6>1, <6>4 DEF CoveredBy
          <6> QED
            BY <3>5, <6>1, <6>3, <6>4
        <5> QED
          BY <5>2, <5>3
      <4>4. CASE CoveredBy(d, boxes[j])
        <5>1. PICK i \in 1 .. Len(d) : Covers(d[i], boxes[j])
          BY <4>4 DEF CoveredBy
        <5>2. i \in 1 .. Len(next.next_stage) /\ next.next_stage[i] = d[i]
          BY <3>1, <3>7
        <5> QED
          BY <5>1, <5>2 DEF CoveredBy
      <4> QED
        BY <2>2, <4>3, <4>4 DEF Every, t, d
    <3>10. Same(next)
      <4> SUFFICES ASSUME Len(next.todo) + Len(next.next_stage) = n
                   PROVE  Done(next.next_stage) /\ Left(next.todo, Len(next.next_stage))
        BY DEF Same
      <4>1. Len(a.rest) = Len(tl) /\ Len(t) + Len(d) = n
        BY <3>3, <3>7B, SMTT(40)
      <4>2. Done(d) /\ Left(t, Len(d))
        BY <2>2, <4>1 DEF Same, t, d
      <4>3. a.box = h /\ \A j \in 1 .. Len(tl) : a.rest[j] = tl[j] /\ Apart(h, tl[j])
        BY <3>5, <4>1 DEF Apart
      <4>4. h = boxes[Len(d) + 1]
        <5>1. 1 \in 1 .. Len(t)
          BY <3>1, <3>2
        <5> QED
          BY <3>2, <4>2, <5>1 DEF Left
      <4>5. ASSUME NEW j \in 1 .. Len(tl) PROVE tl[j] = boxes[Len(d) + 1 + j]
        <5>1. j + 1 \in 1 .. Len(t) /\ Len(d) + (j + 1) = Len(d) + 1 + j
          BY <3>1, <3>2
        <5>2. t[j + 1] = boxes[Len(d) + (j + 1)]
          BY <4>2, <5>1 DEF Left
        <5> QED
          BY <3>2, <5>1, <5>2
      <4>6. Left(next.todo, Len(next.next_stage))
        BY <3>7, <4>1, <4>3, <4>5 DEF Left
      <4>7. ASSUME NEW j \in Len(d) + 2 .. n PROVE Apart(h, boxes[j])
        <5>1. j - Len(d) - 1 \in 1 .. Len(tl) /\ Len(d) + 1 + (j - Len(d) - 1) = j
          BY <1>2, <3>1, <3>2, <4>1
        <5>2. Apart(h, tl[j - Len(d) - 1]) /\ tl[j - Len(d) - 1] = boxes[j]
          BY <4>3, <4>5, <5>1
        <5> QED
          BY <5>2
      <4>8. Done(next.next_stage)
        <5> SUFFICES ASSUME NEW i \in 1 .. Len(next.next_stage)
                     PROVE  /\ next.next_stage[i] = boxes[i]
                            /\ \A j \in i + 1 .. n : Apart(boxes[i], boxes[j])
          BY DEF Done
        <5>1. CASE i \in 1 .. Len(d)
          BY <3>7, <4>2, <5>1 DEF Done
        <5>2. CASE i = Len(d) + 1
          BY <3>1, <3>7, <4>3, <4>4, <4>7, <5>2
        <5> QED
          BY <3>1, <3>7, <5>1, <5>2
      <4> QED
        BY <4>6, <4>8
    <3>11. Full(next)
      <4> SUFFICES ASSUME NothingToMerge(boxes, threshold)
                   PROVE  Len(next.todo) + Len(next.next_stage) = n
        BY DEF Full
      <4>1. Len(t) + Len(d) = n
        BY <2>2 DEF Full, t, d
      <4>2. Left(t, Len(d))
        BY <2>2, <4>1 DEF Same, t, d
      <4>3. h = boxes[Len(d) + 1] /\ Len(d) + 1 \in 1 .. n
        BY <1>2, <3>1, <3>2, <4>1, <4>2 DEF Left
      <4>4. ASSUME NEW j \in 1 .. Len(tl) PROVE ~Overlaps(h, tl[j], threshold)
        <5>1. /\ j + 1 \in 1 .. Len(t) /\ Len(d) + (j + 1) \in 1 .. n
              /\ Len(d) + (j + 1) # Len(d) + 1
          BY <1>2, <3>1, <3>2, <4>1
        <5>2. tl[j] = boxes[Len(d) + (j + 1)]
          BY <3>2, <4>2, <5>1 DEF Left
        <5> QED
          BY <1>2, <4>3, <5>1, <5>2 DEF NothingToMerge
      <4>5. Len(a.rest) = Len(tl)
        BY <3>5, <4>4
      <4> QED
        BY <3>7B, <4>1, <4>5, SMTT(40)
    <3> QED
      BY <2>1, <3>8, <3>9, <3>10, <3>11, Zenon DEF next
  <2> QED
    BY <2>3, <2>4
<1> HIDE DEF T
<1>5. 0 .. n \subseteq T
  BY <1>2, <1>3, <1>4, NumbersUpTo
<1>6. n \in T
  BY <1>2, <1>5
<1> DEFINE r == MergePass(boxes, threshold)
<1>7. f[n] \in V /\ r = f[n].next_stage
  BY <1>1, <1>2
<1>8. Size(f[n], n) /\ Every(f[n]) /\ Same(f[n]) /\ Full(f[n])
  BY <1>6 DEF T
<1> HIDE DEF T, r
<1>9. r \in Seq(S) /\ Len(r) \in Nat /\ f[n].todo \in Seq(S) /\ Len(f[n].todo) \in Nat
  BY <1>7 DEF V
<1>10. f[n].todo = <<>> /\ Len(f[n].todo) = 0 /\ Len(r) <= n
  <2>1. /\ Len(f[n].todo) + Len(r) <= n
        /\ f[n].todo = <<>> \/ Len(r) = n
    BY <1>7, <1>8 DEF Size
  <2>2. f[n].todo = <<>> => Len(f[n].todo) = 0
    OBVIOUS
  <2>3. Len(f[n].todo) = 0 /\ Len(r) <= n
    BY <1>2, <1>9, <2>1, <2>2
  <2>4. f[n].todo = <<>>
    BY <1>9, <2>3, EmptySeq
  <2> QED
    BY <2>3, <2>4
<1>11. \A j \in 1 .. n : \E i \in 1 .. Len(r) : Covers(r[i], boxes[j])
  BY <1>7, <1>8, <1>10 DEF Every, CoveredBy
<1>12. Len(r) = n => r = boxes /\ NothingToMerge(boxes, threshold)
  <2> SUFFICES ASSUME Len(r) = n PROVE r = boxes /\ NothingToMerge(boxes, threshold)
    OBVIOUS
  <2>1. Done(r)
    BY <1>7, <1>8, <1>9, <1>10 DEF Same
  <2>2. r = boxes
    BY <1>2, <1>9, <2>1 DEF Done, n
  <2>3. ASSUME NEW i \in 1 .. n, NEW j \in 1 .. n, i # j PROVE Apart(boxes[i], boxes[j])
    <3>1. boxes[i] \in IntBoxes /\ boxes[j] \in IntBoxes
      BY <1>2
    <3>2. CASE i < j
      BY <1>2, <2>1, <3>2 DEF Done
    <3>3. CASE j < i
      <4>1. Apart(boxes[j], boxes[i])
        BY <1>2, <2>1, <3>3 DEF Done
      <4> QED
        BY <3>1, <4>1, OverlapsBothWays DEF Apart
    <3> QED
      BY <1>2, <2>3, <3>2, <3>3
  <2>4. NothingToMerge(boxes, threshold)
    BY <1>2, <2>3 DEF NothingToMerge, Apart
  <2> QED
    BY <2>2, <2>4
<1>13. NothingToMerge(boxes, threshold) => Len(r) = n
  BY <1>2, <1>7, <1>8, <1>9, <1>10 DEF Full
<1> QED
  BY <1>9, <1>10, <1>11, <1>12, <1>13, Zenon DEF r, n

\* The intermediate results of merging, round by round.
LEMMA MergedRuns ==
  ASSUME NEW S, NEW threshold, Mergeable(S, threshold), NEW boxes \in Seq(S)
  PROVE  \E f \in [0 .. Len(boxes) -> Seq(S)] :
           /\ f[0] = boxes
           /\ \A i \in 1 .. Len(boxes) : f[i] = MergePass(f[i - 1], threshold)
           /\ f[Len(boxes)] = Merged(boxes, threshold)
<1> DEFINE n == Len(boxes)
           V == Seq(S)
           base == boxes
           step == [p \in V \X (1 .. n) |-> MergePass(p[1], threshold)]
           Body(g) == [t \in SUBSET (DOMAIN boxes) |->
                        IF t = {} THEN base ELSE MergePass(g[t \ {Max(t)}], threshold)]
           iter == CHOOSE g : g = Body(g)
<1>1. Merged(boxes, threshold) = iter[DOMAIN boxes]
  BY DEF Merged, FoldLeft, MapThenFoldSet
<1>2. n \in Nat /\ DOMAIN boxes = 1 .. n /\ \A i \in 1 .. n : boxes[i] \in S
  OBVIOUS
<1>3. base \in V
  OBVIOUS
<1> HIDE DEF V, n, base
<1>4. step \in [V \X (1 .. n) -> V]
  <2>1. ASSUME NEW v \in V, NEW i \in 1 .. n PROVE MergePass(v, threshold) \in V
    BY MergePassMerges DEF V
  <2> QED
    BY <2>1
<1>5. \A v \in V, i \in 1 .. n : step[<<v, i>>] = MergePass(v, threshold)
  OBVIOUS
<1> HIDE DEF step
<1>6. PICK g \in [SUBSET (1 .. n) -> V] : SolvesFold(g, n, base, step)
  BY <1>2, <1>3, <1>4, FoldExists
<1>7. g = Body(g)
  <2>1. ASSUME NEW t \in SUBSET (1 .. n), t # {}
        PROVE  g[t] = MergePass(g[t \ {Max(t)}], threshold)
    <3>1. Max(t) \in 1 .. n /\ t \ {Max(t)} \in SUBSET (1 .. n)
      BY <1>2, <2>1, MaxIn
    <3>2. g[t \ {Max(t)}] \in V
      BY <3>1
    <3> QED
      BY <1>5, <1>6, <2>1, <3>1, <3>2 DEF SolvesFold
  <2> QED
    BY <1>2, <1>6, <2>1 DEF SolvesFold
<1>8. iter = Body(iter)
  BY <1>7
<1> HIDE DEF iter
<1>9. UnfoldsIn(V, iter, n, base, step)
  <2> SUFFICES ASSUME NEW t \in SUBSET (1 .. n)
      PROVE  IF t = {} THEN iter[t] = base
             ELSE iter[t \ {Max(t)}] \in V => iter[t] = step[<<iter[t \ {Max(t)}], Max(t)>>]
    BY DEF UnfoldsIn
  <2>1. t # {} => Max(t) \in 1 .. n
    BY <1>2, MaxIn
  <2>2. iter[t] = IF t = {} THEN base ELSE MergePass(iter[t \ {Max(t)}], threshold)
    BY <1>2, <1>8
  <2> QED
    BY <1>5, <2>1, <2>2
<1>10. PICK f : RunsThrough(V, f, iter, n, base, step)
  BY <1>2, <1>3, <1>4, <1>9, FoldRuns
<1>11. \A i \in 1 .. n : f[i] = MergePass(f[i - 1], threshold)
  <2> SUFFICES ASSUME NEW i \in 1 .. n PROVE f[i] = MergePass(f[i - 1], threshold)
    OBVIOUS
  <2>1. i - 1 \in 0 .. n
    BY <1>2
  <2> QED
    BY <1>5, <1>10, <2>1 DEF RunsThrough
<1>12. \E h \in [0 .. n -> V] :
         /\ h[0] = base
         /\ \A i \in 1 .. n : h[i] = MergePass(h[i - 1], threshold)
         /\ h[n] = Merged(boxes, threshold)
  BY <1>1, <1>2, <1>10, <1>11 DEF RunsThrough
<1> QED
  BY <1>12 DEF V, n, base

\* Merging reaches its end and loses no box on the way: each is covered by one
\* of those that are left, and no two of them overlap.
LEMMA MergedMerges ==
  ASSUME NEW S, NEW threshold, Mergeable(S, threshold), NEW boxes \in Seq(S)
  PROVE  LET r == Merged(boxes, threshold) IN
         /\ r \in Seq(S) /\ Len(r) <= Len(boxes)
         /\ \A j \in 1 .. Len(boxes) : \E i \in 1 .. Len(r) : Covers(r[i], boxes[j])
         /\ NothingToMerge(r, threshold)
<1> DEFINE n == Len(boxes)
           Every(s) == \A j \in 1 .. n : \E i \in 1 .. Len(s) : Covers(s[i], boxes[j])
           Nearer(s, m) == Len(s) <= n /\ (Len(s) <= n - m \/ NothingToMerge(s, threshold))
<1>1. PICK f \in [0 .. n -> Seq(S)] :
        /\ f[0] = boxes
        /\ \A i \in 1 .. n : f[i] = MergePass(f[i - 1], threshold)
        /\ f[n] = Merged(boxes, threshold)
  BY MergedRuns
<1>2. n \in Nat /\ (\A i \in 1 .. n : boxes[i] \in S) /\ S \subseteq IntBoxes
  BY DEF Mergeable
<1> DEFINE T == {m \in 0 .. n : Every(f[m]) /\ Nearer(f[m], m)}
<1>3. 0 \in T
  <2>1. \A j \in 1 .. n : Covers(boxes[j], boxes[j])
    BY <1>2, CoversItself
  <2>2. Every(f[0]) /\ Nearer(f[0], 0) /\ 0 \in 0 .. n
    BY <1>1, <1>2, <2>1
  <2> HIDE DEF Every, Nearer
  <2> QED
    BY <2>2
<1> HIDE DEF n, Every, Nearer
<1>4. ASSUME NEW m \in 0 .. n - 1, m \in T PROVE m + 1 \in T
  <2> DEFINE s == f[m]
             r == f[m + 1]
  <2>1. m \in Nat /\ m + 1 \in 0 .. n /\ s \in Seq(S) /\ r = MergePass(s, threshold)
    <3>1. m \in Nat /\ m + 1 \in 1 .. n /\ m + 1 \in 0 .. n /\ m + 1 - 1 = m
      BY <1>2
    <3> QED
      BY <1>1, <1>2, <3>1
  <2>2. Every(s) /\ Nearer(s, m)
    BY <1>4
  <2> HIDE DEF s, r
  <2>3. /\ r \in Seq(S) /\ Len(r) <= Len(s)
        /\ \A j \in 1 .. Len(s) : \E i \in 1 .. Len(r) : Covers(r[i], s[j])
        /\ Len(r) = Len(s) => r = s /\ NothingToMerge(s, threshold)
        /\ NothingToMerge(s, threshold) => Len(r) = Len(s)
    BY <2>1, MergePassMerges
  <2>4. ASSUME NEW j \in 1 .. n PROVE \E i \in 1 .. Len(r) : Covers(r[i], boxes[j])
    <3>1. PICK k \in 1 .. Len(s) : Covers(s[k], boxes[j])
      BY <2>2 DEF Every
    <3>2. PICK i \in 1 .. Len(r) : Covers(r[i], s[k])
      BY <2>3
    <3>3. r[i] \in S /\ s[k] \in S /\ boxes[j] \in S
      <4>1. r \in Seq(S) /\ s \in Seq(S)
        BY <2>1, <2>3
      <4> QED
        BY <1>2, <4>1
    <3>4. r[i] \in IntBoxes /\ s[k] \in IntBoxes /\ boxes[j] \in IntBoxes
      BY <1>2, <3>3
    <3> QED
      BY <3>1, <3>2, <3>4, CoversThrough
  <2>5. Every(r)
    BY <2>4 DEF Every
  <2>6. Len(s) \in Nat /\ Len(r) \in Nat
    BY <2>1, <2>3
  <2>7. CASE NothingToMerge(s, threshold)
    <3>1. r = s
      BY <2>3, <2>7
    <3>2. Nearer(r, m + 1)
      BY <2>2, <2>7, <3>1 DEF Nearer
    <3> QED
      BY <2>1, <2>5, <3>2 DEF r
  <2>8. CASE ~NothingToMerge(s, threshold)
    <3>1. Len(s) <= n /\ Len(s) <= n - m
      BY <2>2, <2>8 DEF Nearer
    <3>2. Len(r) # Len(s) /\ Len(r) <= Len(s)
      BY <2>3, <2>8
    <3>3. Len(r) <= n /\ Len(r) <= n - (m + 1)
      BY <1>2, <2>1, <2>6, <3>1, <3>2
    <3>4. Nearer(r, m + 1)
      BY <3>3 DEF Nearer
    <3> QED
      BY <2>1, <2>5, <3>4 DEF r
  <2> QED
    BY <2>7, <2>8
<1> HIDE DEF T
<1>5. 0 .. n \subseteq T
  BY <1>2, <1>3, <1>4, NumbersUpTo
<1>6. n \in T
  BY <1>2, <1>5
<1> DEFINE r == Merged(boxes, threshold)
<1>7. r \in Seq(S) /\ r = f[n]
  BY <1>1, <1>2
<1>8. Every(r) /\ Nearer(r, n)
  BY <1>6, <1>7 DEF T
<1> HIDE DEF r
<1>9. NothingToMerge(r, threshold)
  <2>1. Len(r) \in Nat /\ DOMAIN r = 1 .. Len(r)
    BY <1>7
  <2>2. Len(r) <= n - n => DOMAIN r = {}
    BY <1>2, <2>1
  <2> QED
    BY <1>8, <2>2 DEF Nearer, NothingToMerge
<1>10. Len(r) <= n
  BY <1>8 DEF Nearer
<1> QED
  BY <1>7, <1>8, <1>9, <1>10, Zenon DEF Every, r, n

-----------------------------------------------------------------------------
(* Leaving things out of a sequence                                         *)

\* What Only does with one thing.
OnlyOne(left, e, keep) == IF e \in keep THEN Append(left, e) ELSE left

\* The intermediate results of Only.
LEMMA OnlyRuns ==
  ASSUME NEW S, NEW s \in Seq(S), NEW keep
  PROVE  \E f \in [0 .. Len(s) -> Seq(S)] :
           /\ f[0] = <<>>
           /\ \A i \in 1 .. Len(s) : f[i] = OnlyOne(f[i - 1], s[i], keep)
           /\ f[Len(s)] = Only(s, keep)
<1> DEFINE n == Len(s)
           V == Seq(S)
           base == <<>>
           step == [p \in V \X (1 .. n) |-> OnlyOne(p[1], s[p[2]], keep)]
           Body(g) == [t \in SUBSET (DOMAIN s) |->
                        IF t = {} THEN base ELSE OnlyOne(g[t \ {Max(t)}], s[Max(t)], keep)]
           iter == CHOOSE g : g = Body(g)
<1>1. Only(s, keep) = iter[DOMAIN s]
  BY DEF Only, FoldLeft, MapThenFoldSet, OnlyOne
<1>2. n \in Nat /\ DOMAIN s = 1 .. n /\ \A i \in 1 .. n : s[i] \in S
  OBVIOUS
<1>3. base \in V
  OBVIOUS
<1> HIDE DEF V, n, base
<1>4. step \in [V \X (1 .. n) -> V]
  <2>1. ASSUME NEW v \in V, NEW i \in 1 .. n PROVE OnlyOne(v, s[i], keep) \in V
    BY <1>2 DEF V, OnlyOne
  <2> QED
    BY <2>1
<1>5. \A v \in V, i \in 1 .. n : step[<<v, i>>] = OnlyOne(v, s[i], keep)
  OBVIOUS
<1> HIDE DEF step
<1>6. PICK g \in [SUBSET (1 .. n) -> V] : SolvesFold(g, n, base, step)
  BY <1>2, <1>3, <1>4, FoldExists
<1>7. g = Body(g)
  <2>1. ASSUME NEW t \in SUBSET (1 .. n), t # {}
        PROVE  g[t] = OnlyOne(g[t \ {Max(t)}], s[Max(t)], keep)
    <3>1. Max(t) \in 1 .. n /\ t \ {Max(t)} \in SUBSET (1 .. n)
      BY <1>2, <2>1, MaxIn
    <3>2. g[t \ {Max(t)}] \in V
      BY <3>1
    <3> QED
      BY <1>5, <1>6, <2>1, <3>1, <3>2 DEF SolvesFold
  <2> QED
    BY <1>2, <1>6, <2>1 DEF SolvesFold
<1>8. iter = Body(iter)
  BY <1>7
<1> HIDE DEF iter
<1>9. UnfoldsIn(V, iter, n, base, step)
  <2> SUFFICES ASSUME NEW t \in SUBSET (1 .. n)
      PROVE  IF t = {} THEN iter[t] = base
             ELSE iter[t \ {Max(t)}] \in V => iter[t] = step[<<iter[t \ {Max(t)}], Max(t)>>]
    BY DEF UnfoldsIn
  <2>1. t # {} => Max(t) \in 1 .. n
    BY <1>2, MaxIn
  <2>2. iter[t] = IF t = {} THEN base ELSE OnlyOne(iter[t \ {Max(t)}], s[Max(t)], keep)
    BY <1>2, <1>8
  <2> QED
    BY <1>5, <2>1, <2>2
<1>10. PICK f : RunsThrough(V, f, iter, n, base, step)
  BY <1>2, <1>3, <1>4, <1>9, FoldRuns
<1>11. \A i \in 1 .. n : f[i] = OnlyOne(f[i - 1], s[i], keep)
  <2> SUFFICES ASSUME NEW i \in 1 .. n PROVE f[i] = OnlyOne(f[i - 1], s[i], keep)
    OBVIOUS
  <2>1. i - 1 \in 0 .. n
    BY <1>2
  <2> QED
    BY <1>5, <1>10, <2>1 DEF RunsThrough
<1>12. \E h \in [0 .. n -> V] :
         /\ h[0] = base
         /\ \A i \in 1 .. n : h[i] = OnlyOne(h[i - 1], s[i], keep)
         /\ h[n] = Only(s, keep)
  BY <1>1, <1>2, <1>10, <1>11 DEF RunsThrough
<1> QED
  BY <1>12 DEF V, n, base

\* What is left is what is to be kept, each once and none left out: place k of
\* the result comes from a place of its own.
LEMMA OnlyKeeps ==
  ASSUME NEW S, NEW s \in Seq(S), NEW keep
  PROVE  /\ Only(s, keep) \in Seq(S)
         /\ \E e \in [1 .. Len(Only(s, keep)) -> 1 .. Len(s)] :
              /\ \A k \in 1 .. Len(Only(s, keep)) : Only(s, keep)[k] = s[e[k]] /\ s[e[k]] \in keep
              /\ \A k, l \in 1 .. Len(Only(s, keep)) : e[k] = e[l] => k = l
              /\ \A i \in 1 .. Len(s) : s[i] \in keep => \E k \in 1 .. Len(Only(s, keep)) : e[k] = i
<1> DEFINE n == Len(s)
           From(r, m, e) ==
             /\ e \in [1 .. Len(r) -> 1 .. m]
             /\ \A k \in 1 .. Len(r) : r[k] = s[e[k]] /\ s[e[k]] \in keep
             /\ \A k, l \in 1 .. Len(r) : e[k] = e[l] => k = l
             /\ \A i \in 1 .. m : s[i] \in keep => \E k \in 1 .. Len(r) : e[k] = i
<1>1. PICK f \in [0 .. n -> Seq(S)] :
        /\ f[0] = <<>>
        /\ \A i \in 1 .. n : f[i] = OnlyOne(f[i - 1], s[i], keep)
        /\ f[n] = Only(s, keep)
  BY OnlyRuns
<1>2. n \in Nat /\ \A i \in 1 .. n : s[i] \in S
  OBVIOUS
<1> DEFINE T == {m \in 0 .. n : \E e : From(f[m], m, e)}
<1>3. 0 \in T
  <2> DEFINE e == [k \in 1 .. 0 |-> 1]
  <2>1. Len(f[0]) = 0 /\ 1 .. 0 = {}
    BY <1>1
  <2>2. From(f[0], 0, e)
    BY <2>1
  <2>3. 0 \in 0 .. n
    BY <1>2
  <2> HIDE DEF From, e
  <2> QED
    BY <2>2, <2>3
<1> HIDE DEF n
<1>4. ASSUME NEW m \in 0 .. n - 1, m \in T PROVE m + 1 \in T
  <2>1. m \in Nat /\ m \in 0 .. n /\ m + 1 \in 1 .. n /\ m + 1 \in 0 .. n /\ m + 1 - 1 = m
    BY <1>2
  <2>2. f[m + 1] = OnlyOne(f[m], s[m + 1], keep) /\ f[m] \in Seq(S) /\ f[m + 1] \in Seq(S)
        /\ s[m + 1] \in S
    BY <1>1, <1>2, <2>1
  <2>3. PICK e : From(f[m], m, e)
    BY <1>4
  <2> DEFINE a == f[m]
             b == f[m + 1]
             x == s[m + 1]
             l == Len(a)
             g == [k \in 1 .. l + 1 |-> IF k = l + 1 THEN m + 1 ELSE e[k]]
  <2>4. l \in Nat
    BY <2>2
  <2>5. CASE x \in keep
    <3>1. b = Append(a, x)
      BY <2>2, <2>5 DEF OnlyOne
    <3>2. Len(b) = l + 1 /\ b[l + 1] = x /\ \A k \in 1 .. l : b[k] = a[k]
      BY <2>2, <3>1
    <3>3. g \in [1 .. l + 1 -> 1 .. m + 1] /\ g[l + 1] = m + 1
          /\ \A k \in 1 .. l : g[k] = e[k] /\ e[k] \in 1 .. m
      <4>1. e \in [1 .. l -> 1 .. m] /\ \A k \in 1 .. l : e[k] \in 1 .. m
        BY <2>3
      <4>2. \A k \in 1 .. l + 1 : k # l + 1 => k \in 1 .. l
        BY <2>4
      <4> HIDE DEF a, b, x, l
      <4> QED
        BY <2>1, <2>4, <4>1, <4>2
    <3> HIDE DEF a, b, x, l, g
    <3>4. \A k \in 1 .. l + 1 : k = l + 1 \/ k \in 1 .. l
      BY <2>4
    <3>5. \A k \in 1 .. l + 1 : b[k] = s[g[k]] /\ s[g[k]] \in keep
      BY <2>3, <2>5, <3>2, <3>3, <3>4 DEF a, x, l
    <3>6. \A k, j \in 1 .. l + 1 : g[k] = g[j] => k = j
      <4> SUFFICES ASSUME NEW k \in 1 .. l + 1, NEW j \in 1 .. l + 1, g[k] = g[j] PROVE k = j
        OBVIOUS
      <4>1. \A i \in 1 .. l : g[i] # m + 1
        BY <2>1, <3>3
      <4>2. CASE k \in 1 .. l /\ j \in 1 .. l
        BY <2>3, <3>3, <4>2 DEF a, l
      <4> QED
        BY <3>3, <3>4, <4>1, <4>2
    <3>7. \A i \in 1 .. m + 1 : s[i] \in keep => \E k \in 1 .. l + 1 : g[k] = i
      <4> SUFFICES ASSUME NEW i \in 1 .. m + 1, s[i] \in keep
                   PROVE  \E k \in 1 .. l + 1 : g[k] = i
        OBVIOUS
      <4>1. l + 1 \in 1 .. l + 1 /\ \A k \in 1 .. l : k \in 1 .. l + 1
        BY <2>4
      <4>2. i = m + 1 \/ i \in 1 .. m
        BY <2>1
      <4>3. CASE i \in 1 .. m
        <5>1. PICK k \in 1 .. l : e[k] = i
          BY <2>3, <4>3 DEF a, l
        <5> QED
          BY <3>3, <4>1, <5>1
      <4> QED
        BY <3>3, <4>1, <4>2, <4>3
    <3>8. From(b, m + 1, g)
      BY <3>2, <3>3, <3>5, <3>6, <3>7
    <3> HIDE DEF From
    <3>9. \E h : From(f[m + 1], m + 1, h)
      BY <3>8 DEF b
    <3> QED
      BY <2>1, <3>9
  <2>6. CASE x \notin keep
    <3>1. b = a
      BY <2>2, <2>6 DEF OnlyOne
    <3>2. e \in [1 .. l -> 1 .. m + 1]
      BY <2>1, <2>3
    <3>3. \A i \in 1 .. m + 1 : s[i] \in keep => i \in 1 .. m
      BY <2>1, <2>6
    <3>4. From(b, m + 1, e)
      BY <2>3, <3>1, <3>2, <3>3
    <3> HIDE DEF From
    <3>5. \E h : From(f[m + 1], m + 1, h)
      BY <3>4
    <3> QED
      BY <2>1, <3>5
  <2> QED
    BY <2>5, <2>6
<1> HIDE DEF T
<1>5. n \in T
  <2>1. 0 .. n \subseteq T
    BY <1>2, <1>3, <1>4, NumbersUpTo
  <2> QED
    BY <1>2, <2>1
<1> DEFINE r == Only(s, keep)
<1>6. PICK e : From(r, n, e)
  <2>1. \E e : From(f[n], n, e)
    BY <1>5 DEF T
  <2> QED
    BY <1>1, <2>1
<1>7. r \in Seq(S)
  BY <1>1, <1>2
<1> HIDE DEF r
<1>8. /\ e \in [1 .. Len(r) -> 1 .. n]
      /\ \A k \in 1 .. Len(r) : r[k] = s[e[k]] /\ s[e[k]] \in keep
      /\ \A k, l \in 1 .. Len(r) : e[k] = e[l] => k = l
      /\ \A i \in 1 .. n : s[i] \in keep => \E k \in 1 .. Len(r) : e[k] = i
  BY <1>6
<1>9. \E d \in [1 .. Len(r) -> 1 .. n] :
        /\ \A k \in 1 .. Len(r) : r[k] = s[d[k]] /\ s[d[k]] \in keep
        /\ \A k, l \in 1 .. Len(r) : d[k] = d[l] => k = l
        /\ \A i \in 1 .. n : s[i] \in keep => \E k \in 1 .. Len(r) : d[k] = i
  BY <1>8, Zenon
<1> QED
  BY <1>7, <1>9, Zenon DEF r, n

-----------------------------------------------------------------------------
(* Boxes on the screen, and around them                                     *)

ScreenBoxes == {b \in IntBoxes : b.width >= 0 /\ b.height >= 0 /\ OnScreen(b)}

LEMMA BoxOnScreen ==
  ASSUME NEW b, IsBox(b), OnScreen(b)
  PROVE  b \in ScreenBoxes
<1>1. b.x \in Int /\ b.y \in Int /\ b.width \in Nat /\ b.height \in Nat
  BY DEF IsBox
<1>2. Box(b.x, b.y, b.width, b.height) \in IntBoxes
  BY <1>1 DEF Box, IntBoxes
<1>3. b \in IntBoxes
  BY <1>2 DEF IsBox
<1> QED
  BY <1>1, <1>3 DEF ScreenBoxes

LEMMA UnitedOnScreen ==
  ASSUME NEW b \in ScreenBoxes, NEW c \in ScreenBoxes
  PROVE  United(b, c) \in ScreenBoxes
<1>1. United(b, c) \in IntBoxes /\ OnScreen(United(b, c))
  BY UnitedIsAround DEF ScreenBoxes
<1>2. United(b, c).width >= 0 /\ United(b, c).height >= 0
  BY DEF ScreenBoxes, IntBoxes, United, Box, Least, Greatest, Right, Bottom
<1> QED
  BY <1>1, <1>2 DEF ScreenBoxes

LEMMA BoxesMerge ==
  ASSUME NEW threshold
  PROVE  Mergeable(IntBoxes, threshold) /\ Mergeable(ScreenBoxes, threshold)
<1>1. Mergeable(IntBoxes, threshold)
  BY UnitedIsAround DEF Mergeable
<1>2. ScreenBoxes \subseteq IntBoxes
  BY DEF ScreenBoxes
<1> QED
  BY <1>1, <1>2, UnitedOnScreen DEF Mergeable

\* Boxes that are on the screen if there is anything of them.
VisibleBoxes ==
  {b \in IntBoxes : /\ b.x >= 0 /\ b.y >= 0 /\ b.width >= 0 /\ b.height >= 0
                    /\ b.width > 0 /\ b.height > 0 => OnScreen(b)}

\* Two boxes that overlap have an area, both of them.
LEMMA OverlapsHaveArea ==
  ASSUME NEW b \in VisibleBoxes, NEW c \in VisibleBoxes, NEW threshold \in Nat,
         Overlaps(b, c, threshold)
  PROVE  b.width > 0 /\ b.height > 0 /\ c.width > 0 /\ c.height > 0
<1> DEFINE w == Least(Right(b), Right(c)) - Greatest(b.x, c.x)
           h == Least(Bottom(b), Bottom(c)) - Greatest(b.y, c.y)
           u == Area(b) + Area(c) - Intersection(b, c)
<1>1. /\ b.x \in Int /\ b.y \in Int /\ b.width \in Nat /\ b.height \in Nat
      /\ c.x \in Int /\ c.y \in Int /\ c.width \in Nat /\ c.height \in Nat
  BY DEF VisibleBoxes, IntBoxes
<1>2. w \in Int /\ h \in Int
  BY <1>1 DEF Right, Bottom, Least, Greatest
<1>3. w > 0 => b.width > 0 /\ c.width > 0
  BY <1>1 DEF Right, Least, Greatest
<1>4. h > 0 => b.height > 0 /\ c.height > 0
  BY <1>1 DEF Bottom, Least, Greatest
<1>5. Intersection(b, c) = Greatest(0, w) * Greatest(0, h)
  BY DEF Intersection
<1> HIDE DEF w, h
<1>6. Greatest(0, w) \in Nat /\ Greatest(0, h) \in Nat
      /\ (w <= 0 => Greatest(0, w) = 0) /\ (h <= 0 => Greatest(0, h) = 0)
  BY <1>2 DEF Greatest
<1>7. Intersection(b, c) \in Nat /\ (w <= 0 \/ h <= 0 => Intersection(b, c) = 0)
  BY <1>5, <1>6
<1>8. u \in Int
  BY <1>1, <1>7 DEF Area
<1>9. u > 0 /\ 100 * Intersection(b, c) > threshold * u
  BY DEF Overlaps
<1> HIDE DEF u
<1>10. threshold * u >= 0
  BY <1>8, <1>9
<1>11. threshold * u \in Int
  BY <1>8
<1>12. Intersection(b, c) > 0
  BY <1>7, <1>9, <1>10, <1>11
<1> QED
  BY <1>2, <1>3, <1>4, <1>7, <1>12

LEMMA VisibleMerge ==
  ASSUME NEW threshold \in Nat
  PROVE  Mergeable(VisibleBoxes, threshold)
<1>1. VisibleBoxes \subseteq IntBoxes
  BY DEF VisibleBoxes
<1>2. ASSUME NEW b \in VisibleBoxes, NEW c \in VisibleBoxes, Overlaps(b, c, threshold)
      PROVE  United(b, c) \in VisibleBoxes
  <2>1. b.width > 0 /\ b.height > 0 /\ c.width > 0 /\ c.height > 0
    BY <1>2, OverlapsHaveArea
  <2>2. b \in ScreenBoxes /\ c \in ScreenBoxes
    BY <2>1 DEF VisibleBoxes, ScreenBoxes
  <2>3. United(b, c) \in ScreenBoxes
    BY <2>2, UnitedOnScreen
  <2> QED
    BY <2>3 DEF ScreenBoxes, VisibleBoxes, OnScreen
<1> QED
  BY <1>1, <1>2 DEF Mergeable

\* How far a side moves outward.
LEMMA Outward ==
  ASSUME NEW side \in Nat, NEW ratio \in Int
  PROVE  /\ (side * ratio) \div 200 \in Int
         /\ ratio >= 0 => (side * ratio) \div 200 >= 0
<1> DEFINE p == side * ratio
<1>1. p \in Int
  OBVIOUS
<1>2. ratio >= 0 => p >= 0
  OBVIOUS
<1> HIDE DEF p
<1>3. p \div 200 \in Int /\ (p >= 0 => p \div 200 >= 0)
  BY <1>1
<1> QED
  BY <1>2, <1>3 DEF p

\* What is left of a padded box is on the screen, and covers what was padded
\* unless something is taken away.
LEMMA ExpandedIsAround ==
  ASSUME NEW b \in ScreenBoxes, NEW ratio \in Int
  PROVE  /\ Expanded(b, ratio) \in IntBoxes
         /\ Expanded(b, ratio) \in VisibleBoxes
         /\ ratio >= 0 => Expanded(b, ratio) \in ScreenBoxes /\ Covers(Expanded(b, ratio), b)
<1> DEFINE dw == (b.width * ratio) \div 200
           dh == (b.height * ratio) \div 200
           x1 == Greatest(0, b.x - dw)
           y1 == Greatest(0, b.y - dh)
           w == Greatest(0, Least(One, Right(b) + dw) - x1)
           h == Greatest(0, Least(One, Bottom(b) + dh) - y1)
<1>1. /\ b.x \in Int /\ b.y \in Int /\ b.width \in Nat /\ b.height \in Nat
      /\ b.x >= 0 /\ b.y >= 0 /\ b.x + b.width <= One /\ b.y + b.height <= One
      /\ Right(b) = b.x + b.width /\ Bottom(b) = b.y + b.height /\ One \in Nat
  BY OneAssumption DEF ScreenBoxes, IntBoxes, OnScreen, Right, Bottom
<1>2. Expanded(b, ratio) = [x |-> x1, y |-> y1, width |-> w, height |-> h]
  BY DEF Expanded, Box
<1>3. /\ dw \in Int /\ dh \in Int
      /\ ratio >= 0 => dw >= 0 /\ dh >= 0
  BY <1>1, Outward, ZenonT(40)
<1> HIDE DEF dw, dh
<1>4. /\ x1 \in Int /\ y1 \in Int /\ w \in Int /\ h \in Int
      /\ x1 >= 0 /\ y1 >= 0 /\ w >= 0 /\ h >= 0
  BY <1>1, <1>3 DEF Greatest, Least
<1>5. ratio >= 0 \/ w > 0 => x1 + w <= One
  BY <1>1, <1>3 DEF Greatest, Least
<1>6. ratio >= 0 \/ h > 0 => y1 + h <= One
  BY <1>1, <1>3 DEF Greatest, Least
<1>7. ratio >= 0 => x1 <= b.x /\ b.x + b.width <= x1 + w
  BY <1>1, <1>3 DEF Greatest, Least
<1>8. ratio >= 0 => y1 <= b.y /\ b.y + b.height <= y1 + h
  BY <1>1, <1>3 DEF Greatest, Least
<1> HIDE DEF x1, y1, w, h
<1>9. Expanded(b, ratio) \in IntBoxes
  BY <1>2, <1>4 DEF IntBoxes
<1>10. ratio >= 0 => Expanded(b, ratio) \in ScreenBoxes
  BY <1>2, <1>4, <1>5, <1>6, <1>9 DEF ScreenBoxes, OnScreen, Right, Bottom
<1>11. Expanded(b, ratio) \in VisibleBoxes
  BY <1>2, <1>4, <1>5, <1>6, <1>9 DEF VisibleBoxes, OnScreen, Right, Bottom
<1> QED
  BY <1>1, <1>2, <1>7, <1>8, <1>9, <1>10, <1>11 DEF Covers, Right, Bottom

-----------------------------------------------------------------------------
(* The smoothing tracker                                                    *)

TrackedBoxes == [box : ScreenBoxes, time : Times]

DetectionRecords == [region : Detections, time : Times, call : 1 .. MaxCalls]

LEMMA FirstOf ==
  ASSUME NEW T, T \subseteq Nat, T # {}
  PROVE  (CHOOSE i \in T : \A j \in T : i <= j) \in T
<1>1. \E i \in T : \A j \in T : i <= j
  BY LeastNumber
<1> QED
  BY <1>1, Zenon

\* A detection becomes a box of its own, or a box that it overlaps takes it in.
LEMMA IngestCases ==
  ASSUME NEW boxes \in Seq(TrackedBoxes), NEW det, NEW t
  PROVE  \/ Ingest(boxes, det, t) = Append(boxes, Tracked(det, t))
         \/ \E i \in 1 .. Len(boxes) :
              Ingest(boxes, det, t) = [boxes EXCEPT ![i] = Tracked(United(boxes[i].box, det), t)]
<1> DEFINE matches == {i \in DOMAIN boxes : Overlaps(boxes[i].box, det, tracker.threshold)}
           first == CHOOSE i \in matches : \A j \in matches : i <= j
<1>1. Ingest(boxes, det, t) =
        IF matches = {} THEN Append(boxes, Tracked(det, t))
        ELSE [boxes EXCEPT ![first] = Tracked(United(boxes[first].box, det), t)]
  BY DEF Ingest
<1>2. matches \subseteq 1 .. Len(boxes)
  OBVIOUS
<1>3. matches # {} => first \in matches
  <2>1. matches \subseteq Nat
    BY <1>2
  <2> HIDE DEF matches
  <2> QED
    BY <2>1, FirstOf
<1> HIDE DEF matches, first
<1> QED
  BY <1>1, <1>2, <1>3

\* What the tracker owes to the detections D: each is covered by a box that was
\* seen no earlier, and each box was last seen with one of them.
Owed(boxes, D) ==
  \A d \in D : \E i \in 1 .. Len(boxes) :
    Covers(boxes[i].box, d.region) /\ d.time <= boxes[i].time

StandsFor(boxes, D, h) ==
  /\ h \in [1 .. Len(boxes) -> D]
  /\ \A i \in 1 .. Len(boxes) : h[i].time = boxes[i].time /\ Covers(boxes[i].box, h[i].region)
  /\ \A i, j \in 1 .. Len(boxes) : h[i] = h[j] => i = j

NotAfter(boxes, t) == \A i \in 1 .. Len(boxes) : boxes[i].time <= t

LEMMA IngestKeeps ==
  ASSUME NEW boxes \in Seq(TrackedBoxes), NEW det \in Detections, NEW t \in Times,
         NEW D \in SUBSET DetectionRecords, NEW d \in DetectionRecords, d \notin D,
         d.region = det, d.time = t, NotAfter(boxes, t), Owed(boxes, D),
         NEW h, StandsFor(boxes, D, h)
  PROVE  /\ Ingest(boxes, det, t) \in Seq(TrackedBoxes)
         /\ NotAfter(Ingest(boxes, det, t), t)
         /\ Owed(Ingest(boxes, det, t), D \cup {d})
         /\ \E g : StandsFor(Ingest(boxes, det, t), D \cup {d}, g)
<1> DEFINE n == Len(boxes)
           r == Ingest(boxes, det, t)
<1>1. n \in Nat /\ \A i \in 1 .. n : boxes[i].box \in ScreenBoxes /\ boxes[i].time \in Times
  <2>1. \A i \in 1 .. n : boxes[i] \in TrackedBoxes
    OBVIOUS
  <2> HIDE DEF n
  <2>2. \A b \in TrackedBoxes : b.box \in ScreenBoxes /\ b.time \in Times
    BY DEF TrackedBoxes
  <2> QED
    BY <2>1, <2>2 DEF n
<1>2. det \in ScreenBoxes /\ ScreenBoxes \subseteq IntBoxes /\ t \in Int /\ Times \subseteq Int
  <2>1. det \in ScreenBoxes
    BY DetectionsAssumption, BoxOnScreen
  <2>2. ScreenBoxes \subseteq IntBoxes
    BY DEF ScreenBoxes
  <2> QED
    BY <2>1, <2>2, TimesAssumption
<1>3. Covers(det, det)
  BY <1>2, CoversItself
<1>4. \A e \in D : e.region \in ScreenBoxes /\ e.time \in Times
  BY DetectionsAssumption, BoxOnScreen DEF DetectionRecords
<1>5. CASE r = Append(boxes, Tracked(det, t))
  <2>1. /\ Len(r) = n + 1 /\ r[n + 1] = Tracked(det, t)
        /\ \A i \in 1 .. n : r[i] = boxes[i]
        /\ \A i \in 1 .. n + 1 : i = n + 1 \/ i \in 1 .. n
        /\ n + 1 \in 1 .. n + 1 /\ \A i \in 1 .. n : i \in 1 .. n + 1
    BY <1>1, <1>5
  <2>2. Tracked(det, t) \in TrackedBoxes /\ Tracked(det, t).box = det /\ Tracked(det, t).time = t
    BY <1>2 DEF Tracked, TrackedBoxes
  <2>3. r \in Seq(TrackedBoxes)
    BY <1>5, <2>2
  <2> HIDE DEF r, n
  <2>4. NotAfter(r, t)
    BY <1>2, <2>1, <2>2 DEF NotAfter, n
  <2>5. Owed(r, D \cup {d})
    <3> SUFFICES ASSUME NEW e \in D \cup {d}
                 PROVE  \E i \in 1 .. n + 1 : Covers(r[i].box, e.region) /\ e.time <= r[i].time
      BY <2>1 DEF Owed
    <3>1. CASE e = d
      BY <1>2, <1>3, <2>1, <2>2, <3>1
    <3>2. CASE e \in D
      <4>1. PICK i \in 1 .. n : Covers(boxes[i].box, e.region) /\ e.time <= boxes[i].time
        BY <3>2 DEF Owed, n
      <4> QED
        BY <2>1, <4>1
    <3> QED
      BY <3>1, <3>2
  <2> DEFINE g == [i \in 1 .. n + 1 |-> IF i = n + 1 THEN d ELSE h[i]]
  <2>6. StandsFor(r, D \cup {d}, g)
    <3>1. g[n + 1] = d /\ \A i \in 1 .. n : g[i] = h[i] /\ h[i] \in D
      BY <1>1, <2>1 DEF StandsFor, n
    <3>2. g \in [1 .. n + 1 -> D \cup {d}]
      BY <2>1, <3>1
    <3> HIDE DEF g
    <3>3. \A i \in 1 .. n + 1 : g[i].time = r[i].time /\ Covers(r[i].box, g[i].region)
      BY <1>3, <2>1, <2>2, <3>1 DEF StandsFor, n
    <3>4. \A i, j \in 1 .. n + 1 : g[i] = g[j] => i = j
      BY <2>1, <3>1 DEF StandsFor, n
    <3> QED
      BY <2>1, <3>2, <3>3, <3>4 DEF StandsFor
  <2> QED
    BY <2>3, <2>4, <2>5, <2>6 DEF r
<1>6. ASSUME NEW k \in 1 .. n, r = [boxes EXCEPT ![k] = Tracked(United(boxes[k].box, det), t)]
      PROVE  r \in Seq(TrackedBoxes) /\ NotAfter(r, t) /\ Owed(r, D \cup {d})
             /\ \E g : StandsFor(r, D \cup {d}, g)
  <2> DEFINE u == United(boxes[k].box, det)
  <2>1. /\ u \in ScreenBoxes /\ Covers(u, boxes[k].box) /\ Covers(u, det)
    BY <1>1, <1>2, UnitedIsAround, UnitedOnScreen
  <2>2. Tracked(u, t) \in TrackedBoxes /\ Tracked(u, t).box = u /\ Tracked(u, t).time = t
    BY <2>1 DEF Tracked, TrackedBoxes
  <2> HIDE DEF u
  <2>3. r = [boxes EXCEPT ![k] = Tracked(u, t)]
    BY <1>6 DEF u
  <2>4. r \in Seq(TrackedBoxes) /\ Len(r) = n /\ r[k] = Tracked(u, t)
        /\ \A i \in 1 .. n : i # k => r[i] = boxes[i]
    BY <1>1, <2>2, <2>3
  <2> HIDE DEF r, n
  <2>5. NotAfter(r, t)
    <3> SUFFICES ASSUME NEW i \in 1 .. n PROVE r[i].time <= t
      BY <2>4 DEF NotAfter
    <3>1. CASE i = k
      BY <1>2, <2>2, <2>4, <3>1
    <3>2. CASE i # k
      BY <2>4, <3>2 DEF NotAfter, n
    <3> QED
      BY <3>1, <3>2
  <2>6. Owed(r, D \cup {d})
    <3> SUFFICES ASSUME NEW e \in D \cup {d}
                 PROVE  \E i \in 1 .. n : Covers(r[i].box, e.region) /\ e.time <= r[i].time
      BY <2>4 DEF Owed
    <3>1. CASE e = d
      <4>1. Covers(r[k].box, e.region) /\ e.time <= r[k].time
        BY <1>2, <2>1, <2>2, <2>4, <3>1
      <4> QED
        BY <4>1
    <3>2. CASE e \in D
      <4>1. PICK i \in 1 .. n : Covers(boxes[i].box, e.region) /\ e.time <= boxes[i].time
        BY <3>2 DEF Owed, n
      <4>2. CASE i # k
        BY <2>4, <4>1, <4>2
      <4>3. CASE i = k
        <5>1. Covers(u, e.region)
          <6>1. u \in IntBoxes /\ boxes[k].box \in IntBoxes /\ e.region \in IntBoxes
            BY <1>1, <1>2, <1>4, <2>1, <3>2
          <6> QED
            BY <2>1, <4>1, <4>3, <6>1, CoversThrough
        <5>2. e.time <= t
          <6>1. e.time \in Int /\ boxes[k].time \in Int /\ boxes[k].time <= t
            BY <1>1, <1>2, <1>4, <3>2 DEF NotAfter, n
          <6> QED
            BY <1>2, <4>1, <4>3, <6>1
        <5> QED
          BY <2>2, <2>4, <5>1, <5>2
      <4> QED
        BY <4>2, <4>3
    <3> QED
      BY <3>1, <3>2
  <2> DEFINE g == [i \in 1 .. n |-> IF i = k THEN d ELSE h[i]]
  <2>7. StandsFor(r, D \cup {d}, g)
    <3>1. g[k] = d /\ (\A i \in 1 .. n : i # k => g[i] = h[i]) /\ \A i \in 1 .. n : h[i] \in D
      BY DEF StandsFor, n
    <3>2. g \in [1 .. n -> D \cup {d}]
      BY <3>1
    <3> HIDE DEF g
    <3>3. ASSUME NEW i \in 1 .. n
          PROVE  g[i].time = r[i].time /\ Covers(r[i].box, g[i].region)
      <4>1. CASE i = k
        BY <2>1, <2>2, <2>4, <3>1, <4>1
      <4>2. CASE i # k
        BY <2>4, <3>1, <4>2 DEF StandsFor, n
      <4> QED
        BY <4>1, <4>2
    <3>4. \A i, j \in 1 .. n : g[i] = g[j] => i = j
      BY <3>1 DEF StandsFor, n
    <3> QED
      BY <2>4, <3>2, <3>3, <3>4 DEF StandsFor
  <2> QED
    BY <2>4, <2>5, <2>6, <2>7
<1> HIDE DEF n, r
<1>7. r = Append(boxes, Tracked(det, t))
      \/ \E k \in 1 .. n : r = [boxes EXCEPT ![k] = Tracked(United(boxes[k].box, det), t)]
  BY IngestCases DEF n, r
<1> QED
  BY <1>5, <1>6, <1>7 DEF r

LEMMA TimesAreNumbers == Times \subseteq Int /\ \A d \in DetectionRecords : d.time \in Int
<1>1. Times \subseteq Int
  BY TimesAssumption
<1>2. \A d \in DetectionRecords : d.time \in Times
  BY DEF DetectionRecords
<1> QED
  BY <1>1, <1>2

\* What is alive at a time stands for what is still within the window, whether
\* the clock went on or was set back.
LEMMA AliveStands ==
  ASSUME tracked_boxes_ \in Seq(TrackedBoxes), detections \in SUBSET DetectionRecords,
         NotAfter(tracked_boxes_, now), Owed(tracked_boxes_, detections),
         NEW h, StandsFor(tracked_boxes_, detections, h),
         NEW t \in Times, now \in Int, tracker.window \in Int
  PROVE  /\ Alive(t) \in Seq(TrackedBoxes) /\ NotAfter(Alive(t), t)
         /\ Owed(Alive(t), StillWithin(t))
         /\ \E g : StandsFor(Alive(t), StillWithin(t), g)
<1> DEFINE s == tracked_boxes_
           n == Len(s)
           Lives(b) == t >= b.time /\ t - b.time < tracker.window
           keep == {b \in ToSet(s) : Lives(b)}
           a == Alive(t)
           m == Len(a)
<1>1. a = Only(s, keep)
  BY DEF Alive
<1>2. n \in Nat /\ DOMAIN s = 1 .. n /\ \A i \in 1 .. n : s[i] \in TrackedBoxes
  OBVIOUS
<1>3. \A i \in 1 .. n : s[i].box \in ScreenBoxes /\ s[i].time \in Times
  <2>1. \A b \in TrackedBoxes : b.box \in ScreenBoxes /\ b.time \in Times
    BY DEF TrackedBoxes
  <2> QED
    BY <1>2, <2>1
<1>4. \A i \in 1 .. n : s[i] \in keep <=> Lives(s[i])
  BY <1>2 DEF ToSet
<1> HIDE DEF keep
<1>5. a \in Seq(TrackedBoxes)
  BY <1>1, OnlyKeeps
<1>6. PICK e \in [1 .. m -> 1 .. n] :
        /\ \A k \in 1 .. m : a[k] = s[e[k]] /\ s[e[k]] \in keep
        /\ \A k, l \in 1 .. m : e[k] = e[l] => k = l
        /\ \A i \in 1 .. n : s[i] \in keep => \E k \in 1 .. m : e[k] = i
  <2>1. \E e \in [1 .. Len(Only(s, keep)) -> 1 .. Len(s)] :
          /\ \A k \in 1 .. Len(Only(s, keep)) : Only(s, keep)[k] = s[e[k]] /\ s[e[k]] \in keep
          /\ \A k, l \in 1 .. Len(Only(s, keep)) : e[k] = e[l] => k = l
          /\ \A i \in 1 .. Len(s) : s[i] \in keep => \E k \in 1 .. Len(Only(s, keep)) : e[k] = i
    <3> HIDE DEF s
    <3>1. s \in Seq(TrackedBoxes)
      BY DEF s
    <3> QED
      BY <3>1, OnlyKeeps, SMTT(40)
  <2> HIDE DEF a
  <2> QED
    BY <1>1, <2>1, ZenonT(40)
<1>7. m \in Nat /\ DOMAIN a = 1 .. m /\ \A k \in 1 .. m : e[k] \in 1 .. n
  BY <1>5, <1>6
<1>8. \A k \in 1 .. m : a[k] = s[e[k]] /\ Lives(s[e[k]])
  BY <1>4, <1>6, <1>7
<1>9. \A d \in detections : d.time \in Int
  BY TimesAreNumbers
<1>10. t \in Int /\ \A i \in 1 .. n : s[i].time \in Int
  <2>1. Times \subseteq Int
    BY TimesAssumption
  <2> HIDE DEF s, n
  <2> QED
    BY <1>3, <2>1
<1>11. \A d \in StillWithin(t) :
         /\ d \in detections /\ t >= d.time /\ t - d.time < tracker.window
         /\ t >= now \/ \E i \in 1 .. m : Covers(a[i].box, d.region) /\ a[i].time >= d.time
  BY <1>7 DEF StillWithin
<1>12. ASSUME NEW d \in detections, t >= d.time, t - d.time < tracker.window,
              t >= now \/ \E i \in 1 .. m : Covers(a[i].box, d.region) /\ a[i].time >= d.time
       PROVE  d \in StillWithin(t)
  BY <1>7, <1>12 DEF StillWithin
<1> HIDE DEF a, n, m, s
<1>13. NotAfter(a, t)
  BY <1>7, <1>8, <1>10 DEF NotAfter, m
<1>14. Owed(a, StillWithin(t))
  <2> SUFFICES ASSUME NEW d \in StillWithin(t)
               PROVE  \E k \in 1 .. m : Covers(a[k].box, d.region) /\ d.time <= a[k].time
    BY DEF Owed, m
  <2>1. CASE t >= now
    <3>1. PICK i \in 1 .. n : Covers(s[i].box, d.region) /\ d.time <= s[i].time
      BY <1>11 DEF Owed, n, s
    <3>2. s[i].time <= now
      BY <3>1 DEF NotAfter, n, s
    <3>3. Lives(s[i])
      BY <1>9, <1>10, <1>11, <2>1, <3>1, <3>2
    <3>4. PICK k \in 1 .. m : e[k] = i
      BY <1>4, <1>6, <3>3
    <3>5. a[k] = s[i]
      BY <1>6, <3>4
    <3> QED
      BY <3>1, <3>4, <3>5
  <2>2. CASE ~(t >= now)
    <3>1. PICK k \in 1 .. m : Covers(a[k].box, d.region) /\ a[k].time >= d.time
      BY <1>11, <2>2
    <3>2. a[k].time \in Int /\ d.time \in Int
      BY <1>7, <1>8, <1>9, <1>10, <1>11
    <3> QED
      BY <3>1, <3>2
  <2> QED
    BY <2>1, <2>2
<1>15. \A i \in 1 .. n : /\ h[i] \in detections /\ h[i].time = s[i].time
                         /\ Covers(s[i].box, h[i].region)
  BY DEF StandsFor, n, s
<1> DEFINE g == [k \in 1 .. m |-> h[e[k]]]
<1>16. StandsFor(a, StillWithin(t), g)
  <2>1. \A k \in 1 .. m : g[k] = h[e[k]]
    OBVIOUS
  <2>2. \A k \in 1 .. m : g[k].time = a[k].time /\ Covers(a[k].box, g[k].region)
    BY <1>7, <1>8, <1>15, <2>1
  <2>3. ASSUME NEW k \in 1 .. m PROVE g[k] \in StillWithin(t)
    <3>1. g[k] \in detections /\ g[k].time = a[k].time /\ a[k] = s[e[k]] /\ Lives(s[e[k]])
      BY <1>7, <1>8, <1>15, <2>1, <2>2
    <3>2. a[k].time \in Int
      BY <1>7, <1>10, <3>1
    <3>3. Covers(a[k].box, g[k].region) /\ a[k].time >= g[k].time
      BY <2>2, <3>1, <3>2
    <3>4. t >= g[k].time /\ t - g[k].time < tracker.window
      BY <3>1
    <3> HIDE DEF g
    <3> QED
      BY <1>12, <3>1, <3>3, <3>4
  <2>4. g \in [1 .. m -> StillWithin(t)]
    BY <2>3
  <2> HIDE DEF g
  <2>5. \A k, l \in 1 .. m : g[k] = g[l] => k = l
    <3>1. \A i, j \in 1 .. n : h[i] = h[j] => i = j
      BY DEF StandsFor, n, s
    <3> QED
      BY <1>6, <1>7, <2>1, <3>1
  <2> QED
    BY <2>2, <2>4, <2>5 DEF StandsFor, m
<1> QED
  BY <1>5, <1>13, <1>14, <1>16 DEF a

LEMMA IngestType ==
  ASSUME NEW boxes \in Seq(TrackedBoxes), NEW det \in Detections, NEW t \in Times
  PROVE  Ingest(boxes, det, t) \in Seq(TrackedBoxes)
<1>1. det \in ScreenBoxes /\ ScreenBoxes \subseteq IntBoxes
  <2>1. det \in ScreenBoxes
    BY DetectionsAssumption, BoxOnScreen
  <2>2. ScreenBoxes \subseteq IntBoxes
    BY DEF ScreenBoxes
  <2> QED
    BY <2>1, <2>2
<1>2. \A b \in ScreenBoxes : Tracked(b, t) \in TrackedBoxes
  BY DEF Tracked, TrackedBoxes
<1>3. \A b \in TrackedBoxes : b.box \in ScreenBoxes
  BY DEF TrackedBoxes
<1>4. CASE Ingest(boxes, det, t) = Append(boxes, Tracked(det, t))
  BY <1>1, <1>2, <1>4
<1>5. ASSUME NEW i \in 1 .. Len(boxes),
             Ingest(boxes, det, t) = [boxes EXCEPT ![i] = Tracked(United(boxes[i].box, det), t)]
      PROVE  Ingest(boxes, det, t) \in Seq(TrackedBoxes)
  <2>1. boxes[i].box \in ScreenBoxes
    BY <1>3
  <2>2. Tracked(United(boxes[i].box, det), t) \in TrackedBoxes
    BY <1>1, <1>2, <2>1, UnitedOnScreen
  <2> QED
    BY <1>5, <2>2
<1> QED
  BY <1>4, <1>5, IngestCases

\* The intermediate results of taking detections in.
LEMMA ProcessedRuns ==
  ASSUME NEW dets \in Seq(Detections), NEW at \in Times, Alive(at) \in Seq(TrackedBoxes)
  PROVE  \E f \in [0 .. Len(dets) -> Seq(TrackedBoxes)] :
           /\ f[0] = Alive(at)
           /\ \A i \in 1 .. Len(dets) : f[i] = Ingest(f[i - 1], dets[i], at)
           /\ f[Len(dets)] = Processed(dets, at)
<1> DEFINE n == Len(dets)
           V == Seq(TrackedBoxes)
           base == Alive(at)
           step == [p \in V \X (1 .. n) |-> Ingest(p[1], dets[p[2]], at)]
           Body(g) == [t \in SUBSET (DOMAIN dets) |->
                        IF t = {} THEN base ELSE Ingest(g[t \ {Max(t)}], dets[Max(t)], at)]
           iter == CHOOSE g : g = Body(g)
<1>1. Processed(dets, at) = iter[DOMAIN dets]
  BY DEF Processed, FoldLeft, MapThenFoldSet
<1>2. n \in Nat /\ DOMAIN dets = 1 .. n /\ \A i \in 1 .. n : dets[i] \in Detections
  OBVIOUS
<1>3. base \in V
  OBVIOUS
<1> HIDE DEF V, n, base
<1>4. step \in [V \X (1 .. n) -> V]
  <2>1. ASSUME NEW v \in V, NEW i \in 1 .. n PROVE Ingest(v, dets[i], at) \in V
    BY <1>2, IngestType DEF V
  <2> QED
    BY <2>1
<1>5. \A v \in V, i \in 1 .. n : step[<<v, i>>] = Ingest(v, dets[i], at)
  OBVIOUS
<1> HIDE DEF step
<1>6. PICK g \in [SUBSET (1 .. n) -> V] : SolvesFold(g, n, base, step)
  BY <1>2, <1>3, <1>4, FoldExists
<1>7. g = Body(g)
  <2>1. ASSUME NEW t \in SUBSET (1 .. n), t # {}
        PROVE  g[t] = Ingest(g[t \ {Max(t)}], dets[Max(t)], at)
    <3>1. Max(t) \in 1 .. n /\ t \ {Max(t)} \in SUBSET (1 .. n)
      BY <1>2, <2>1, MaxIn
    <3>2. g[t \ {Max(t)}] \in V
      BY <3>1
    <3> QED
      BY <1>5, <1>6, <2>1, <3>1, <3>2 DEF SolvesFold
  <2> QED
    BY <1>2, <1>6, <2>1 DEF SolvesFold
<1>8. iter = Body(iter)
  BY <1>7
<1> HIDE DEF iter
<1>9. UnfoldsIn(V, iter, n, base, step)
  <2> SUFFICES ASSUME NEW t \in SUBSET (1 .. n)
      PROVE  IF t = {} THEN iter[t] = base
             ELSE iter[t \ {Max(t)}] \in V => iter[t] = step[<<iter[t \ {Max(t)}], Max(t)>>]
    BY DEF UnfoldsIn
  <2>1. t # {} => Max(t) \in 1 .. n
    BY <1>2, MaxIn
  <2>2. iter[t] = IF t = {} THEN base ELSE Ingest(iter[t \ {Max(t)}], dets[Max(t)], at)
    BY <1>2, <1>8
  <2> QED
    BY <1>5, <2>1, <2>2
<1>10. PICK f : RunsThrough(V, f, iter, n, base, step)
  BY <1>2, <1>3, <1>4, <1>9, FoldRuns
<1>11. \A i \in 1 .. n : f[i] = Ingest(f[i - 1], dets[i], at)
  <2> SUFFICES ASSUME NEW i \in 1 .. n PROVE f[i] = Ingest(f[i - 1], dets[i], at)
    OBVIOUS
  <2>1. i - 1 \in 0 .. n
    BY <1>2
  <2> QED
    BY <1>5, <1>10, <2>1 DEF RunsThrough
<1>12. \E h \in [0 .. n -> V] :
         /\ h[0] = base
         /\ \A i \in 1 .. n : h[i] = Ingest(h[i - 1], dets[i], at)
         /\ h[n] = Processed(dets, at)
  BY <1>1, <1>2, <1>10, <1>11 DEF RunsThrough
<1> QED
  BY <1>12 DEF V, n, base

\* A call leaves boxes that stand for what is still within the window and for
\* what the call reports.
LEMMA ProcessedKeeps ==
  ASSUME NEW dets \in Seq(Detections), NEW t \in Times,
         Alive(t) \in Seq(TrackedBoxes), NotAfter(Alive(t), t),
         NEW D \in SUBSET DetectionRecords, IsFiniteSet(D), Owed(Alive(t), D),
         NEW h, StandsFor(Alive(t), D, h),
         NEW c \in 1 .. MaxCalls, \A d \in D : d.call # c,
         \A i, j \in 1 .. Len(dets) : i # j => dets[i] # dets[j]
  PROVE  LET E == D \cup {[region |-> dets[i], time |-> t, call |-> c] : i \in 1 .. Len(dets)}
         IN  /\ Processed(dets, t) \in Seq(TrackedBoxes) /\ NotAfter(Processed(dets, t), t)
             /\ E \in SUBSET DetectionRecords /\ IsFiniteSet(E)
             /\ Owed(Processed(dets, t), E)
             /\ \E g : StandsFor(Processed(dets, t), E, g)
<1> DEFINE n == Len(dets)
           rec(i) == [region |-> dets[i], time |-> t, call |-> c]
           E(m) == D \cup {rec(i) : i \in 1 .. m}
           Good(r, m) == /\ NotAfter(r, t) /\ E(m) \in SUBSET DetectionRecords /\ IsFiniteSet(E(m))
                         /\ Owed(r, E(m)) /\ \E g : StandsFor(r, E(m), g)
<1>1. PICK f \in [0 .. n -> Seq(TrackedBoxes)] :
        /\ f[0] = Alive(t)
        /\ \A i \in 1 .. n : f[i] = Ingest(f[i - 1], dets[i], t)
        /\ f[n] = Processed(dets, t)
  BY ProcessedRuns
<1>2. n \in Nat /\ \A i \in 1 .. n : dets[i] \in Detections
  OBVIOUS
<1>3. \A i \in 1 .. n : /\ rec(i) \in DetectionRecords /\ rec(i) \notin D
                        /\ rec(i).region = dets[i] /\ rec(i).time = t
  BY <1>2 DEF DetectionRecords
<1>4. \A i, j \in 1 .. n : rec(i) = rec(j) => i = j
  BY <1>3
<1>5. E(0) = D
  OBVIOUS
<1>6. \A m \in 0 .. n - 1 : E(m + 1) = E(m) \cup {rec(m + 1)} /\ rec(m + 1) \notin E(m)
  <2> SUFFICES ASSUME NEW m \in 0 .. n - 1
               PROVE  E(m + 1) = E(m) \cup {rec(m + 1)} /\ rec(m + 1) \notin E(m)
    OBVIOUS
  <2>1. m + 1 \in 1 .. n /\ \A i \in 1 .. m : i \in 1 .. n /\ i # m + 1
    BY <1>2
  <2>2. \A i \in 1 .. m + 1 : i = m + 1 \/ i \in 1 .. m
    BY <1>2
  <2>3. \A i \in 1 .. m : i \in 1 .. m + 1
    BY <1>2
  <2>4. m + 1 \in 1 .. m + 1
    BY <1>2
  <2> HIDE DEF rec, n
  <2>5. E(m + 1) = E(m) \cup {rec(m + 1)}
    BY <2>2, <2>3, <2>4, Zenon
  <2>6. rec(m + 1) \notin D /\ \A i \in 1 .. m : rec(i) # rec(m + 1)
    BY <1>3, <1>4, <2>1
  <2> QED
    BY <2>5, <2>6
<1> DEFINE T == {m \in 0 .. n : Good(f[m], m)}
<1> HIDE DEF rec, E
<1>7. 0 \in T
  BY <1>1, <1>2, <1>5
<1> HIDE DEF n
<1>8. ASSUME NEW m \in 0 .. n - 1, m \in T PROVE m + 1 \in T
  <2>1. m \in Nat /\ m \in 0 .. n /\ m + 1 \in 1 .. n /\ m + 1 \in 0 .. n /\ m + 1 - 1 = m
    BY <1>2
  <2>2. f[m + 1] = Ingest(f[m], dets[m + 1], t) /\ f[m] \in Seq(TrackedBoxes)
    <3>1. f[m + 1] = Ingest(f[m + 1 - 1], dets[m + 1], t)
      BY <1>1, <2>1
    <3> QED
      BY <1>1, <2>1, <3>1
  <2>3. Good(f[m], m)
    BY <1>8
  <2>4. PICK g : StandsFor(f[m], E(m), g)
    BY <2>3
  <2>5. dets[m + 1] \in Detections /\ rec(m + 1) \in DetectionRecords /\ rec(m + 1) \notin E(m)
        /\ rec(m + 1).region = dets[m + 1] /\ rec(m + 1).time = t
        /\ E(m + 1) = E(m) \cup {rec(m + 1)}
    BY <1>2, <1>3, <1>6, <2>1
  <2> DEFINE a == f[m]   b == dets[m + 1]   r == f[m + 1]   d == rec(m + 1)   F == E(m)
  <2>6. /\ NotAfter(a, t) /\ F \in SUBSET DetectionRecords /\ IsFiniteSet(F) /\ Owed(a, F)
        /\ StandsFor(a, F, g) /\ a \in Seq(TrackedBoxes) /\ r = Ingest(a, b, t)
        /\ b \in Detections /\ d \in DetectionRecords /\ d \notin F /\ d.region = b /\ d.time = t
        /\ E(m + 1) = F \cup {d}
    BY <2>2, <2>3, <2>4, <2>5
  <2> HIDE DEF a, b, r, d, F
  <2>7. NotAfter(r, t) /\ Owed(r, F \cup {d}) /\ \E k : StandsFor(r, F \cup {d}, k)
    BY <2>6, IngestKeeps
  <2>8. IsFiniteSet(F \cup {d}) /\ F \cup {d} \in SUBSET DetectionRecords
    BY <2>6, FS_AddElement
  <2>9. Good(r, m + 1)
    BY <2>6, <2>7, <2>8
  <2> HIDE DEF Good
  <2> QED
    BY <2>1, <2>9 DEF r
<1> HIDE DEF T
<1>9. n \in T
  <2>1. 0 .. n \subseteq T
    BY <1>2, <1>7, <1>8, NumbersUpTo
  <2> QED
    BY <1>2, <2>1
<1>10. Good(Processed(dets, t), n) /\ Processed(dets, t) \in Seq(TrackedBoxes)
  <2>1. Good(f[n], n) /\ n \in 0 .. n
    BY <1>2, <1>9 DEF T
  <2> QED
    BY <1>1, <2>1
<1> QED
  BY <1>10 DEF E, rec, n

\* What is handed out: padded, merged, and without losing a box on the way.
LEMMA ResultsCover ==
  ASSUME NEW boxes \in Seq(TrackedBoxes), tracker.padding \in Nat
  PROVE  /\ Results(boxes) \in Seq(ScreenBoxes) /\ Len(Results(boxes)) <= Len(boxes)
         /\ NothingToMerge(Results(boxes), tracker.threshold)
         /\ \A i \in 1 .. Len(boxes) : \E j \in 1 .. Len(Results(boxes)) :
              Covers(Results(boxes)[j], boxes[i].box)
<1> DEFINE n == Len(boxes)
           p == [i \in DOMAIN boxes |-> Expanded(boxes[i].box, tracker.padding)]
           r == Results(boxes)
<1>1. r = Merged(p, tracker.threshold)
  BY DEF Results
<1>2. n \in Nat /\ DOMAIN boxes = 1 .. n /\ \A i \in 1 .. n : boxes[i] \in TrackedBoxes
  OBVIOUS
<1>3. \A i \in 1 .. n : boxes[i].box \in ScreenBoxes
  <2>1. \A b \in TrackedBoxes : b.box \in ScreenBoxes
    BY DEF TrackedBoxes
  <2> QED
    BY <1>2, <2>1
<1>4. \A i \in 1 .. n : p[i] = Expanded(boxes[i].box, tracker.padding) /\ p[i] \in ScreenBoxes
  BY <1>2, <1>3, ExpandedIsAround
<1>5. p \in [1 .. n -> ScreenBoxes]
  BY <1>2, <1>4
<1> HIDE DEF p
<1>6. p \in Seq(ScreenBoxes) /\ Len(p) = n
  BY <1>2, <1>5
<1> HIDE DEF n, r
<1>7. /\ r \in Seq(ScreenBoxes) /\ Len(r) <= n /\ NothingToMerge(r, tracker.threshold)
      /\ \A i \in 1 .. n : \E j \in 1 .. Len(r) : Covers(r[j], p[i])
  BY <1>1, <1>6, BoxesMerge, MergedMerges
<1>8. ASSUME NEW i \in 1 .. n
      PROVE  \E j \in 1 .. Len(r) : Covers(r[j], boxes[i].box)
  <2>1. PICK j \in 1 .. Len(r) : Covers(r[j], p[i])
    BY <1>7
  <2>2. Covers(p[i], boxes[i].box)
    BY <1>3, <1>4, ExpandedIsAround
  <2>3. r[j] \in IntBoxes /\ p[i] \in IntBoxes /\ boxes[i].box \in IntBoxes
    BY <1>3, <1>4, <1>7 DEF ScreenBoxes
  <2> QED
    BY <2>1, <2>2, <2>3, CoversThrough
<1> QED
  BY <1>7, <1>8 DEF n, r

-----------------------------------------------------------------------------
(* The inductive invariant of the smoothing tracker                         *)

TrackerSet == [window : Nat, padding : Nat, threshold : Nat]

WindowsMade == {OrDefault(c.window, 3) : c \in Creations}

\* The tracker of the handle, if there is one, and what a null handle has not.
HandleInv ==
  /\ tracker \in TrackerSet
  /\ tracker.window \in WindowsMade \cup {0}
  /\ tracker # NoTracker => tracker.window > 0
  /\ tracker = NoTracker => tracked_boxes_ = <<>> /\ detections = {}

\* The boxes stand for the detections within the window, one detection for each.
StandInv ==
  /\ tracked_boxes_ \in Seq(TrackedBoxes) /\ NotAfter(tracked_boxes_, now)
  /\ detections \in SUBSET DetectionRecords /\ IsFiniteSet(detections)
  /\ \A d \in detections : d.call <= calls
  /\ Owed(tracked_boxes_, detections)
  /\ \E h : StandsFor(tracked_boxes_, detections, h)

CallInv ==
  /\ out_boxes \in Seq(ScreenBoxes) /\ Len(out_boxes) <= asked
  /\ calls \in 0 .. MaxCalls /\ asked \in Rooms \cup {0} /\ now \in Times \cup {0}

SmoothInv == HandleInv /\ StandInv /\ CallInv

LEMMA NothingStands ==
  ASSUME NEW t
  PROVE  /\ <<>> \in Seq(TrackedBoxes) /\ NotAfter(<<>>, t)
         /\ {} \in SUBSET DetectionRecords /\ IsFiniteSet({})
         /\ Owed(<<>>, {}) /\ \E h : StandsFor(<<>>, {}, h)
<1> DEFINE h == [i \in 1 .. 0 |-> i]
<1>1. Len(<<>>) = 0 /\ 1 .. 0 = {}
  OBVIOUS
<1>2. StandsFor(<<>>, {}, h)
  BY <1>1 DEF StandsFor
<1>3. \E g : StandsFor(<<>>, {}, g)
  <2> HIDE DEF h
  <2> QED
    BY <1>2
<1> QED
  BY <1>1, <1>3, FS_EmptySet DEF NotAfter, Owed

LEMMA SmoothStarts == TrackerInit => SmoothInv
<1> SUFFICES ASSUME TrackerInit PROVE SmoothInv
  OBVIOUS
<1>1. HandleInv
  BY DEF TrackerInit, HandleInv, TrackerSet, NoTracker
<1>2. StandInv
  BY NothingStands DEF TrackerInit, StandInv
<1>3. CallInv
  BY CallsAssumption DEF TrackerInit, CallInv
<1> QED
  BY <1>1, <1>2, <1>3 DEF SmoothInv

\* What a call takes in and lets go, and what it hands out.
LEMMA CallStands ==
  ASSUME SmoothInv, NEW k \in 0 .. MaxPerCall, NEW t \in Times, NEW dets \in [1 .. k -> Detections],
         tracker # NoTracker, calls < MaxCalls,
         \A i, j \in 1 .. k : i # j => dets[i] # dets[j]
  PROVE  LET boxes == Processed(dets, t)
             E == StillWithin(t) \cup
                    {[region |-> dets[i], time |-> t, call |-> calls + 1] : i \in 1 .. k}
         IN  /\ boxes \in Seq(TrackedBoxes) /\ NotAfter(boxes, t)
             /\ E \in SUBSET DetectionRecords /\ IsFiniteSet(E)
             /\ \A d \in E : d.call <= calls + 1
             /\ Owed(boxes, E) /\ \E h : StandsFor(boxes, E, h)
<1> DEFINE c == calls + 1
           D == StillWithin(t)
           rec(i) == [region |-> dets[i], time |-> t, call |-> c]
           E == D \cup {rec(i) : i \in 1 .. k}
           boxes == Processed(dets, t)
<1>1. k \in Nat /\ dets \in Seq(Detections) /\ Len(dets) = k
  BY CallsAssumption
<1>2. PICK h : StandsFor(tracked_boxes_, detections, h)
  BY DEF SmoothInv, StandInv
<1>3. /\ tracked_boxes_ \in Seq(TrackedBoxes) /\ detections \in SUBSET DetectionRecords
      /\ NotAfter(tracked_boxes_, now) /\ Owed(tracked_boxes_, detections)
      /\ IsFiniteSet(detections) /\ calls \in 0 .. MaxCalls
      /\ \A d \in detections : d.call <= calls
  BY DEF SmoothInv, StandInv, CallInv
<1>4. now \in Int
  BY TimesAreNumbers DEF SmoothInv, CallInv
<1>5. tracker.window \in Int
  BY DEF SmoothInv, HandleInv, TrackerSet
<1>6. c \in 1 .. MaxCalls /\ c \in Int /\ calls \in Int
  BY <1>3, CallsAssumption
<1>7. /\ Alive(t) \in Seq(TrackedBoxes) /\ NotAfter(Alive(t), t) /\ Owed(Alive(t), D)
      /\ \E g : StandsFor(Alive(t), D, g)
  BY <1>2, <1>3, <1>4, <1>5, AliveStands
<1>8. PICK g : StandsFor(Alive(t), D, g)
  BY <1>7
<1>9. D \subseteq detections
  BY DEF StillWithin
<1>10. D \in SUBSET DetectionRecords /\ IsFiniteSet(D)
  BY <1>3, <1>9, FS_Subset
<1>11. \A d \in D : d.call # c /\ d.call <= c
  <2>1. \A d \in DetectionRecords : d.call \in Int
    BY DEF DetectionRecords
  <2>2. \A d \in D : d.call \in Int /\ d.call <= calls
    BY <1>3, <1>9, <2>1
  <2> HIDE DEF D
  <2> QED
    BY <1>6, <2>2
<1> HIDE DEF c, D
<1>12. /\ boxes \in Seq(TrackedBoxes) /\ NotAfter(boxes, t)
       /\ E \in SUBSET DetectionRecords /\ IsFiniteSet(E)
       /\ Owed(boxes, E) /\ \E f : StandsFor(boxes, E, f)
  <2> DEFINE F == D \cup {[region |-> dets[i], time |-> t, call |-> c] : i \in 1 .. Len(dets)}
  <2>1. \A i, j \in 1 .. Len(dets) : i # j => dets[i] # dets[j]
    BY <1>1
  <2>2. E = F
    BY <1>1, Zenon
  <2>3. \A d \in D : d.call # c
    BY <1>11
  <2>4. /\ boxes \in Seq(TrackedBoxes) /\ NotAfter(boxes, t)
        /\ F \in SUBSET DetectionRecords /\ IsFiniteSet(F)
        /\ Owed(boxes, F) /\ \E f : StandsFor(boxes, F, f)
    BY <1>1, <1>6, <1>7, <1>8, <1>10, <2>1, <2>3, ProcessedKeeps
  <2> HIDE DEF E, F
  <2> QED
    BY <2>2, <2>4
<1>13. \A d \in E : d.call <= c
  <2>1. \A i \in 1 .. k : rec(i).call <= c
    BY <1>6
  <2> HIDE DEF rec
  <2> QED
    BY <1>11, <2>1
<1> QED
  BY <1>12, <1>13 DEF c, D

LEMMA HandOut ==
  ASSUME NEW S, NEW r \in Seq(S), NEW room \in Nat
  PROVE  LET s == SubSeq(r, 1, Least(Len(r), room)) IN
         /\ s \in Seq(S) /\ Len(s) <= room /\ Len(s) <= Len(r)
         /\ Len(r) <= room => s = r
<1> DEFINE n == Len(r)
           l == Least(n, room)
<1>1. n \in Nat /\ r \in [1 .. n -> S]
  OBVIOUS
<1>2. l \in 0 .. n /\ l <= room /\ (n <= room => l = n)
  <2> HIDE DEF n
  <2> QED
    BY <1>1 DEF Least
<1> HIDE DEF l
<1>3. SubSeq(r, 1, l) \in Seq(S) /\ Len(SubSeq(r, 1, l)) = l
  <2>1. \A i \in 1 .. l : i \in 1 .. n /\ r[i] \in S /\ i + 1 - 1 = i
    <3> HIDE DEF n
    <3> QED
      BY <1>1, <1>2
  <2>2. 1 + l - 1 = l /\ l \in Nat
    BY <1>2
  <2>3. SubSeq(r, 1, l) = [i \in 1 .. l |-> r[i]]
    BY <2>1, <2>2
  <2> QED
    BY <2>1, <2>2, <2>3
<1>4. SubSeq(r, 1, n) = r
  OBVIOUS
<1> QED
  BY <1>1, <1>2, <1>3, <1>4 DEF l

\* There are no more boxes than detections.
LEMMA StandsCount ==
  ASSUME NEW boxes \in Seq(TrackedBoxes), NEW D, IsFiniteSet(D), NEW h, StandsFor(boxes, D, h)
  PROVE  Len(boxes) <= Cardinality(D)
<1> DEFINE n == Len(boxes)
<1>1. n \in Nat
  OBVIOUS
<1>2. h \in [1 .. n -> D] /\ \A i, j \in 1 .. n : h[i] = h[j] => i = j
  BY DEF StandsFor
<1> HIDE DEF n
<1>3. IsFiniteSet(1 .. n) /\ Cardinality(1 .. n) = n
  <2>1. Cardinality(1 .. n) = IF 1 > n THEN 0 ELSE n - 1 + 1
    BY <1>1, FS_Interval
  <2> QED
    BY <1>1, <2>1, FS_Interval
<1>4. Cardinality(D) \in Nat
  BY FS_CardinalityType
<1>5. ~(Cardinality(D) < Cardinality(1 .. n))
  <2> SUFFICES ASSUME Cardinality(D) < Cardinality(1 .. n) PROVE FALSE
    OBVIOUS
  <2>1. \E x, y \in 1 .. n : x # y /\ h[x] = h[y]
    BY <1>2, <1>3, FS_PigeonHole
  <2> QED
    BY <1>2, <2>1
<1> QED
  BY <1>1, <1>3, <1>4, <1>5 DEF n

LEMMA SmoothSteps == SmoothInv /\ [TrackerNext]_trackerVars => SmoothInv'
<1> SUFFICES ASSUME SmoothInv, [TrackerNext]_trackerVars PROVE SmoothInv'
  OBVIOUS
<1>1. CASE dg_tracker_create
  <2>1. PICK c \in Creations :
          tracker' = [window |-> OrDefault(c.window, 3), padding |-> OrDefault(c.padding, 15),
                      threshold |-> OrDefault(c.threshold, 25)]
    BY <1>1 DEF dg_tracker_create
  <2>3. OrDefault(c.window, 3) \in Nat \ {0} /\ OrDefault(c.padding, 15) \in Nat
        /\ OrDefault(c.threshold, 25) \in Nat
    BY CreationsAssumption DEF OrDefault
  <2>4. OrDefault(c.window, 3) \in WindowsMade
    BY DEF WindowsMade
  <2>5. tracker' \in TrackerSet /\ tracker'.window = OrDefault(c.window, 3)
    BY <2>1, <2>3 DEF TrackerSet
  <2>6. UNCHANGED <<tracked_boxes_, out_boxes, calls, asked, now, detections>>
        /\ tracker = NoTracker
    BY <1>1 DEF dg_tracker_create
  <2>7. tracker' # NoTracker
    BY <2>3, <2>5 DEF NoTracker
  <2>8. HandleInv'
    BY <2>3, <2>4, <2>5, <2>7 DEF HandleInv
  <2>9. StandInv' /\ CallInv'
    BY <2>6 DEF SmoothInv, StandInv, CallInv, NotAfter, Owed, StandsFor
  <2> QED
    BY <2>8, <2>9 DEF SmoothInv
<1>2. CASE dg_tracker_destroy \/ dg_tracker_reset
  <2>1. tracked_boxes_' = <<>> /\ detections' = {} /\ UNCHANGED <<out_boxes, calls, asked, now>>
        /\ (tracker' = tracker \/ tracker' = NoTracker)
    BY <1>2 DEF dg_tracker_destroy, dg_tracker_reset
  <2>2. HandleInv'
    <3>1. NoTracker \in TrackerSet /\ NoTracker.window = 0
      BY DEF NoTracker, TrackerSet
    <3> QED
      BY <2>1, <3>1 DEF SmoothInv, HandleInv
  <2>3. StandInv'
    BY <2>1, NothingStands DEF StandInv
  <2>4. CallInv'
    BY <2>1 DEF SmoothInv, CallInv
  <2> QED
    BY <2>2, <2>3, <2>4 DEF SmoothInv
<1>3. CASE dg_tracker_process
  <2> DEFINE Call(k, t, max_out_count, dets) ==
          /\ tracker # NoTracker /\ max_out_count > 0 /\ calls < MaxCalls
          /\ \A i, j \in 1 .. k : i # j => dets[i] # dets[j]
          /\ calls' = calls + 1 /\ now' = t /\ asked' = max_out_count
          /\ tracked_boxes_' = Processed(dets, t)
          /\ out_boxes' = SubSeq(Results(tracked_boxes_'), 1,
                                 Least(Len(Results(tracked_boxes_')), max_out_count))
          /\ detections' = StillWithin(t) \cup
                             {[region |-> dets[i], time |-> t, call |-> calls'] : i \in 1 .. k}
          /\ UNCHANGED tracker
  <2>0. PICK k \in 0 .. MaxPerCall, t \in Times, max_out_count \in Rooms :
          \E dets \in [1 .. k -> Detections] : Call(k, t, max_out_count, dets)
    BY <1>3 DEF dg_tracker_process
  <2>1. PICK dets \in [1 .. k -> Detections] : Call(k, t, max_out_count, dets)
    BY <2>0
  <2>2. detections' = StillWithin(t) \cup
                        {[region |-> dets[i], time |-> t, call |-> calls + 1] : i \in 1 .. k}
    BY <2>1, Zenon
  <2>3. /\ tracked_boxes_' \in Seq(TrackedBoxes) /\ NotAfter(tracked_boxes_', t)
        /\ detections' \in SUBSET DetectionRecords /\ IsFiniteSet(detections')
        /\ \A d \in detections' : d.call <= calls + 1
        /\ Owed(tracked_boxes_', detections') /\ \E h : StandsFor(tracked_boxes_', detections', h)
    <3> DEFINE boxes == Processed(dets, t)
               E == StillWithin(t) \cup
                      {[region |-> dets[i], time |-> t, call |-> calls + 1] : i \in 1 .. k}
    <3>1. /\ boxes \in Seq(TrackedBoxes) /\ NotAfter(boxes, t)
          /\ E \in SUBSET DetectionRecords /\ IsFiniteSet(E)
          /\ \A d \in E : d.call <= calls + 1
          /\ Owed(boxes, E) /\ \E h : StandsFor(boxes, E, h)
      BY <2>1, CallStands
    <3>2. tracked_boxes_' = boxes /\ detections' = E
      BY <2>1, <2>2
    <3> HIDE DEF boxes, E
    <3> QED
      BY <3>1, <3>2
  <2>4. StandInv'
    BY <2>1, <2>3 DEF StandInv
  <2>5. HandleInv'
    BY <2>1 DEF SmoothInv, HandleInv
  <2>6. CallInv'
    <3>1. Results(tracked_boxes_') \in Seq(ScreenBoxes)
      BY <2>3, ResultsCover DEF SmoothInv, HandleInv, TrackerSet
    <3>2. max_out_count \in Nat
      BY RoomsAssumption
    <3>3. out_boxes' \in Seq(ScreenBoxes) /\ Len(out_boxes') <= max_out_count
      BY <2>1, <3>1, <3>2, HandOut
    <3>4. calls' \in 0 .. MaxCalls
      BY <2>1, CallsAssumption DEF SmoothInv, CallInv
    <3> QED
      BY <2>1, <3>3, <3>4 DEF CallInv
  <2> QED
    BY <2>4, <2>5, <2>6 DEF SmoothInv
<1>4. CASE dg_tracker_process_refused
  <2>1. out_boxes' = <<>> /\ UNCHANGED <<tracker, tracked_boxes_, calls, asked, now, detections>>
    BY <1>4 DEF dg_tracker_process_refused
  <2>2. asked \in Nat
    BY RoomsAssumption DEF SmoothInv, CallInv
  <2>3. CallInv'
    BY <2>1, <2>2 DEF SmoothInv, CallInv
  <2>4. HandleInv' /\ StandInv'
    BY <2>1 DEF SmoothInv, HandleInv, StandInv, NotAfter, Owed, StandsFor
  <2> QED
    BY <2>3, <2>4 DEF SmoothInv
<1>5. CASE UNCHANGED trackerVars
  BY <1>5, ZenonT(40) DEF trackerVars, SmoothInv, HandleInv, StandInv, CallInv, NotAfter, Owed, StandsFor
<1> QED
  BY <1>1, <1>2, <1>3, <1>4, <1>5 DEF TrackerNext

-----------------------------------------------------------------------------
(* The anchor tracker                                                       *)

ReportBoxes == {b \in ScreenBoxes : 200 * b.width > One /\ 200 * b.height > One}

\* The colours that pixels can have.
Colours == {Colour(f.picture, x, y + f.scroll) : f \in Frames, x \in Int, y \in Int}

AnchorSet == [x : 0 .. One - 1, y : Int, n : 1 .. 6, colour : Colours]

ShieldSet == [box : ScreenBoxes, is_static : BOOLEAN, unseen : Nat, anchors : SUBSET AnchorSet]

LEMMA ReportsAreBoxes ==
  ASSUME NEW r \in Reports
  PROVE  r \in Seq(ReportBoxes)
<1>1. r \in Seq(ToSet(r))
  BY ReportsAssumption
<1>2. \A b \in ToSet(r) : IsBox(b) /\ OnScreen(b) /\ 200 * b.width > One /\ 200 * b.height > One
  BY ReportsAssumption
<1>3. ToSet(r) \subseteq ReportBoxes
  BY <1>2, BoxOnScreen DEF ReportBoxes
<1> QED
  BY <1>1, <1>3

LEMMA ReportsAreOnScreen ==
  ASSUME NEW r \in Reports
  PROVE  r \in Seq(ScreenBoxes)
<1>1. r \in Seq(ReportBoxes)
  BY ReportsAreBoxes
<1>2. Len(r) \in Nat /\ DOMAIN r = 1 .. Len(r) /\ \A i \in 1 .. Len(r) : r[i] \in ReportBoxes
  BY <1>1
<1>3. \A i \in 1 .. Len(r) : r[i] \in ScreenBoxes
  BY <1>2 DEF ReportBoxes
<1>4. r = [i \in 1 .. Len(r) |-> r[i]]
  BY <1>1
<1>5. r \in [1 .. Len(r) -> ScreenBoxes]
  BY <1>3, <1>4
<1> QED
  BY <1>2, <1>5

LEMMA PixelIsColour ==
  ASSUME NEW f \in Frames, NEW x \in Int, NEW y \in Int
  PROVE  Pixel(f, x, y) \in Colours
BY DEF Pixel, Colours

LEMMA SampledAnchors ==
  ASSUME NEW f \in Frames, NEW box
  PROVE  /\ SampleAnchors(f, box) \in SUBSET AnchorSet
         /\ \A a \in SampleAnchors(f, box) : a.y \in 0 .. One - 1 /\ a.colour = Pixel(f, a.x, a.y)
<1> SUFFICES ASSUME NEW a \in SampleAnchors(f, box)
             PROVE  a \in AnchorSet /\ a.y \in 0 .. One - 1 /\ a.colour = Pixel(f, a.x, a.y)
  OBVIOUS
<1>1. PICK x \in 0 .. One - 1, y \in 0 .. One - 1, n \in 1 .. 6 :
        a = [x |-> x, y |-> y, n |-> n, colour |-> Pixel(f, x, y)]
  BY DEF SampleAnchors
<1>2. x \in Int /\ y \in Int
  BY OneAssumption
<1>3. Pixel(f, x, y) \in Colours
  BY <1>2, PixelIsColour
<1> QED
  BY <1>1, <1>2, <1>3 DEF AnchorSet

Offsets == {-80, -60, -40, -20, -10, 0, 10, 20, 40, 60, 80}

\* What BestScroll does with one offset.
ScrollOne(best, dy, f, anchors) ==
  LET e == EvalAnchors(f, anchors, dy)
  IN IF e < best.error THEN [dy |-> dy, error |-> e] ELSE best

Tried == <<-80, -60, -40, -20, -10, 10, 20, 40, 60, 80>>

\* The best offset is one of those that are tried, and the error is its own.
LEMMA BestScrollIsTried ==
  ASSUME NEW f, NEW anchors, NEW error, error = EvalAnchors(f, anchors, 0)
  PROVE  /\ BestScroll(f, anchors, error).dy \in Offsets
         /\ BestScroll(f, anchors, error).error
              = EvalAnchors(f, anchors, BestScroll(f, anchors, error).dy)
<1> DEFINE V == {[dy |-> dy, error |-> EvalAnchors(f, anchors, dy)] : dy \in Offsets}
           n == Len(Tried)
           base == [dy |-> 0, error |-> error]
           step == [p \in V \X (1 .. n) |-> ScrollOne(p[1], Tried[p[2]], f, anchors)]
           Body(g) == [t \in SUBSET (DOMAIN Tried) |->
                        IF t = {} THEN base ELSE ScrollOne(g[t \ {Max(t)}], Tried[Max(t)], f, anchors)]
           iter == CHOOSE g : g = Body(g)
<1>1. BestScroll(f, anchors, error) = iter[DOMAIN Tried]
  BY DEF BestScroll, FoldLeft, MapThenFoldSet, ScrollOne, Tried
<1>2. n \in Nat /\ DOMAIN Tried = 1 .. n /\ \A i \in 1 .. n : Tried[i] \in Offsets
  BY DEF Tried, Offsets
<1>3. base \in V
  BY DEF Offsets
<1>4. ASSUME NEW v \in V, NEW dy \in Offsets PROVE ScrollOne(v, dy, f, anchors) \in V
  BY DEF ScrollOne
<1> HIDE DEF V, n, base
<1>5. step \in [V \X (1 .. n) -> V]
  BY <1>2, <1>4
<1>6. \A v \in V, i \in 1 .. n : step[<<v, i>>] = ScrollOne(v, Tried[i], f, anchors)
  OBVIOUS
<1> HIDE DEF step
<1>7. PICK g \in [SUBSET (1 .. n) -> V] : SolvesFold(g, n, base, step)
  BY <1>2, <1>3, <1>5, FoldExists
<1>8. g = Body(g)
  <2>1. ASSUME NEW t \in SUBSET (1 .. n), t # {}
        PROVE  g[t] = ScrollOne(g[t \ {Max(t)}], Tried[Max(t)], f, anchors)
    <3>1. Max(t) \in 1 .. n /\ t \ {Max(t)} \in SUBSET (1 .. n)
      BY <1>2, <2>1, MaxIn
    <3>2. g[t \ {Max(t)}] \in V
      BY <3>1
    <3> QED
      BY <1>6, <1>7, <2>1, <3>1, <3>2 DEF SolvesFold
  <2> QED
    BY <1>2, <1>7, <2>1 DEF SolvesFold
<1>9. iter = Body(iter)
  BY <1>8
<1> HIDE DEF iter
<1>10. UnfoldsIn(V, iter, n, base, step)
  <2> SUFFICES ASSUME NEW t \in SUBSET (1 .. n)
      PROVE  IF t = {} THEN iter[t] = base
             ELSE iter[t \ {Max(t)}] \in V => iter[t] = step[<<iter[t \ {Max(t)}], Max(t)>>]
    BY DEF UnfoldsIn
  <2>1. t # {} => Max(t) \in 1 .. n
    BY <1>2, MaxIn
  <2>2. iter[t] = IF t = {} THEN base
                  ELSE ScrollOne(iter[t \ {Max(t)}], Tried[Max(t)], f, anchors)
    BY <1>2, <1>9
  <2> QED
    BY <1>6, <2>1, <2>2
<1>11. PICK h : RunsThrough(V, h, iter, n, base, step)
  BY <1>2, <1>3, <1>5, <1>10, FoldRuns
<1>12. iter[DOMAIN Tried] \in V
  BY <1>2, <1>11 DEF RunsThrough
<1>13. PICK dy \in Offsets :
         BestScroll(f, anchors, error) = [dy |-> dy, error |-> EvalAnchors(f, anchors, dy)]
  BY <1>1, <1>12 DEF V
<1> QED
  BY <1>13

LEMMA SeenShield ==
  ASSUME NEW t \in ShieldSet
  PROVE  /\ Seen(t) \in ShieldSet /\ Seen(t).box = t.box /\ Seen(t).unseen = 0
         /\ Seen(t).is_static <=> t.is_static
         /\ Seen(t).anchors = t.anchors
BY DEF Seen, ShieldSet

\* Step 1 leaves a shield what it is: held, moved down or up, or let go.
LEMMA AnchoredCases ==
  ASSUME NEW s \in ShieldSet, NEW f
  PROVE  LET r == Anchored(s, f)  dy == BestScroll(f, s.anchors, EvalAnchors(f, s.anchors, 0)).dy IN
         /\ r \in ShieldSet
         /\ \/ /\ EvalAnchors(f, s.anchors, 0) < anchor_error_threshold
               /\ r.box = s.box /\ r.unseen = 0 /\ r.is_static /\ r.anchors = s.anchors
            \/ /\ ~(EvalAnchors(f, s.anchors, 0) < anchor_error_threshold)
               /\ EvalAnchors(f, s.anchors, dy) < 8
               /\ dy \in Offsets /\ r.unseen = 0 /\ r.is_static
               /\ r.anchors = {[a EXCEPT !.y = @ + dy] : a \in s.anchors}
            \/ /\ ~(EvalAnchors(f, s.anchors, 0) < anchor_error_threshold)
               /\ r.box = s.box /\ r.unseen = s.unseen /\ ~r.is_static
               /\ r.anchors = s.anchors
<1> DEFINE r == Anchored(s, f)
           error == EvalAnchors(f, s.anchors, 0)
           best == BestScroll(f, s.anchors, error)
           dy == best.dy
           y == Clamp(s.box.y + dy, 0, One - s.box.height)
           moved == {[a EXCEPT !.y = @ + dy] : a \in s.anchors}
           box == [s.box EXCEPT !.y = y]
           held == Seen([s EXCEPT !.is_static = TRUE])
           left == [s EXCEPT !.is_static = FALSE]
           scrolled == Seen([s EXCEPT !.is_static = TRUE, !.box = box, !.anchors = moved])
<1>1. s.box \in ScreenBoxes /\ s.anchors \in SUBSET AnchorSet
  BY DEF ShieldSet
<1>2. /\ s.box = [x |-> s.box.x, y |-> s.box.y, width |-> s.box.width, height |-> s.box.height]
      /\ s.box.x \in Int /\ s.box.y \in Int /\ s.box.width \in Int /\ s.box.height \in Int
      /\ s.box.x >= 0 /\ s.box.y >= 0 /\ s.box.width >= 0 /\ s.box.height >= 0
      /\ s.box.x + s.box.width <= One /\ s.box.y + s.box.height <= One
  BY <1>1 DEF ScreenBoxes, IntBoxes, OnScreen, Right, Bottom
<1>3. dy \in Offsets /\ best.error = EvalAnchors(f, s.anchors, dy)
  BY BestScrollIsTried
<1>4. dy \in Int
  BY <1>3 DEF Offsets
<1>5. [s EXCEPT !.is_static = TRUE,
                !.box.y = Clamp(@ + dy, 0, One - s.box.height),
                !.anchors = {[a EXCEPT !.y = @ + dy] : a \in @}]
        = [s EXCEPT !.is_static = TRUE, !.box = box, !.anchors = moved]
  <2> HIDE DEF dy
  <2> QED
    BY DEF ShieldSet
<1>6. r = IF error < anchor_error_threshold THEN held
          ELSE IF dy # 0 /\ best.error < 8 /\ error - best.error > 8 THEN scrolled
          ELSE left
  <2> HIDE DEF error, best
  <2> QED
    BY <1>5 DEF Anchored, error, best
<1>7. box \in ScreenBoxes
  <2>1. y \in Int /\ y >= 0 /\ y + s.box.height <= One
    <3> HIDE DEF dy
    <3> QED
      BY <1>2, <1>4, OneAssumption DEF Clamp, Least, Greatest
  <2> HIDE DEF y
  <2>2. box = [x |-> s.box.x, y |-> y, width |-> s.box.width, height |-> s.box.height]
    BY <1>2
  <2> HIDE DEF box
  <2> QED
    BY <1>2, <2>1, <2>2 DEF ScreenBoxes, IntBoxes, OnScreen, Right, Bottom
<1>8. moved \in SUBSET AnchorSet
  <2> HIDE DEF dy
  <2> SUFFICES ASSUME NEW a \in s.anchors PROVE [a EXCEPT !.y = @ + dy] \in AnchorSet
    OBVIOUS
  <2>1. a \in AnchorSet
    BY <1>1
  <2> QED
    BY <1>4, <2>1 DEF AnchorSet
<1> HIDE DEF box, moved
<1>9. /\ held \in ShieldSet /\ held.box = s.box /\ held.unseen = 0
      /\ held.is_static /\ held.anchors = s.anchors
      /\ left \in ShieldSet /\ left.box = s.box /\ left.unseen = s.unseen
      /\ ~left.is_static /\ left.anchors = s.anchors
      /\ scrolled \in ShieldSet /\ scrolled.box = box /\ scrolled.unseen = 0
      /\ scrolled.is_static /\ scrolled.anchors = moved
  <2> DEFINE h == [s EXCEPT !.is_static = TRUE]
             m == [s EXCEPT !.is_static = TRUE, !.box = box, !.anchors = moved]
  <2>1. m \in ShieldSet /\ m.box = box /\ m.is_static /\ m.anchors = moved
    BY <1>7, <1>8 DEF ShieldSet
  <2>2. h \in ShieldSet /\ h.box = s.box /\ h.is_static /\ h.anchors = s.anchors
    BY DEF ShieldSet
  <2>3. /\ left \in ShieldSet /\ left.box = s.box /\ left.unseen = s.unseen
        /\ ~left.is_static /\ left.anchors = s.anchors
    BY DEF ShieldSet
  <2>4. held = Seen(h) /\ scrolled = Seen(m)
    OBVIOUS
  <2> HIDE DEF m, h, held, left, scrolled
  <2> QED
    BY <2>1, <2>2, <2>3, <2>4, SeenShield
<1> HIDE DEF r, error, dy, best, held, left, scrolled
<1>10. CASE error < anchor_error_threshold
  <2>1. r = held
    BY <1>6, <1>10
  <2> HIDE DEF r
  <2> QED
    BY <1>9, <1>10, <2>1 DEF r, error
<1>11. CASE ~(error < anchor_error_threshold) /\ dy # 0 /\ best.error < 8 /\ error - best.error > 8
  <2>1. r = scrolled
    BY <1>6, <1>11
  <2> QED
    BY <1>3, <1>9, <1>11, <2>1 DEF r, error, dy, moved, best
<1>12. CASE ~(error < anchor_error_threshold)
            /\ ~(dy # 0 /\ best.error < 8 /\ error - best.error > 8)
  <2>1. r = left
    BY <1>6, <1>12
  <2> QED
    BY <1>9, <1>12, <2>1 DEF r, error
<1> QED
  BY <1>10, <1>11, <1>12

LEMMA SmoothOnScreen ==
  ASSUME NEW old \in ScreenBoxes, NEW det \in ScreenBoxes
  PROVE  Smooth(old, det) \in ScreenBoxes
<1> DEFINE mix(new, before) == (70 * new + 30 * before) \div 100
           x == mix(det.x, old.x)   w == mix(det.width, old.width)
           y == mix(det.y, old.y)   h == mix(det.height, old.height)
<1>1. Smooth(old, det) = [x |-> x, y |-> y, width |-> w, height |-> h]
  <2>1. 100 - ema_alpha = 30 /\ ema_alpha = 70
    BY DEF ema_alpha
  <2> QED
    BY <2>1 DEF Smooth, Box
<1>2. /\ det.x \in Nat /\ det.y \in Nat /\ det.width \in Nat /\ det.height \in Nat
      /\ det.x + det.width <= One /\ det.y + det.height <= One
      /\ old.x \in Nat /\ old.y \in Nat /\ old.width \in Nat /\ old.height \in Nat
      /\ old.x + old.width <= One /\ old.y + old.height <= One /\ One \in Nat
  BY OneAssumption DEF ScreenBoxes, IntBoxes, OnScreen, Right, Bottom
<1>3. \A a, b \in Nat : mix(a, b) \in Nat /\ 100 * mix(a, b) <= 70 * a + 30 * b
  OBVIOUS
<1> HIDE DEF mix
<1>4. x \in Nat /\ y \in Nat /\ w \in Nat /\ h \in Nat
  BY <1>2, <1>3
<1>5. x + w <= One
  <2>1. 100 * x <= 70 * det.x + 30 * old.x /\ 100 * w <= 70 * det.width + 30 * old.width
    BY <1>2, <1>3
  <2> HIDE DEF x, w
  <2> QED
    BY <1>2, <1>4, <2>1
<1>6. y + h <= One
  <2>1. 100 * y <= 70 * det.y + 30 * old.y /\ 100 * h <= 70 * det.height + 30 * old.height
    BY <1>2, <1>3
  <2> HIDE DEF y, h
  <2> QED
    BY <1>2, <1>4, <2>1
<1> HIDE DEF x, y, w, h
<1> QED
  BY <1>1, <1>4, <1>5, <1>6 DEF ScreenBoxes, IntBoxes, OnScreen, Right, Bottom

\* A shield that is anchored in the frame.
FreshShield(f, box, static) ==
  [box |-> box, is_static |-> static, unseen |-> 0, anchors |-> SampleAnchors(f, box)]

LEMMA FreshShieldType ==
  ASSUME NEW f \in Frames, NEW box \in ScreenBoxes, NEW static \in BOOLEAN
  PROVE  LET s == FreshShield(f, box, static) IN
         s \in ShieldSet /\ s.box = box /\ s.unseen = 0 /\ s.anchors = SampleAnchors(f, box)
BY SampledAnchors DEF FreshShield, ShieldSet

\* A detection becomes a shield, or a shield that it overlaps moves towards it.
LEMMA IngestedCases ==
  ASSUME NEW list \in Seq(ShieldSet), NEW det \in ScreenBoxes, NEW f \in Frames
  PROVE  \/ Ingested(list, det, f) = Append(list, FreshShield(f, det, FALSE))
         \/ \E i \in 1 .. Len(list) :
              /\ Overlaps(list[i].box, det, merge_iou_threshold)
              /\ Ingested(list, det, f) =
                   [list EXCEPT ![i] = FreshShield(f, Smooth(list[i].box, det), list[i].is_static)]
<1> DEFINE matches == {i \in DOMAIN list : Overlaps(list[i].box, det, merge_iou_threshold)}
           first == CHOOSE i \in matches : \A j \in matches : i <= j
<1>1. Ingested(list, det, f) =
        IF matches = {} THEN Append(list, FreshShield(f, det, FALSE))
        ELSE [list EXCEPT ![first] =
                FreshShield(f, Smooth(list[first].box, det), list[first].is_static)]
  BY DEF Ingested, FreshShield
<1>2. \A i \in matches : i \in 1 .. Len(list) /\ Overlaps(list[i].box, det, merge_iou_threshold)
  OBVIOUS
<1>3. matches # {} => first \in matches
  <2>1. matches \subseteq Nat
    BY <1>2
  <2> HIDE DEF matches
  <2> QED
    BY <2>1, FirstOf
<1> HIDE DEF matches, first
<1> QED
  BY <1>1, <1>2, <1>3

LEMMA ShieldFields ==
  ASSUME NEW list \in Seq(ShieldSet), NEW i \in 1 .. Len(list)
  PROVE  /\ list[i] \in ShieldSet /\ list[i].box \in ScreenBoxes
         /\ list[i].is_static \in BOOLEAN /\ list[i].unseen \in Nat
         /\ list[i].anchors \in SUBSET AnchorSet
<1>1. list[i] \in ShieldSet
  OBVIOUS
<1> QED
  BY <1>1 DEF ShieldSet

LEMMA IngestedType ==
  ASSUME NEW list \in Seq(ShieldSet), NEW det \in ScreenBoxes, NEW f \in Frames
  PROVE  Ingested(list, det, f) \in Seq(ShieldSet)
<1>1. CASE Ingested(list, det, f) = Append(list, FreshShield(f, det, FALSE))
  <2>1. FreshShield(f, det, FALSE) \in ShieldSet
    <3>1. FALSE \in BOOLEAN
      OBVIOUS
    <3> QED
      BY <3>1, FreshShieldType
  <2>2. \A t \in ShieldSet : Append(list, t) \in Seq(ShieldSet)
    OBVIOUS
  <2>3. Append(list, FreshShield(f, det, FALSE)) \in Seq(ShieldSet)
    BY <2>1, <2>2, Zenon
  <2> QED
    BY <1>1, <2>3, Zenon
<1>2. ASSUME NEW i \in 1 .. Len(list),
             Ingested(list, det, f) =
               [list EXCEPT ![i] = FreshShield(f, Smooth(list[i].box, det), list[i].is_static)]
      PROVE  Ingested(list, det, f) \in Seq(ShieldSet)
  <2>1. list[i].box \in ScreenBoxes /\ list[i].is_static \in BOOLEAN
    BY ShieldFields
  <2>2. FreshShield(f, Smooth(list[i].box, det), list[i].is_static) \in ShieldSet
    BY <2>1, SmoothOnScreen, FreshShieldType
  <2> HIDE DEF FreshShield
  <2> QED
    BY <1>2, <2>2
<1> QED
  BY <1>1, <1>2, IngestedCases

\* Step 2 on a list of shields.
IngestedAll(f, old, dets) == FoldLeft(LAMBDA list, det : Ingested(list, det, f), old, dets)

\* The intermediate results of step 2.
LEMMA IngestedRuns ==
  ASSUME NEW dets \in Seq(ScreenBoxes), NEW frm \in Frames, NEW old \in Seq(ShieldSet)
  PROVE  \E f \in [0 .. Len(dets) -> Seq(ShieldSet)] :
           /\ f[0] = old
           /\ \A i \in 1 .. Len(dets) : f[i] = Ingested(f[i - 1], dets[i], frm)
           /\ f[Len(dets)] = IngestedAll(frm, old, dets)
<1> DEFINE n == Len(dets)
           V == Seq(ShieldSet)
           base == old
           step == [p \in V \X (1 .. n) |-> Ingested(p[1], dets[p[2]], frm)]
           Body(g) == [t \in SUBSET (DOMAIN dets) |->
                        IF t = {} THEN base ELSE Ingested(g[t \ {Max(t)}], dets[Max(t)], frm)]
           iter == CHOOSE g : g = Body(g)
<1>1. IngestedAll(frm, old, dets) = iter[DOMAIN dets]
  BY DEF IngestedAll, FoldLeft, MapThenFoldSet
<1>2. n \in Nat /\ DOMAIN dets = 1 .. n /\ \A i \in 1 .. n : dets[i] \in ScreenBoxes
  OBVIOUS
<1>3. base \in V
  OBVIOUS
<1> HIDE DEF V, n, base
<1>4. step \in [V \X (1 .. n) -> V]
  <2>1. ASSUME NEW v \in V, NEW i \in 1 .. n PROVE Ingested(v, dets[i], frm) \in V
    BY <1>2, IngestedType DEF V
  <2> QED
    BY <2>1
<1>5. \A v \in V, i \in 1 .. n : step[<<v, i>>] = Ingested(v, dets[i], frm)
  OBVIOUS
<1> HIDE DEF step
<1>6. PICK g \in [SUBSET (1 .. n) -> V] : SolvesFold(g, n, base, step)
  BY <1>2, <1>3, <1>4, FoldExists
<1>7. g = Body(g)
  <2>1. ASSUME NEW t \in SUBSET (1 .. n), t # {}
        PROVE  g[t] = Ingested(g[t \ {Max(t)}], dets[Max(t)], frm)
    <3>1. Max(t) \in 1 .. n /\ t \ {Max(t)} \in SUBSET (1 .. n)
      BY <1>2, <2>1, MaxIn
    <3>2. g[t \ {Max(t)}] \in V
      BY <3>1
    <3> QED
      BY <1>5, <1>6, <2>1, <3>1, <3>2 DEF SolvesFold
  <2> QED
    BY <1>2, <1>6, <2>1 DEF SolvesFold
<1>8. iter = Body(iter)
  BY <1>7
<1> HIDE DEF iter
<1>9. UnfoldsIn(V, iter, n, base, step)
  <2> SUFFICES ASSUME NEW t \in SUBSET (1 .. n)
      PROVE  IF t = {} THEN iter[t] = base
             ELSE iter[t \ {Max(t)}] \in V => iter[t] = step[<<iter[t \ {Max(t)}], Max(t)>>]
    BY DEF UnfoldsIn
  <2>1. t # {} => Max(t) \in 1 .. n
    BY <1>2, MaxIn
  <2>2. iter[t] = IF t = {} THEN base ELSE Ingested(iter[t \ {Max(t)}], dets[Max(t)], frm)
    BY <1>2, <1>8
  <2> QED
    BY <1>5, <2>1, <2>2
<1>10. PICK f : RunsThrough(V, f, iter, n, base, step)
  BY <1>2, <1>3, <1>4, <1>9, FoldRuns
<1>11. \A i \in 1 .. n : f[i] = Ingested(f[i - 1], dets[i], frm)
  <2> SUFFICES ASSUME NEW i \in 1 .. n PROVE f[i] = Ingested(f[i - 1], dets[i], frm)
    OBVIOUS
  <2>1. i - 1 \in 0 .. n
    BY <1>2
  <2> QED
    BY <1>5, <1>10, <2>1 DEF RunsThrough
<1>12. \E h \in [0 .. n -> V] :
         /\ h[0] = base
         /\ \A i \in 1 .. n : h[i] = Ingested(h[i - 1], dets[i], frm)
         /\ h[n] = IngestedAll(frm, old, dets)
  BY <1>1, <1>2, <1>10, <1>11 DEF RunsThrough
<1> QED
  BY <1>12 DEF V, n, base

\* The shields of process_frame after each of its steps.
Aged(dt) == [i \in DOMAIN shields |-> [shields[i] EXCEPT !.unseen = @ + dt]]

Held(f, dt) == [i \in DOMAIN Aged(dt) |-> Anchored(Aged(dt)[i], f)]

Taken(f, dets, dt) == IngestedAll(f, Held(f, dt), dets)

LEMMA ProcessSteps ==
  ASSUME NEW f, NEW dets, NEW dt
  PROVE  Process(f, dets, dt) =
           Only(Taken(f, dets, dt), {s \in ToSet(Taken(f, dets, dt)) : Kept(s)})
BY DEF Process, Taken, IngestedAll, Held, Aged

LEMMA AgedType ==
  ASSUME shields \in Seq(ShieldSet), NEW dt \in Nat
  PROVE  /\ Aged(dt) \in Seq(ShieldSet) /\ Len(Aged(dt)) = Len(shields)
         /\ \A i \in 1 .. Len(shields) :
              Aged(dt)[i].box = shields[i].box /\ Aged(dt)[i].anchors = shields[i].anchors
<1> DEFINE n == Len(shields)
           a == Aged(dt)
<1>1. n \in Nat /\ DOMAIN shields = 1 .. n /\ \A i \in 1 .. n : shields[i] \in ShieldSet
  OBVIOUS
<1>2. ASSUME NEW s \in ShieldSet
      PROVE  [s EXCEPT !.unseen = @ + dt] \in ShieldSet
             /\ [s EXCEPT !.unseen = @ + dt].box = s.box
             /\ [s EXCEPT !.unseen = @ + dt].anchors = s.anchors
  <2> DEFINE u == s.unseen + dt
             t == [s EXCEPT !.unseen = u]
  <2>1. u \in Nat
    BY DEF ShieldSet
  <2> HIDE DEF u
  <2>2. t \in ShieldSet /\ t.box = s.box /\ t.anchors = s.anchors
    BY <2>1 DEF ShieldSet
  <2>3. t = [s EXCEPT !.unseen = @ + dt]
    BY DEF u, ShieldSet
  <2> HIDE DEF t
  <2> QED
    BY <2>2, <2>3
<1>3. a = [i \in 1 .. n |-> [shields[i] EXCEPT !.unseen = @ + dt]]
  BY <1>1 DEF Aged
<1>4. \A i \in 1 .. n : a[i] = [shields[i] EXCEPT !.unseen = @ + dt]
  BY <1>3
<1>5. \A i \in 1 .. n : /\ a[i] \in ShieldSet /\ a[i].box = shields[i].box
                        /\ a[i].anchors = shields[i].anchors
  BY <1>1, <1>2, <1>4
<1> HIDE DEF n, a
<1>6. a \in [1 .. n -> ShieldSet]
  BY <1>3, <1>5
<1>7. a \in Seq(ShieldSet) /\ Len(a) = n
  BY <1>1, <1>6
<1> QED
  BY <1>5, <1>7 DEF n, a

LEMMA HeldType ==
  ASSUME shields \in Seq(ShieldSet), NEW dt \in Nat, NEW f \in Frames
  PROVE  /\ Held(f, dt) \in Seq(ShieldSet) /\ Len(Held(f, dt)) = Len(shields)
         /\ \A i \in 1 .. Len(shields) : Held(f, dt)[i] = Anchored(Aged(dt)[i], f)
<1> DEFINE n == Len(shields)
           a == Aged(dt)
           h == Held(f, dt)
<1>1. a \in Seq(ShieldSet) /\ Len(a) = n
  BY AgedType
<1>2. n \in Nat
  OBVIOUS
<1> HIDE DEF n, a
<1>3. DOMAIN a = 1 .. n /\ \A i \in 1 .. n : a[i] \in ShieldSet
  BY <1>1
<1>4. h = [i \in 1 .. n |-> Anchored(a[i], f)]
  BY <1>3 DEF Held, a
<1>5. \A i \in 1 .. n : h[i] = Anchored(a[i], f) /\ Anchored(a[i], f) \in ShieldSet
  BY <1>3, <1>4, AnchoredCases
<1> HIDE DEF h
<1>6. h \in [1 .. n -> ShieldSet]
  BY <1>4, <1>5
<1>7. h \in Seq(ShieldSet) /\ Len(h) = n
  BY <1>2, <1>6
<1> QED
  BY <1>5, <1>7 DEF n, a, h

LEMMA TakenType ==
  ASSUME shields \in Seq(ShieldSet), NEW dt \in Nat, NEW f \in Frames, NEW dets \in Seq(ScreenBoxes)
  PROVE  Taken(f, dets, dt) \in Seq(ShieldSet)
<1>1. Held(f, dt) \in Seq(ShieldSet) /\ Len(dets) \in Nat
  BY HeldType
<1>2. PICK r \in [0 .. Len(dets) -> Seq(ShieldSet)] : r[Len(dets)] = Taken(f, dets, dt)
  BY <1>1, IngestedRuns DEF Taken
<1> QED
  BY <1>1, <1>2

LEMMA ProcessType ==
  ASSUME shields \in Seq(ShieldSet), NEW dt \in Nat, NEW f \in Frames, NEW dets \in Seq(ScreenBoxes)
  PROVE  Process(f, dets, dt) \in Seq(ShieldSet)
BY TakenType, ProcessSteps, OnlyKeeps

\* Drawing: the shields padded and merged until no two overlap.
LEMMA DrawnCovers ==
  ASSUME NEW list \in Seq(ShieldSet), padding \in Int
  PROVE  /\ Drawn(list) \in Seq(VisibleBoxes) /\ Len(Drawn(list)) <= Len(list)
         /\ NothingToMerge(Drawn(list), merge_iou_threshold)
         /\ padding >= 0 =>
              \A i \in 1 .. Len(list) : \E j \in 1 .. Len(Drawn(list)) :
                Covers(Drawn(list)[j], list[i].box)
<1> DEFINE n == Len(list)
           p == [i \in DOMAIN list |-> Expanded(list[i].box, padding)]
           r == Drawn(list)
<1>1. r = Merged(p, merge_iou_threshold)
  BY DEF Drawn
<1>2. n \in Nat /\ DOMAIN list = 1 .. n
  OBVIOUS
<1>3. \A i \in 1 .. n : list[i].box \in ScreenBoxes
  BY ShieldFields
<1>4. \A i \in 1 .. n : p[i] = Expanded(list[i].box, padding) /\ p[i] \in VisibleBoxes
  BY <1>2, <1>3, ExpandedIsAround
<1>5. p \in [1 .. n -> VisibleBoxes]
  BY <1>2, <1>4
<1> HIDE DEF p
<1>6. p \in Seq(VisibleBoxes) /\ Len(p) = n
  BY <1>2, <1>5
<1> HIDE DEF n, r
<1>7. Mergeable(VisibleBoxes, merge_iou_threshold)
  BY VisibleMerge DEF merge_iou_threshold
<1>8. /\ r \in Seq(VisibleBoxes) /\ Len(r) <= n /\ NothingToMerge(r, merge_iou_threshold)
      /\ \A i \in 1 .. n : \E j \in 1 .. Len(r) : Covers(r[j], p[i])
  BY <1>1, <1>6, <1>7, MergedMerges
<1>9. ASSUME padding >= 0, NEW i \in 1 .. n
      PROVE  \E j \in 1 .. Len(r) : Covers(r[j], list[i].box)
  <2>1. PICK j \in 1 .. Len(r) : Covers(r[j], p[i])
    BY <1>8
  <2>2. Covers(p[i], list[i].box)
    BY <1>3, <1>4, <1>9, ExpandedIsAround
  <2>3. r[j] \in IntBoxes /\ p[i] \in IntBoxes /\ list[i].box \in IntBoxes
    BY <1>3, <1>4, <1>8 DEF ScreenBoxes, VisibleBoxes
  <2> QED
    BY <2>1, <2>2, <2>3, CoversThrough
<1> QED
  BY <1>8, <1>9 DEF n, r

-----------------------------------------------------------------------------
(* The inductive invariant of the anchor tracker                            *)

\* What is drawn was merged to its end, and what can be seen of it is on the
\* screen, whatever the padding.
AnchorInv ==
  /\ padding \in Paddings \cup {35}
  /\ shields \in Seq(ShieldSet)
  /\ shown \in Seq(VisibleBoxes) /\ NothingToMerge(shown, merge_iou_threshold)
  /\ frame \in Frames \cup {NoFrame} /\ report \in Reports \cup {<<>>}
  /\ reported_in \subseteq {g.picture : g \in Frames} /\ quiet \in Nat
  /\ frames \in 0 .. MaxFrames

LEMMA AnchorStarts == AnchorInit => AnchorInv
<1> SUFFICES ASSUME AnchorInit PROVE AnchorInv
  OBVIOUS
<1>1. <<>> \in Seq(ShieldSet) /\ <<>> \in Seq(VisibleBoxes)
  OBVIOUS
<1>2. NothingToMerge(<<>>, merge_iou_threshold)
  BY DEF NothingToMerge
<1> QED
  BY <1>1, <1>2, MaxFramesAssumption DEF AnchorInit, AnchorInv

LEMMA AnchorSteps == AnchorInv /\ [AnchorNext]_anchorVars => AnchorInv'
<1> SUFFICES ASSUME AnchorInv, [AnchorNext]_anchorVars PROVE AnchorInv'
  OBVIOUS
<1>1. padding \in Int
  BY PaddingsAssumption DEF AnchorInv
<1>2. CASE process_frame
  <2>1. PICK f \in Frames, dets \in Reports, dt \in Steps :
          /\ frames < MaxFrames
          /\ shields' = Process(f, dets, dt)
          /\ shown' = Drawn(shields')
          /\ frame' = f /\ report' = dets
          /\ reported_in' = IF dets = <<>> THEN reported_in ELSE reported_in \cup {f.picture}
          /\ quiet' = IF dets = <<>> /\ f.picture \notin reported_in THEN quiet + dt ELSE 0
          /\ frames' = frames + 1
          /\ UNCHANGED padding
    BY <1>2 DEF process_frame
  <2>2. dt \in Nat /\ dets \in Seq(ScreenBoxes)
    BY StepsAssumption, ReportsAreOnScreen
  <2>3. shields' \in Seq(ShieldSet)
    BY <2>1, <2>2, ProcessType DEF AnchorInv
  <2>4. shown' \in Seq(VisibleBoxes) /\ NothingToMerge(shown', merge_iou_threshold)
    BY <1>1, <2>1, <2>3, DrawnCovers
  <2>5. reported_in' \subseteq {g.picture : g \in Frames} /\ quiet' \in Nat
    BY <2>1, <2>2 DEF AnchorInv
  <2>6. frames' \in 0 .. MaxFrames
    BY <2>1, MaxFramesAssumption DEF AnchorInv
  <2> QED
    BY <2>1, <2>3, <2>4, <2>5, <2>6 DEF AnchorInv, NothingToMerge
<1>3. CASE set_config
  BY <1>3 DEF set_config, AnchorInv, lastVars, NothingToMerge
<1>4. CASE reset
  <2>1. <<>> \in Seq(ShieldSet)
    OBVIOUS
  <2> QED
    BY <1>4, <2>1 DEF reset, AnchorInv, lastVars, NothingToMerge
<1>5. CASE UNCHANGED anchorVars
  BY <1>5 DEF anchorVars, AnchorInv, lastVars, NothingToMerge
<1> QED
  BY <1>2, <1>3, <1>4, <1>5 DEF AnchorNext

-----------------------------------------------------------------------------
(* The detector's suppression                                               *)

\* What the suppression does with one candidate.
Keep(kept, c) ==
  IF \E i \in DOMAIN kept : Overlaps(kept[i].box, c.box, nms_iou_threshold)
    THEN kept ELSE Append(kept, c)

LEMMA SuppressRuns ==
  ASSUME NEW S, NEW s \in Seq(S)
  PROVE  \E f \in [0 .. Len(s) -> Seq(S)] :
           /\ f[0] = <<>>
           /\ \A i \in 1 .. Len(s) : f[i] = Keep(f[i - 1], s[i])
           /\ f[Len(s)] = Suppress(s)
<1> DEFINE n == Len(s)
           V == Seq(S)
           step == [p \in V \X (1 .. n) |-> Keep(p[1], s[p[2]])]
           Body(g) == [t \in SUBSET (DOMAIN s) |->
                        IF t = {} THEN <<>> ELSE Keep(g[t \ {Max(t)}], s[Max(t)])]
           iter == CHOOSE g : g = Body(g)
<1>1. Suppress(s) = iter[DOMAIN s]
  BY DEF Suppress, FoldLeft, MapThenFoldSet, Keep
<1>2. n \in Nat /\ DOMAIN s = 1 .. n /\ \A i \in 1 .. n : s[i] \in S
  OBVIOUS
<1>3. <<>> \in V
  OBVIOUS
<1> HIDE DEF V, n
<1>4. step \in [V \X (1 .. n) -> V]
  <2>1. \A kept \in V, i \in 1 .. n : Keep(kept, s[i]) \in V
    BY <1>2 DEF Keep, V
  <2> QED
    BY <2>1
<1>5. \A v \in V, i \in 1 .. n : step[<<v, i>>] = Keep(v, s[i])
  OBVIOUS
<1> HIDE DEF step
<1>6. PICK g \in [SUBSET (1 .. n) -> V] : SolvesFold(g, n, <<>>, step)
  BY <1>2, <1>3, <1>4, FoldExists
<1>7. g = Body(g)
  <2>1. ASSUME NEW t \in SUBSET (1 .. n), t # {}
        PROVE  g[t] = Keep(g[t \ {Max(t)}], s[Max(t)])
    <3>1. Max(t) \in 1 .. n /\ t \ {Max(t)} \in SUBSET (1 .. n)
      BY <1>2, <2>1, MaxIn
    <3>2. g[t \ {Max(t)}] \in V
      BY <3>1
    <3> QED
      BY <1>5, <1>6, <2>1, <3>1, <3>2 DEF SolvesFold
  <2> QED
    BY <1>2, <1>6, <2>1 DEF SolvesFold
<1>8. iter = Body(iter)
  BY <1>7
<1> HIDE DEF iter
<1>9. UnfoldsIn(V, iter, n, <<>>, step)
  <2> SUFFICES ASSUME NEW t \in SUBSET (1 .. n)
      PROVE  IF t = {} THEN iter[t] = <<>>
             ELSE iter[t \ {Max(t)}] \in V => iter[t] = step[<<iter[t \ {Max(t)}], Max(t)>>]
    BY DEF UnfoldsIn
  <2>1. t # {} => Max(t) \in 1 .. n
    BY <1>2, MaxIn
  <2>2. iter[t] = IF t = {} THEN <<>> ELSE Keep(iter[t \ {Max(t)}], s[Max(t)])
    BY <1>2, <1>8
  <2> QED
    BY <1>5, <2>1, <2>2
<1>10. PICK f : RunsThrough(V, f, iter, n, <<>>, step)
  BY <1>2, <1>3, <1>4, <1>9, FoldRuns
<1>11. \A i \in 1 .. n : f[i] = Keep(f[i - 1], s[i])
  <2> SUFFICES ASSUME NEW i \in 1 .. n PROVE f[i] = Keep(f[i - 1], s[i])
    OBVIOUS
  <2>1. i - 1 \in 0 .. n
    BY <1>2
  <2> QED
    BY <1>5, <1>10, <2>1 DEF RunsThrough
<1>12. \E h \in [0 .. n -> V] :
         /\ h[0] = <<>>
         /\ \A i \in 1 .. n : h[i] = Keep(h[i - 1], s[i])
         /\ h[n] = Suppress(s)
  BY <1>1, <1>2, <1>10, <1>11 DEF RunsThrough
<1> QED
  BY <1>12 DEF V, n

\* The suppression of candidates in the order of their confidence: each one is
\* represented by a kept one, and no two kept ones overlap.
LEMMA SuppressKeeps ==
  ASSUME NEW S, \A c \in S : c.box \in IntBoxes /\ c.confidence \in Int,
         NEW s \in Seq(S),
         \A i, j \in 1 .. Len(s) : i < j => s[i].confidence >= s[j].confidence
  PROVE  LET kept == Suppress(s) IN
         /\ kept \in Seq(S)
         /\ \A j \in 1 .. Len(s) : \E i \in DOMAIN kept :
              /\ kept[i].confidence >= s[j].confidence
              /\ kept[i] = s[j] \/ Overlaps(kept[i].box, s[j].box, nms_iou_threshold)
         /\ \A i, j \in DOMAIN kept :
              i # j => ~Overlaps(kept[i].box, kept[j].box, nms_iou_threshold)
<1> DEFINE n == Len(s)
           Stands(k, c) == /\ k.confidence >= c.confidence
                           /\ k = c \/ Overlaps(k.box, c.box, nms_iou_threshold)
           Apart(b, c) == ~Overlaps(b, c, nms_iou_threshold)
<1>1. PICK f \in [0 .. n -> Seq(S)] :
        /\ f[0] = <<>>
        /\ \A i \in 1 .. n : f[i] = Keep(f[i - 1], s[i])
        /\ f[n] = Suppress(s)
  BY SuppressRuns
<1>2. n \in Nat /\ \A i \in 1 .. n : s[i] \in S
  OBVIOUS
<1> HIDE DEF n
<1> DEFINE From(k, m) == \A i \in DOMAIN k : \E j \in 1 .. m : k[i] = s[j]
           All(k, m) == \A j \in 1 .. m : \E i \in DOMAIN k : Stands(k[i], s[j])
           Disjoint(k) == \A i, j \in DOMAIN k : i # j => Apart(k[i].box, k[j].box)
           T == {m \in 0 .. n : From(f[m], m) /\ All(f[m], m) /\ Disjoint(f[m])}
<1>3. 0 \in T
  BY <1>1, <1>2
<1> HIDE DEF From, All, Disjoint
<1>4. ASSUME NEW m \in 0 .. n - 1, m \in T PROVE m + 1 \in T
  <2> DEFINE k == f[m]
             c == s[m + 1]
             next == f[m + 1]
  <2>1. k \in Seq(S) /\ c \in S /\ next = Keep(k, c) /\ From(k, m) /\ All(k, m) /\ Disjoint(k)
        /\ m \in Nat
    BY <1>1, <1>2, <1>4
  <2>2. ASSUME NEW i \in DOMAIN k PROVE k[i] \in S /\ k[i].confidence >= c.confidence
    <3>1. PICK j \in 1 .. m : k[i] = s[j]
      BY <2>1 DEF From
    <3>2. s[j] \in S /\ s[j].confidence >= s[m + 1].confidence
      BY <1>2, <2>1, <3>1, SMTT(40) DEF n
    <3> QED
      BY <3>1, <3>2
  <2>3. Stands(c, c)
    BY <2>1
  <2> HIDE DEF k, c, next, Stands, Apart
  <2>4. CASE \E i \in DOMAIN k : Overlaps(k[i].box, c.box, nms_iou_threshold)
    <3>1. next = k
      BY <2>1, <2>4 DEF Keep
    <3>2. \E i \in DOMAIN k : Stands(k[i], c)
      BY <2>2, <2>4 DEF Stands
    <3>3. From(next, m + 1)
      BY <2>1, <3>1 DEF From
    <3>4. All(next, m + 1)
      <4> SUFFICES ASSUME NEW j \in 1 .. m + 1 PROVE \E i \in DOMAIN next : Stands(next[i], s[j])
        BY DEF All
      <4>1. CASE j = m + 1
        BY <3>1, <3>2, <4>1 DEF c
      <4>2. CASE j \in 1 .. m
        BY <2>1, <3>1, <4>2 DEF All
      <4> QED
        BY <2>1, <4>1, <4>2
    <3>5. From(f[m + 1], m + 1) /\ All(f[m + 1], m + 1) /\ Disjoint(f[m + 1])
      BY <2>1, <3>1, <3>3, <3>4 DEF next
    <3>6. m + 1 \in 0 .. n
      BY <1>2
    <3> QED
      BY <3>5, <3>6, Zenon
  <2>5. CASE ~\E i \in DOMAIN k : Overlaps(k[i].box, c.box, nms_iou_threshold)
    <3>1. next = Append(k, c)
      BY <2>1, <2>5 DEF Keep
    <3>2. /\ DOMAIN k = 1 .. Len(k) /\ Len(k) \in Nat
          /\ DOMAIN next = 1 .. Len(k) + 1
          /\ \A i \in 1 .. Len(k) : next[i] = k[i]
          /\ next[Len(k) + 1] = c
      BY <2>1, <3>1
    <3>3. From(next, m + 1)
      <4> SUFFICES ASSUME NEW i \in DOMAIN next PROVE \E j \in 1 .. m + 1 : next[i] = s[j]
        BY DEF From
      <4>1. CASE i = Len(k) + 1
        BY <2>1, <3>2, <4>1 DEF c
      <4>2. CASE i \in 1 .. Len(k)
        <5>1. \E j \in 1 .. m : k[i] = s[j]
          BY <2>1, <3>2, <4>2 DEF From
        <5> QED
          BY <2>1, <3>2, <4>2, <5>1
      <4> QED
        BY <3>2, <4>1, <4>2
    <3>4. All(next, m + 1)
      <4> SUFFICES ASSUME NEW j \in 1 .. m + 1 PROVE \E i \in DOMAIN next : Stands(next[i], s[j])
        BY DEF All
      <4>1. CASE j = m + 1
        BY <2>3, <3>2, <4>1 DEF c
      <4>2. CASE j \in 1 .. m
        <5>1. PICK i \in 1 .. Len(k) : Stands(k[i], s[j])
          BY <2>1, <3>2, <4>2 DEF All
        <5>2. i \in DOMAIN next /\ Stands(next[i], s[j])
          BY <3>2, <5>1
        <5> QED
          BY <5>2
      <4> QED
        BY <2>1, <4>1, <4>2
    <3>5. Disjoint(next)
      <4>1. \A i \in 1 .. Len(k) : Apart(k[i].box, c.box) /\ Apart(c.box, k[i].box)
        BY <2>1, <2>2, <2>5, <3>2, OverlapsBothWays DEF Apart
      <4>2. \A i, j \in 1 .. Len(k) : i # j => Apart(k[i].box, k[j].box)
        BY <2>1, <3>2 DEF Disjoint
      <4>3. ASSUME NEW i \in DOMAIN next, NEW j \in DOMAIN next, i # j
            PROVE  Apart(next[i].box, next[j].box)
        BY <3>2, <4>1, <4>2, <4>3
      <4> QED
        BY <4>3 DEF Disjoint
    <3>6. From(f[m + 1], m + 1) /\ All(f[m + 1], m + 1) /\ Disjoint(f[m + 1])
      BY <3>3, <3>4, <3>5 DEF next
    <3>7. m + 1 \in 0 .. n
      BY <1>2
    <3> QED
      BY <3>6, <3>7, Zenon
  <2> QED
    BY <2>4, <2>5
<1> HIDE DEF T
<1>5. 0 .. n \subseteq T
  BY <1>2, <1>3, <1>4, NumbersUpTo
<1>6. n \in T
  BY <1>2, <1>5
<1>7. f[n] \in Seq(S)
  BY <1>1, <1>2
<1> QED
  BY <1>1, <1>6, <1>7, ZenonT(40) DEF T, n, From, All, Disjoint, Stands, Apart

-----------------------------------------------------------------------------
(* The detector's mapping                                                   *)

\* Division rounds down.
LEMMA Division ==
  ASSUME NEW a \in Int, NEW b \in Nat \ {0}
  PROVE  /\ a \div b \in Int
         /\ b * (a \div b) <= a
         /\ a < b * ((a \div b) + 1)
OBVIOUS

LEMMA ProductGrows ==
  ASSUME NEW a \in Int, NEW b \in Int, NEW c \in Nat, a <= b
  PROVE  a * c <= b * c /\ c * a <= c * b
OBVIOUS

LEMMA ProductGrowsStrictly ==
  ASSUME NEW a \in Int, NEW b \in Int, NEW c \in Nat \ {0}, a < b
  PROVE  a * c < b * c /\ c * a < c * b
OBVIOUS

\* A scaled side is at least a pixel long and no longer than the canvas, and
\* rounded to the nearest (image_preprocessor.cpp).
LEMMA ScaledSide ==
  ASSUME NEW longest \in Nat \ {0}, NEW side \in 1 .. longest
  PROVE  LET s == Scaled(side, longest) IN
         /\ s \in 1 .. Canvas
         /\ 2 * side * Canvas < (2 * s + 1) * longest
         /\ s > 1 => 2 * s * longest <= 2 * side * Canvas + longest
<1> DEFINE a == 2 * side * Canvas + longest
           q == a \div (2 * longest)
           s == Scaled(side, longest)
<1>1. Canvas \in Nat \ {0} /\ side * Canvas \in Nat /\ side * Canvas <= longest * Canvas
  <2>1. Canvas \in Nat /\ Canvas # 0
    BY CanvasAssumption
  <2>2. side \in Int /\ longest \in Int /\ 0 <= side /\ side <= longest
    OBVIOUS
  <2>3. 0 * Canvas <= side * Canvas /\ side * Canvas <= longest * Canvas
    BY <2>1, <2>2, ProductGrows
  <2> QED
    BY <2>1, <2>2, <2>3
<1>2. q \in Int /\ 2 * longest * q <= a /\ a < 2 * longest * (q + 1)
  <2>1. a \in Int /\ 2 * longest \in Nat \ {0}
    BY <1>1
  <2> QED
    BY <2>1, Division
<1>3. q <= Canvas
  <2>1. SUFFICES ASSUME Canvas + 1 <= q PROVE FALSE
    BY <1>1, <1>2
  <2>2. 2 * longest * (Canvas + 1) <= 2 * longest * q
    BY <1>1, <1>2, <2>1, ProductGrows
  <2> QED
    BY <1>1, <1>2, <2>2
<1>4. s = Greatest(1, Least(q, Canvas))
  BY DEF Scaled, Clamp
<1> HIDE DEF q, s
<1>5. s \in 1 .. Canvas /\ q <= s /\ (s > 1 => s = q)
  BY <1>1, <1>2, <1>3, <1>4 DEF Greatest, Least
<1>6. 2 * longest * (q + 1) <= 2 * longest * (s + 1)
  BY <1>2, <1>5, ProductGrows
<1> QED
  BY <1>1, <1>2, <1>5, <1>6 DEF s

\* Along one side: pixel u of the scaled side shows a pixel of the frame that
\* lies below whatever the box that holds u is mapped to.
LEMMA OneSide ==
  ASSUME NEW longest \in Nat \ {0}, NEW side \in 1 .. longest,
         NEW u \in 0 .. Scaled(side, longest) - 1,
         NEW from \in Int, from <= u, NEW to \in Int, u + 1 <= to
  PROVE  Below(Least((u * longest) \div Canvas, side - 1),
               from, to, side, Scaled(side, longest), longest)
<1> DEFINE s == Scaled(side, longest)
           r == (u * longest) \div Canvas
           p == Least(r, side - 1)
<1>1. Canvas \in Nat \ {0} /\ side \in Nat \ {0} /\ longest \in Nat \ {0}
  BY CanvasAssumption
<1>2. /\ s \in 1 .. Canvas
      /\ 2 * side * Canvas < (2 * s + 1) * longest
      /\ s > 1 => 2 * s * longest <= 2 * side * Canvas + longest
  BY ScaledSide
<1>3. u \in Nat /\ u + 1 <= s /\ s \in Nat \ {0}
  BY <1>2
<1>4. r \in Int /\ Canvas * r <= u * longest /\ u * longest < Canvas * (r + 1)
  BY <1>1, <1>3, Division
<1>5. p \in Int /\ p <= r /\ (p = r \/ p = side - 1)
  BY <1>1, <1>4 DEF Least
<1> HIDE DEF s, r, p
<1>6. from * (2 * Canvas * side) <= u * (2 * Canvas * side)
  BY <1>1, <1>3, ProductGrows
<1>7. 2 * Canvas * u * side < (2 * Canvas * (p + 1) + longest) * s
  <2>1. CASE p = r
    <3>1. u * (2 * side * Canvas) <= u * ((2 * s + 1) * longest)
      BY <1>1, <1>2, <1>3, ProductGrows
    <3>2. u * longest < s * longest
      BY <1>1, <1>3, ProductGrowsStrictly
    <3>3. 2 * (u * longest) + longest < 2 * Canvas * (p + 1) + longest
      BY <1>1, <1>3, <1>4, <2>1
    <3>4. (2 * (u * longest) + longest) * s < (2 * Canvas * (p + 1) + longest) * s
      BY <1>1, <1>3, <1>5, <3>3, ProductGrowsStrictly
    <3>5. (2 * (u * longest) + longest) * s = 2 * (u * s * longest) + s * longest
      BY <1>1, <1>3
    <3>6. u * ((2 * s + 1) * longest) = 2 * (u * s * longest) + u * longest
      BY <1>1, <1>3
    <3>7. 2 * Canvas * u * side = u * (2 * side * Canvas)
      BY <1>1, <1>3
    <3> QED
      BY <1>1, <1>3, <1>5, <3>1, <3>2, <3>4, <3>5, <3>6, <3>7
  <2>2. CASE p = side - 1
    <3>1. u * (2 * Canvas * side) <= s * (2 * Canvas * side)
      BY <1>1, <1>3, ProductGrows
    <3>2. 0 * s < longest * s
      BY <1>1, <1>3, ProductGrowsStrictly
    <3>3. (2 * Canvas * (p + 1) + longest) * s = s * (2 * Canvas * side) + longest * s
      BY <1>1, <1>3, <2>2
    <3>4. 2 * Canvas * u * side = u * (2 * Canvas * side)
      BY <1>1, <1>3
    <3> QED
      BY <1>1, <1>3, <1>5, <3>1, <3>2, <3>3, <3>4
  <2> QED
    BY <1>5, <2>1, <2>2
<1>8. p * s < (u + 1) * side
  <2>1. CASE s = 1
    <3>1. u * longest = 0 /\ p <= 0
      BY <1>1, <1>3, <1>4, <1>5, <2>1
    <3> QED
      BY <1>1, <1>3, <1>5, <2>1, <3>1
  <2>2. CASE s > 1
    <3>1. 2 * s * longest <= 2 * side * Canvas + longest
      BY <1>2, <2>2
    <3>2. u * longest <= (s - 1) * longest
      BY <1>1, <1>3, ProductGrows
    <3>3. u * longest < side * Canvas
      BY <1>1, <1>3, <3>1, <3>2
    <3>4. u * (2 * s * longest) <= u * (2 * side * Canvas + longest)
      BY <1>1, <1>3, <3>1, ProductGrows
    <3>5. p * (Canvas * s) <= r * (Canvas * s)
      BY <1>1, <1>3, <1>4, <1>5, ProductGrows
    <3>6. (Canvas * r) * s <= (u * longest) * s
      BY <1>1, <1>3, <1>4, ProductGrows
    <3>7. 2 * (Canvas * (p * s)) <= 2 * ((u * longest) * s)
      BY <1>1, <1>3, <1>4, <1>5, <3>5, <3>6
    <3>8. 2 * ((u * longest) * s) <= 2 * (Canvas * (u * side)) + u * longest
      BY <1>1, <1>3, <3>4
    <3>9. Canvas * (p * s) < Canvas * ((u + 1) * side)
      BY <1>1, <1>3, <1>5, <3>3, <3>7, <3>8
    <3>10. p * s \in Int /\ (u + 1) * side \in Int
      BY <1>1, <1>3, <1>5
    <3>11. (u + 1) * side <= p * s => Canvas * ((u + 1) * side) <= Canvas * (p * s)
      BY <1>1, <3>10, ProductGrows
    <3> QED
      BY <1>1, <3>9, <3>10, <3>11
  <2> QED
    BY <1>3, <2>1, <2>2
<1>9. (u + 1) * side <= to * side
  BY <1>1, <1>3, ProductGrows
<1>10. 2 * Canvas * from * side < (2 * Canvas * (p + 1) + longest) * s
  <2>1. 2 * Canvas * from * side = from * (2 * Canvas * side)
        /\ 2 * Canvas * u * side = u * (2 * Canvas * side)
    BY <1>1, <1>3
  <2> QED
    BY <1>1, <1>3, <1>5, <1>6, <1>7, <2>1
<1>11. p * s < to * side
  BY <1>1, <1>3, <1>5, <1>8, <1>9
<1> QED
  BY <1>10, <1>11 DEF Below, s, p, r

\* One coordinate of Unmap: it is mapped into the picture, and a pixel of the
\* picture within the proposal stays within the box.
LEMMA UnmapOne ==
  ASSUME NEW s \in Nat \ {0}, NEW pad \in Int, NEW centre \in Int, NEW size \in Int,
         NEW v \in (centre - size \div 2) .. (centre + size \div 2 - 1),
         v - pad \in 0 .. s - 1
  PROVE  LET from == Clamp(centre - pad - size \div 2, 0, s)
             to == from + Clamp(size, 0, s - from)
         IN from \in Int /\ to \in Int /\ from <= v - pad /\ v - pad + 1 <= to
<1> DEFINE half == size \div 2
<1>1. half \in Int /\ 2 * half <= size /\ size < 2 * (half + 1)
  BY Division
<1> HIDE DEF half
<1>2. v \in Int /\ centre - half <= v /\ v <= centre + half - 1
  BY <1>1 DEF half
<1> QED
  BY <1>1, <1>2 DEF half, Clamp, Greatest, Least

\* What the model saw within a proposal is below the box it is mapped to.
LEMMA MappedHides ==
  ASSUME NEW width \in Nat \ {0}, NEW height \in Nat \ {0}, NEW p \in Proposals,
         NEW x \in (p.cx - p.w \div 2) .. (p.cx + p.w \div 2 - 1),
         NEW y \in (p.cy - p.h \div 2) .. (p.cy + p.h \div 2 - 1),
         InPicture(Letterbox(width, height), x, y)
  PROVE  LET l == Letterbox(width, height)
         IN Hides(Unmap(p, l).box, l, SourcePixel(l, x, y))
<1> DEFINE longest == Greatest(width, height)
           sw == Scaled(width, longest)
           sh == Scaled(height, longest)
           padx == (Canvas - sw) \div 2
           pady == (Canvas - sh) \div 2
           l == Letterbox(width, height)
           b == Unmap(p, l).box
           u == x - padx
           v == y - pady
           px == Least((u * longest) \div Canvas, width - 1)
           py == Least((v * longest) \div Canvas, height - 1)
<1>1. longest \in Nat \ {0} /\ width \in 1 .. longest /\ height \in 1 .. longest
  BY DEF Greatest
<1>2. l.width = width /\ l.height = height /\ l.scaled_w = sw /\ l.scaled_h = sh
      /\ l.pad_x = padx /\ l.pad_y = pady
  BY DEF Letterbox
<1>3. SourcePixel(l, x, y)[1] = px /\ SourcePixel(l, x, y)[2] = py
  BY <1>2 DEF SourcePixel
<1>4. /\ b.x = Clamp(p.cx - padx - p.w \div 2, 0, sw)
      /\ b.y = Clamp(p.cy - pady - p.h \div 2, 0, sh)
      /\ Right(b) = b.x + Clamp(p.w, 0, sw - b.x)
      /\ Bottom(b) = b.y + Clamp(p.h, 0, sh - b.y)
  BY <1>2 DEF Unmap, Box, Right, Bottom
<1>5. sw \in 1 .. Canvas /\ sh \in 1 .. Canvas /\ Canvas \in Nat
  BY <1>1, ScaledSide, CanvasAssumption
<1>6. u \in 0 .. sw - 1 /\ v \in 0 .. sh - 1
  BY <1>2 DEF InPicture
<1>7. padx \in Int /\ pady \in Int
  BY <1>5, Division
<1>8. p.cx \in Int /\ p.cy \in Int /\ p.w \in Int /\ p.h \in Int
  BY ProposalsAssumption
<1> HIDE DEF longest, sw, sh, padx, pady, l, b
<1>9. b.x \in Int /\ Right(b) \in Int /\ b.x <= u /\ u + 1 <= Right(b)
  <2>1. sw \in Nat \ {0} /\ x - padx \in 0 .. sw - 1
    BY <1>5, <1>6
  <2>2. LET from == Clamp(p.cx - padx - p.w \div 2, 0, sw)
            to == from + Clamp(p.w, 0, sw - from)
        IN from \in Int /\ to \in Int /\ from <= x - padx /\ x - padx + 1 <= to
    BY <1>7, <1>8, <2>1, UnmapOne
  <2> QED
    BY <1>4, <2>2
<1>10. b.y \in Int /\ Bottom(b) \in Int /\ b.y <= v /\ v + 1 <= Bottom(b)
  <2>1. sh \in Nat \ {0} /\ y - pady \in 0 .. sh - 1
    BY <1>5, <1>6
  <2>2. LET from == Clamp(p.cy - pady - p.h \div 2, 0, sh)
            to == from + Clamp(p.h, 0, sh - from)
        IN from \in Int /\ to \in Int /\ from <= y - pady /\ y - pady + 1 <= to
    BY <1>7, <1>8, <2>1, UnmapOne
  <2> QED
    BY <1>4, <2>2
<1>11. Below(px, b.x, Right(b), width, sw, longest)
  BY <1>1, <1>6, <1>9, OneSide DEF sw
<1>12. Below(py, b.y, Bottom(b), height, sh, longest)
  BY <1>1, <1>6, <1>10, OneSide DEF sh
<1>13. Greatest(l.width, l.height) = longest
  BY <1>2 DEF longest
<1> HIDE DEF px, py
<1>14. Hides(b, l, SourcePixel(l, x, y))
  BY <1>2, <1>3, <1>11, <1>12, <1>13 DEF Hides
<1> QED
  BY <1>14 DEF l, b

\* A proposal has a best class.
LEMMA BestClassIsScored ==
  ASSUME NEW p \in Proposals
  PROVE  BestClass(p) \in DOMAIN p.score /\ p.score[BestClass(p)] \in Int
<1> DEFINE best == {c \in DOMAIN p.score : \A d \in DOMAIN p.score : p.score[d] <= p.score[c]}
           T == {k \in Nat : \E c \in DOMAIN p.score : k = 100 - p.score[c]}
<1>1. /\ DOMAIN p.score \subseteq Nat /\ DOMAIN p.score # {}
      /\ \A c \in DOMAIN p.score : p.score[c] \in 0 .. 100
  BY ProposalsAssumption
<1>2. best # {}
  <2>1. PICK c \in DOMAIN p.score : TRUE
    BY <1>1
  <2>2. 100 - p.score[c] \in T
    BY <1>1
  <2>3. PICK m \in T : \A k \in T : m <= k
    BY <2>2, LeastNumber, ZenonT(40)
  <2>4. PICK b \in DOMAIN p.score : m = 100 - p.score[b]
    OBVIOUS
  <2>5. ASSUME NEW d \in DOMAIN p.score PROVE p.score[d] <= p.score[b]
    <3>1. 100 - p.score[d] \in T
      BY <1>1
    <3> HIDE DEF T
    <3>2. m <= 100 - p.score[d]
      BY <2>3, <3>1
    <3>3. p.score[d] \in 0 .. 100 /\ p.score[b] \in 0 .. 100
      BY <1>1
    <3> QED
      BY <2>4, <3>2, <3>3, SMTT(40)
  <2> QED
    BY <2>5
<1>3. best \subseteq Nat
  BY <1>1
<1>4. \E c \in best : \A d \in best : c <= d
  BY <1>2, <1>3, LeastNumber
<1>5. BestClass(p) \in best
  BY <1>4, Zenon DEF BestClass
<1> QED
  BY <1>1, <1>5

\* What detect hands to the suppression are finitely many boxes of whole
\* numbers with a confidence.
LEMMA CandidatesAreBoxes ==
  ASSUME NEW width \in Nat \ {0}, NEW height \in Nat \ {0}, NEW ps \in SUBSET Proposals
  PROVE  LET cs == Candidates(ps, Letterbox(width, height)) IN
         /\ IsFiniteSet(cs)
         /\ \A c \in cs : c.box \in IntBoxes /\ c.confidence \in Int
<1> DEFINE l == Letterbox(width, height)
           cs == Candidates(ps, l)
           longest == Greatest(width, height)
<1>1. l.scaled_w \in Int /\ l.scaled_h \in Int /\ l.pad_x \in Int /\ l.pad_y \in Int
  <2>1. longest \in Nat \ {0} /\ width \in 1 .. longest /\ height \in 1 .. longest
    BY DEF Greatest
  <2>2. Scaled(width, longest) \in Int /\ Scaled(height, longest) \in Int /\ Canvas \in Int
    BY <2>1, ScaledSide, CanvasAssumption
  <2>3. l.scaled_w = Scaled(width, longest) /\ l.scaled_h = Scaled(height, longest)
        /\ l.pad_x = (Canvas - Scaled(width, longest)) \div 2
        /\ l.pad_y = (Canvas - Scaled(height, longest)) \div 2
    BY DEF Letterbox
  <2> QED
    BY <2>2, <2>3, Division
<1> HIDE DEF l
<1>2. \A a, b \in Int : Clamp(a, 0, b) \in Int
  BY DEF Clamp, Greatest, Least
<1>3. ASSUME NEW p \in Proposals
      PROVE  Unmap(p, l).box \in IntBoxes /\ Unmap(p, l).confidence \in Int
  <2> DEFINE x == Clamp(p.cx - l.pad_x - p.w \div 2, 0, l.scaled_w)
             y == Clamp(p.cy - l.pad_y - p.h \div 2, 0, l.scaled_h)
             w == Clamp(p.w, 0, l.scaled_w - x)
             h == Clamp(p.h, 0, l.scaled_h - y)
  <2>1. p.cx \in Int /\ p.cy \in Int /\ p.w \in Int /\ p.h \in Int
    BY ProposalsAssumption
  <2>2. p.w \div 2 \in Int /\ p.h \div 2 \in Int
    BY <2>1, Division
  <2>3. p.cx - l.pad_x - p.w \div 2 \in Int /\ p.cy - l.pad_y - p.h \div 2 \in Int
    BY <1>1, <2>1, <2>2
  <2>4. x \in Int /\ y \in Int
    BY <1>1, <1>2, <2>3, Zenon
  <2> HIDE DEF x, y
  <2>5. l.scaled_w - x \in Int /\ l.scaled_h - y \in Int
    BY <1>1, <2>4
  <2>6. w \in Int /\ h \in Int
    BY <1>2, <2>1, <2>5, Zenon
  <2>7. Unmap(p, l) = [box |-> Box(x, y, w, h), confidence |-> p.score[BestClass(p)]]
    BY DEF Unmap, x, y
  <2> HIDE DEF w, h
  <2>8. Box(x, y, w, h) \in IntBoxes
    BY <2>4, <2>6 DEF Box, IntBoxes
  <2> QED
    BY <2>7, <2>8, BestClassIsScored
<1>4. \A c \in cs : \E p \in Proposals : c = Unmap(p, l)
  BY DEF Candidates
<1>5. IsFiniteSet(cs)
  <2> DEFINE qs == {p \in ps : Explicit(p) /\ LargeEnough(Unmap(p, l).box, l)}
             F == [p \in qs |-> Unmap(p, l)]
  <2>1. IsFiniteSet(qs)
    <3>1. qs \in SUBSET Proposals
      OBVIOUS
    <3> HIDE DEF qs
    <3> QED
      BY <3>1, FS_Subset, ProposalsAssumption
  <2>2. F \in Surjection(qs, cs)
    <3>1. \A p \in qs : F[p] \in cs
      BY DEF Candidates
    <3>2. ASSUME NEW c \in cs PROVE \E p \in qs : F[p] = c
      BY DEF Candidates
    <3> QED
      BY <3>1, <3>2 DEF Surjection
  <2> HIDE DEF qs, F
  <2> QED
    BY <2>1, <2>2, FS_Surjection
<1>6. \A c \in cs : c.box \in IntBoxes /\ c.confidence \in Int
  BY <1>3, <1>4
<1> QED
  BY <1>5, <1>6 DEF l

\* A sequence of the elements of a finite set, each once, has all of them.
LEMMA SeqsHaveAll ==
  ASSUME NEW S, IsFiniteSet(S), NEW s \in SetToSeqs(S)
  PROVE  /\ s \in Seq(S)
         /\ \A c \in S : \E j \in 1 .. Len(s) : s[j] = c
<1> DEFINE n == Cardinality(S)
<1>1. n \in Nat /\ IsFiniteSet(1 .. n) /\ Cardinality(1 .. n) = n
  BY FS_CardinalityType, FS_Interval
<1>2. s \in [1 .. n -> S] /\ \A i, j \in 1 .. n : i # j => s[i] # s[j]
  BY DEF SetToSeqs
<1>3. s \in Injection(1 .. n, S)
  BY <1>2 DEF Injection, IsInjective
<1>4. s \in Surjection(1 .. n, S)
  BY <1>1, <1>3, FS_Injection
<1> HIDE DEF n
<1>5. s \in Seq(S) /\ Len(s) = n
  BY <1>1, <1>2
<1> QED
  BY <1>4, <1>5 DEF Surjection

\* A call of detect is faithful, whatever the model proposes.
LEMMA DetectStep ==
  ASSUME detect
  PROVE  DetectionsAreFaithful'
<1>1. PICK size \in FrameSizes, ps \in SUBSET Proposals :
        /\ letterbox' = Letterbox(size[1], size[2])
        /\ proposed' = ps
        /\ candidates' = Candidates(ps, letterbox')
        /\ \E s \in Sorted(candidates') : detected' = Suppress(s)
  BY DEF detect
<1>2. size[1] \in Nat \ {0} /\ size[2] \in Nat \ {0}
  BY FrameSizesAssumption
<1>3. SeenIsMapped'
  <2> SUFFICES ASSUME NEW p \in ps,
               NEW x \in (p.cx - p.w \div 2) .. (p.cx + p.w \div 2 - 1),
               NEW y \in (p.cy - p.h \div 2) .. (p.cy + p.h \div 2 - 1),
               InPicture(letterbox', x, y)
               PROVE  Hides(Unmap(p, letterbox').box, letterbox', SourcePixel(letterbox', x, y))
    BY <1>1 DEF SeenIsMapped
  <2> QED
    BY <1>1, <1>2, MappedHides
<1>4. KeptRepresentsAll'
  <2> DEFINE cs == Candidates(ps, letterbox')
  <2>1. IsFiniteSet(cs) /\ \A c \in cs : c.box \in IntBoxes /\ c.confidence \in Int
    BY <1>1, <1>2, CandidatesAreBoxes
  <2>2. PICK s \in Sorted(cs) : detected' = Suppress(s)
    BY <1>1
  <2>3. /\ s \in SetToSeqs(cs)
        /\ \A i, j \in DOMAIN s : i < j => s[i].confidence >= s[j].confidence
    BY DEF Sorted
  <2>4. candidates' = cs
    BY <1>1
  <2> HIDE DEF cs
  <2>5. s \in Seq(cs) /\ \A c \in cs : \E j \in 1 .. Len(s) : s[j] = c
    BY <2>1, <2>3, SeqsHaveAll
  <2>6. \A i, j \in 1 .. Len(s) : i < j => s[i].confidence >= s[j].confidence
    BY <2>3, <2>5
  <2>7. LET kept == Suppress(s) IN
        /\ kept \in Seq(cs)
        /\ \A j \in 1 .. Len(s) : \E i \in DOMAIN kept :
             /\ kept[i].confidence >= s[j].confidence
             /\ kept[i] = s[j] \/ Overlaps(kept[i].box, s[j].box, nms_iou_threshold)
        /\ \A i, j \in DOMAIN kept :
             i # j => ~Overlaps(kept[i].box, kept[j].box, nms_iou_threshold)
    BY <2>1, <2>5, <2>6, SuppressKeeps
  <2> DEFINE kept == Suppress(s)
             Stands(k, c) == /\ k.confidence >= c.confidence
                             /\ k = c \/ Overlaps(k.box, c.box, nms_iou_threshold)
  <2>8. ASSUME NEW c \in cs PROVE \E i \in DOMAIN kept : Stands(kept[i], c)
    <3>1. PICK j \in 1 .. Len(s) : s[j] = c
      BY <2>5
    <3>2. PICK i \in DOMAIN kept :
            /\ kept[i].confidence >= s[j].confidence
            /\ kept[i] = s[j] \/ Overlaps(kept[i].box, s[j].box, nms_iou_threshold)
      BY <2>7
    <3>3. Stands(kept[i], c)
      BY <3>1, <3>2, Zenon
    <3> QED
      BY <3>3
  <2>9. \A i, j \in DOMAIN kept :
          i # j => ~Overlaps(kept[i].box, kept[j].box, nms_iou_threshold)
    BY <2>7
  <2>10. detected' = kept
    BY <2>2
  <2> HIDE DEF kept
  <2> QED
    BY <2>4, <2>8, <2>9, <2>10 DEF KeptRepresentsAll
<1> QED
  BY <1>3, <1>4 DEF DetectionsAreFaithful

-----------------------------------------------------------------------------
(* The three parts share no state: each takes only steps of its own.        *)

LEMMA Parts ==
  Spec => /\ TrackerInit /\ [][TrackerNext]_trackerVars
          /\ AnchorInit /\ [][AnchorNext]_anchorVars
          /\ DetectorInit /\ [][DetectorNext]_detectorVars
<1>1. Init => TrackerInit /\ AnchorInit /\ DetectorInit
  BY DEF Init
<1>2. [Next]_vars => [TrackerNext]_trackerVars
  BY DEF Next, vars
<1>3. [Next]_vars => [AnchorNext]_anchorVars
  BY DEF Next, vars
<1>4. [Next]_vars => [DetectorNext]_detectorVars
  BY DEF Next, vars
<1> QED
  BY <1>1, <1>2, <1>3, <1>4, PTL DEF Spec

\* What the model saw of a region that counts is below the box that is
\* reported of it, and the suppression drops no region for good, for every
\* canvas, frame size, set of proposals and tie of their confidence
\* (onnx_detector.cpp and image_preprocessor.cpp).
THEOREM DetectionsStayFaithful == Spec => []DetectionsAreFaithful
<1>1. DetectorInit => DetectionsAreFaithful
  BY DEF DetectorInit, DetectionsAreFaithful, SeenIsMapped, KeptRepresentsAll
<1>2. DetectionsAreFaithful /\ [DetectorNext]_detectorVars => DetectionsAreFaithful'
  <2> SUFFICES ASSUME DetectionsAreFaithful, [DetectorNext]_detectorVars
               PROVE  DetectionsAreFaithful'
    OBVIOUS
  <2>1. CASE detect
    BY <2>1, DetectStep
  <2>2. CASE detect_fails
    BY <2>2 DEF detect_fails, DetectionsAreFaithful, SeenIsMapped, KeptRepresentsAll
  <2>3. CASE detector_init \/ UNCHANGED detectorVars
    BY <2>3 DEF detector_init, detectorVars, DetectionsAreFaithful, SeenIsMapped, KeptRepresentsAll
  <2> QED
    BY <2>1, <2>2, <2>3 DEF DetectorNext
<1> QED
  BY <1>1, <1>2, Parts, PTL

LEMMA SmoothStays == Spec => []SmoothInv
BY SmoothStarts, SmoothSteps, Parts, PTL

\* The instance counts with its own copy of Cardinality.
LEMMA SmoothingCardinality ==
  ASSUME NEW S
  PROVE  Smoothing!Cardinality(S) = Cardinality(S)
BY DEF Smoothing!Cardinality, Cardinality

\* Each step of the tracker is a step of what a smoothing tracker promises.
LEMMA SmoothStep ==
  ASSUME SmoothInv, TrackerNext
  PROVE  [Smoothing!HysteresisNext]_(Smoothing!abstractVars)
<1>1. CASE dg_tracker_create
  <2>1. PICK c \in Creations :
          tracker' = [window |-> OrDefault(c.window, 3), padding |-> OrDefault(c.padding, 15),
                      threshold |-> OrDefault(c.threshold, 25)]
    BY <1>1 DEF dg_tracker_create
  <2>2. tracker'.window \in {OrDefault(d.window, 3) : d \in Creations}
    BY <2>1
  <2>3. detections' = {} /\ UNCHANGED <<now, out_boxes, asked>>
    BY <1>1 DEF dg_tracker_create, SmoothInv, HandleInv
  <2>4. Smoothing!Settle
    BY <2>2, <2>3 DEF Smoothing!Settle
  <2> QED
    BY <2>4 DEF Smoothing!HysteresisNext
<1>2. CASE dg_tracker_destroy \/ dg_tracker_reset
  <2>1. detections' = {} /\ UNCHANGED <<now, out_boxes, asked>>
        /\ (tracker' = tracker \/ tracker' = NoTracker)
    BY <1>2 DEF dg_tracker_destroy, dg_tracker_reset
  <2>2. tracker'.window \in {OrDefault(d.window, 3) : d \in Creations} \cup {0}
    BY <2>1 DEF SmoothInv, HandleInv, WindowsMade, NoTracker
  <2>3. Smoothing!Settle
    BY <2>1, <2>2 DEF Smoothing!Settle
  <2> QED
    BY <2>3 DEF Smoothing!HysteresisNext
<1>3. CASE dg_tracker_process_refused
  <2>1. Smoothing!Refuse
    BY <1>3 DEF dg_tracker_process_refused, Smoothing!Refuse
  <2> QED
    BY <2>1 DEF Smoothing!HysteresisNext
<1>4. CASE dg_tracker_process
  <2> DEFINE Call(k, t, max_out_count, dets) ==
          /\ tracker # NoTracker /\ max_out_count > 0 /\ calls < MaxCalls
          /\ \A i, j \in 1 .. k : i # j => dets[i] # dets[j]
          /\ calls' = calls + 1 /\ now' = t /\ asked' = max_out_count
          /\ tracked_boxes_' = Processed(dets, t)
          /\ out_boxes' = SubSeq(Results(tracked_boxes_'), 1,
                                 Least(Len(Results(tracked_boxes_')), max_out_count))
          /\ detections' = StillWithin(t) \cup
                             {[region |-> dets[i], time |-> t, call |-> calls'] : i \in 1 .. k}
          /\ UNCHANGED tracker
  <2>0. PICK k \in 0 .. MaxPerCall, t \in Times, max_out_count \in Rooms :
          \E dets \in [1 .. k -> Detections] : Call(k, t, max_out_count, dets)
    BY <1>4 DEF dg_tracker_process
  <2>1. PICK dets \in [1 .. k -> Detections] : Call(k, t, max_out_count, dets)
    BY <2>0
  <2>2. SmoothInv'
    BY SmoothSteps
  <2>3. /\ tracked_boxes_' \in Seq(TrackedBoxes) /\ IsFiniteSet(detections')
        /\ Owed(tracked_boxes_', detections') /\ \E h : StandsFor(tracked_boxes_', detections', h)
        /\ detections' \in SUBSET DetectionRecords
    BY <2>2 DEF SmoothInv, StandInv
  <2>4. /\ tracker.window > 0 /\ tracker.padding \in Nat
        /\ calls' \in 1 .. MaxCalls /\ max_out_count \in Nat
    <3>1. calls \in 0 .. MaxCalls
      BY DEF SmoothInv, CallInv
    <3>2. tracker \in TrackerSet /\ tracker.window > 0
      BY <2>1 DEF SmoothInv, HandleInv
    <3> QED
      BY <2>1, <3>1, <3>2, RoomsAssumption, CallsAssumption DEF TrackerSet
  <2> DEFINE r == Results(tracked_boxes_')
             regions == {dets[i] : i \in 1 .. k}
  <2>5. /\ r \in Seq(ScreenBoxes) /\ Len(r) <= Len(tracked_boxes_')
        /\ \A i \in 1 .. Len(tracked_boxes_') : \E j \in 1 .. Len(r) :
             Covers(r[j], (tracked_boxes_')[i].box)
    BY <2>3, <2>4, ResultsCover
  <2>6. Len(tracked_boxes_') <= Cardinality(detections') /\ Cardinality(detections') \in Nat
    BY <2>3, StandsCount, FS_CardinalityType
  <2>7. \A d \in detections' : \E j \in 1 .. Len(r) : Covers(r[j], d.region)
    <3> SUFFICES ASSUME NEW d \in detections' PROVE \E j \in 1 .. Len(r) : Covers(r[j], d.region)
      OBVIOUS
    <3>1. PICK i \in 1 .. Len(tracked_boxes_') : Covers((tracked_boxes_')[i].box, d.region)
      BY <2>3 DEF Owed
    <3>2. PICK j \in 1 .. Len(r) : Covers(r[j], (tracked_boxes_')[i].box)
      BY <2>5
    <3>3. r[j] \in IntBoxes
      <4>1. r[j] \in ScreenBoxes
        BY <2>5
      <4> QED
        BY <4>1 DEF ScreenBoxes
    <3>4. (tracked_boxes_')[i].box \in IntBoxes
      <4>1. \A b \in TrackedBoxes : b.box \in IntBoxes
        BY DEF TrackedBoxes, ScreenBoxes
      <4>2. (tracked_boxes_')[i] \in TrackedBoxes
        BY <2>3
      <4> QED
        BY <4>1, <4>2
    <3>5. d.region \in IntBoxes
      <4>1. \A e \in DetectionRecords : e.region \in Detections
        BY DEF DetectionRecords
      <4>2. d.region \in Detections
        BY <2>3, <4>1
      <4> QED
        BY <4>2, DetectionsAssumption, BoxOnScreen DEF ScreenBoxes
    <3> HIDE DEF r
    <3> QED
      BY <3>1, <3>2, <3>3, <3>4, <3>5, CoversThrough
  <2>8. /\ out_boxes' = SubSeq(r, 1, Least(Len(r), max_out_count))
    BY <2>1
  <2> HIDE DEF r
  <2>9. /\ Len(out_boxes') <= Len(r)
        /\ Len(r) <= max_out_count => out_boxes' = r
        /\ out_boxes' \in Seq(ScreenBoxes)
    BY <2>4, <2>5, <2>8, HandOut
  <2>10. asked' >= Cardinality(detections') => \A d \in detections' : Hidden(out_boxes', d.region)
    <3> SUFFICES ASSUME asked' >= Cardinality(detections'), NEW d \in detections'
                 PROVE  Hidden(out_boxes', d.region)
      OBVIOUS
    <3>1. Len(r) <= max_out_count
      <4>1. Len(r) \in Nat /\ Len(tracked_boxes_') \in Nat
        BY <2>3, <2>5
      <4> QED
        BY <2>1, <2>4, <2>5, <2>6, <4>1
    <3>2. out_boxes' = r /\ DOMAIN r = 1 .. Len(r)
      BY <2>5, <2>9, <3>1
    <3> QED
      BY <2>7, <3>2 DEF Hidden
  <2>11. detections' = {} => out_boxes' = <<>>
    <3> SUFFICES ASSUME detections' = {} PROVE out_boxes' = <<>>
      OBVIOUS
    <3>1. Cardinality(detections') = 0
      BY FS_EmptySet
    <3>2. Len(out_boxes') = 0
      <4>1. Len(r) \in Nat /\ Len(tracked_boxes_') \in Nat /\ Len(out_boxes') \in Nat
        BY <2>3, <2>5, <2>9
      <4> QED
        BY <2>5, <2>6, <2>9, <3>1, <4>1
    <3> QED
      BY <2>9, <3>2
  <2>12. /\ StillWithin(t) \in SUBSET Smoothing!Within(t, tracker.window)
         /\ t >= now => StillWithin(t) = Smoothing!Within(t, tracker.window)
    <3>1. \A d \in StillWithin(t) : d \in detections /\ t >= d.time /\ t - d.time < tracker.window
      BY DEF StillWithin
    <3>2. \A d \in detections : t >= now /\ t >= d.time /\ t - d.time < tracker.window
                                  => d \in StillWithin(t)
      BY DEF StillWithin
    <3>3. t \in Int /\ \A d \in detections : d.time \in Int
      BY TimesAreNumbers DEF SmoothInv, StandInv
    <3>4. \A d \in detections : t >= d.time <=> d.time <= t
      BY <3>3
    <3>5. \A d : d \in Smoothing!Within(t, tracker.window) <=>
                   d \in detections /\ d.time <= t /\ t - d.time < tracker.window
      BY DEF Smoothing!Within
    <3>6. StillWithin(t) \subseteq Smoothing!Within(t, tracker.window)
      BY <3>1, <3>4, <3>5
    <3>7. t >= now => Smoothing!Within(t, tracker.window) \subseteq StillWithin(t)
      BY <3>2, <3>4, <3>5
    <3> QED
      BY <3>6, <3>7
  <2>13. /\ regions \in SUBSET Detections
         /\ {[region |-> dets[i], time |-> t, call |-> calls'] : i \in 1 .. k}
              = [region : regions, time : {now'}, call : {calls'}]
    <3> DEFINE rec(i) == [region |-> dets[i], time |-> t, call |-> calls']
               R == [region : regions, time : {now'}, call : {calls'}]
    <3>1. \A i \in 1 .. k : dets[i] \in regions /\ dets[i] \in Detections
      OBVIOUS
    <3>2. \A i \in 1 .. k : rec(i) \in R
      BY <2>1, <3>1
    <3>3. ASSUME NEW d \in R PROVE \E i \in 1 .. k : d = rec(i)
      <4>1. PICK i \in 1 .. k : d.region = dets[i]
        OBVIOUS
      <4>2. d = [region |-> d.region, time |-> d.time, call |-> d.call]
            /\ d.time = t /\ d.call = calls'
        BY <2>1
      <4> QED
        BY <4>1, <4>2
    <3>4. regions \in SUBSET Detections
      BY <3>1
    <3> HIDE DEF rec, R
    <3>5. {rec(i) : i \in 1 .. k} = R
      BY <3>2, <3>3
    <3> QED
      BY <3>4, <3>5 DEF rec, R
  <2> HIDE DEF regions
  <2>14. \E rs \in SUBSET Detections, c \in 1 .. MaxCalls,
            kept \in SUBSET Smoothing!Within(now', tracker.window) :
           /\ now' >= now => kept = Smoothing!Within(now', tracker.window)
           /\ detections' = kept \cup [region : rs, time : {now'}, call : {c}]
    <3>1. detections' = StillWithin(t) \cup [region : regions, time : {now'}, call : {calls'}]
      BY <2>1, <2>13
    <3> QED
      BY <2>1, <2>4, <2>12, <2>13, <3>1
  <2>15. Smoothing!Frame
    <3>1. tracker.window > 0 /\ asked' > 0 /\ UNCHANGED tracker.window
      BY <2>1, <2>4
    <3> HIDE DEF Call
    <3>2. \E rs \in SUBSET Detections, c \in 1 .. MaxCalls,
             kept \in SUBSET {d \in detections : d.time <= now' /\ now' - d.time < tracker.window} :
            /\ now' >= now =>
                 kept = {d \in detections : d.time <= now' /\ now' - d.time < tracker.window}
            /\ detections' = kept \cup [region : rs, time : {now'}, call : {c}]
      BY <2>14 DEF Smoothing!Within
    <3>3. Smoothing!Cardinality(detections') = Cardinality(detections')
      BY SmoothingCardinality
    <3> QED
      BY <2>10, <2>11, <3>1, <3>2, <3>3 DEF Smoothing!Frame, Smoothing!Within
  <2> QED
    BY <2>15 DEF Smoothing!HysteresisNext
<1> QED
  BY <1>1, <1>2, <1>3, <1>4 DEF TrackerNext

\* What was detected within the window is covered by what is drawn, whatever
\* the boxes were matched with, grown to and merged into, and when the clock
\* was set back: the class implements its formula (temporal_smoothing.hpp:21),
\* for all detections, windows, paddings, thresholds and rooms.
THEOREM SmoothingImplementsHysteresis == Spec => ImplementsHysteresis
<1>1. TrackerInit => Smoothing!HysteresisInit
  BY DEF TrackerInit, NoTracker, Smoothing!HysteresisInit
<1>2. SmoothInv /\ [TrackerNext]_trackerVars
        => [Smoothing!HysteresisNext]_(Smoothing!abstractVars)
  <2>1. UNCHANGED trackerVars => UNCHANGED Smoothing!abstractVars
    BY DEF trackerVars, Smoothing!abstractVars
  <2> QED
    BY <2>1, SmoothStep
<1> QED
  BY <1>1, <1>2, SmoothStays, Parts, PTL DEF ImplementsHysteresis, Smoothing!HysteresisSpec

-----------------------------------------------------------------------------
(* What the two trackers draw                                               *)

LEMMA AnchorStays == Spec => []AnchorInv
BY AnchorStarts, AnchorSteps, Parts, PTL

\* Neither tracker draws two boxes that overlap by more than its threshold: a
\* box that grew past its neighbours is compared with them again, for every
\* number, size and order of the boxes (merge_overlapping_boxes in
\* temporal_smoothing.hpp and visual_anchor_tracker.hpp).
THEOREM MergingEnds == Spec => []MergeIsComplete
<1>1. SmoothInv => NothingToMerge(Results(tracked_boxes_), tracker.threshold)
  <2> SUFFICES ASSUME SmoothInv
               PROVE  NothingToMerge(Results(tracked_boxes_), tracker.threshold)
    OBVIOUS
  <2>1. tracked_boxes_ \in Seq(TrackedBoxes) /\ tracker \in TrackerSet
    BY DEF SmoothInv, StandInv, HandleInv
  <2>2. tracker.padding \in Nat
    BY <2>1 DEF TrackerSet
  <2> QED
    BY <2>1, <2>2, ResultsCover
<1>2. AnchorInv => NothingToMerge(shown, merge_iou_threshold)
  BY DEF AnchorInv
<1>3. SmoothInv /\ AnchorInv => MergeIsComplete
  BY <1>1, <1>2 DEF MergeIsComplete
<1> QED
  BY <1>3, SmoothStays, AnchorStays, PTL

LEMMA SmoothTypes == SmoothInv => TrackerTypeOK
<1> SUFFICES ASSUME SmoothInv PROVE TrackerTypeOK
  OBVIOUS
<1>1. tracker.window \in Nat /\ tracker.padding \in Nat /\ tracker.threshold \in Nat
  BY DEF SmoothInv, HandleInv, TrackerSet
<1>2. \A field \in {"window", "padding", "threshold"} : tracker[field] \in Nat
  BY <1>1
<1>3. \A i \in DOMAIN tracked_boxes_ :
        OnScreen(tracked_boxes_[i].box) /\ tracked_boxes_[i].time \in Times
  <2>1. \A i \in DOMAIN tracked_boxes_ : tracked_boxes_[i] \in TrackedBoxes
    BY DEF SmoothInv, StandInv
  <2> QED
    BY <2>1 DEF TrackedBoxes, ScreenBoxes
<1>4. \A i \in DOMAIN out_boxes : OnScreen(out_boxes[i])
  <2>1. \A i \in DOMAIN out_boxes : out_boxes[i] \in ScreenBoxes
    BY DEF SmoothInv, CallInv
  <2> QED
    BY <2>1 DEF ScreenBoxes
<1>5. detections \subseteq [region : Detections, time : Times, call : 1 .. MaxCalls]
  BY DEF SmoothInv, StandInv, DetectionRecords
<1> QED
  BY <1>2, <1>3, <1>4, <1>5 DEF SmoothInv, CallInv, TrackerTypeOK

LEMMA AnchorTypes == AnchorInv => AnchorTypeOK
<1> SUFFICES ASSUME AnchorInv PROVE AnchorTypeOK
  OBVIOUS
<1>1. DOMAIN shields = 1 .. Len(shields) /\ DOMAIN shown = 1 .. Len(shown)
  BY DEF AnchorInv
<1>2. ASSUME NEW i \in DOMAIN shields
      PROVE  /\ shields[i].is_static \in BOOLEAN /\ shields[i].unseen \in Nat
             /\ OnScreen(shields[i].box)
             /\ \A a \in shields[i].anchors : a.x \in 0 .. One - 1
  <2>1. /\ shields[i].box \in ScreenBoxes /\ shields[i].is_static \in BOOLEAN
        /\ shields[i].unseen \in Nat /\ shields[i].anchors \in SUBSET AnchorSet
    BY <1>1, ShieldFields DEF AnchorInv
  <2>2. \A a \in AnchorSet : a.x \in 0 .. One - 1
    BY DEF AnchorSet
  <2> QED
    BY <2>1, <2>2 DEF ScreenBoxes
<1>3. \A i \in DOMAIN shown : Area(shown[i]) = 0 \/ OnScreen(shown[i])
  <2> SUFFICES ASSUME NEW b \in VisibleBoxes PROVE Area(b) = 0 \/ OnScreen(b)
    <3>1. \A i \in DOMAIN shown : shown[i] \in VisibleBoxes
      BY DEF AnchorInv
    <3> QED
      BY <3>1
  <2>1. b.width \in Nat /\ b.height \in Nat /\ (b.width > 0 /\ b.height > 0 => OnScreen(b))
    BY DEF VisibleBoxes, IntBoxes
  <2> QED
    BY <2>1 DEF Area
<1> QED
  BY <1>2, <1>3 DEF AnchorInv, AnchorTypeOK

\* How the frame lies on the canvas.
LEMMA LetterboxFits ==
  ASSUME NEW width \in Nat \ {0}, NEW height \in Nat \ {0}
  PROVE  LET l == Letterbox(width, height) IN
         /\ l.scaled_w \in 0 .. Canvas /\ l.pad_x \in 0 .. Canvas - l.scaled_w
         /\ l.scaled_h \in 0 .. Canvas /\ l.pad_y \in 0 .. Canvas - l.scaled_h
<1> DEFINE longest == Greatest(width, height)
           w == Scaled(width, longest)
           h == Scaled(height, longest)
<1>1. longest \in Nat \ {0} /\ width \in 1 .. longest /\ height \in 1 .. longest
  BY DEF Greatest
<1>2. w \in 1 .. Canvas /\ h \in 1 .. Canvas /\ Canvas \in Nat
  BY <1>1, ScaledSide, CanvasAssumption
<1>3. /\ Letterbox(width, height).scaled_w = w /\ Letterbox(width, height).scaled_h = h
      /\ Letterbox(width, height).pad_x = (Canvas - w) \div 2
      /\ Letterbox(width, height).pad_y = (Canvas - h) \div 2
  BY DEF Letterbox
<1> HIDE DEF w, h
<1> QED
  BY <1>2, <1>3

LEMMA ClampWithin ==
  ASSUME NEW a \in Int, NEW high \in Nat
  PROVE  Clamp(a, 0, high) \in 0 .. high
BY DEF Clamp, Greatest, Least

\* What detect makes of a proposal lies within the scaled picture.
LEMMA CandidatesFit ==
  ASSUME NEW ps \in SUBSET Proposals, NEW l,
         l.scaled_w \in Nat, l.scaled_h \in Nat, l.pad_x \in Int, l.pad_y \in Int,
         NEW c \in Candidates(ps, l)
  PROVE  /\ c.box.x \in 0 .. l.scaled_w /\ c.box.width \in 0 .. l.scaled_w - c.box.x
         /\ c.box.y \in 0 .. l.scaled_h /\ c.box.height \in 0 .. l.scaled_h - c.box.y
         /\ c.confidence \in confidence_threshold .. 100
<1>1. PICK p \in ps : Explicit(p) /\ c = Unmap(p, l)
  BY DEF Candidates
<1> DEFINE x == Clamp(p.cx - l.pad_x - p.w \div 2, 0, l.scaled_w)
           y == Clamp(p.cy - l.pad_y - p.h \div 2, 0, l.scaled_h)
           w == Clamp(p.w, 0, l.scaled_w - x)
           h == Clamp(p.h, 0, l.scaled_h - y)
<1>2. p \in Proposals /\ p.cx \in Int /\ p.cy \in Int /\ p.w \in Int /\ p.h \in Int
  BY ProposalsAssumption
<1>3. p.w \div 2 \in Int /\ p.h \div 2 \in Int
  BY <1>2, Division
<1>4. p.cx - l.pad_x - p.w \div 2 \in Int /\ p.cy - l.pad_y - p.h \div 2 \in Int
  BY <1>2, <1>3
<1>5. x \in 0 .. l.scaled_w /\ y \in 0 .. l.scaled_h
  BY <1>4, ClampWithin
<1>6. c = [box |-> Box(x, y, w, h), confidence |-> p.score[BestClass(p)]]
  BY <1>1 DEF Unmap
<1> HIDE DEF x, y
<1>7. l.scaled_w - x \in Nat /\ l.scaled_h - y \in Nat
  BY <1>5
<1>8. w \in 0 .. l.scaled_w - x /\ h \in 0 .. l.scaled_h - y
  BY <1>2, <1>7, ClampWithin
<1> HIDE DEF w, h
<1>9. c.box.x = x /\ c.box.y = y /\ c.box.width = w /\ c.box.height = h
      /\ c.confidence = p.score[BestClass(p)]
  BY <1>6 DEF Box
<1>10. c.confidence \in confidence_threshold .. 100
  <2>1. BestClass(p) \in DOMAIN p.score
    BY <1>2, BestClassIsScored
  <2>2. p.score[BestClass(p)] \in 0 .. 100
    BY <1>2, <2>1, ProposalsAssumption
  <2>3. p.score[BestClass(p)] >= confidence_threshold
    BY <1>1 DEF Explicit
  <2> QED
    BY <1>9, <2>2, <2>3 DEF confidence_threshold
<1> QED
  BY <1>5, <1>8, <1>9, <1>10

LEMMA NothingDetected ==
  ASSUME detected = <<>>, candidates = {}, proposed = {}, is_initialized_ \in BOOLEAN,
         /\ letterbox.scaled_w \in 0 .. Canvas /\ letterbox.pad_x \in 0 .. Canvas - letterbox.scaled_w
         /\ letterbox.scaled_h \in 0 .. Canvas /\ letterbox.pad_y \in 0 .. Canvas - letterbox.scaled_h
  PROVE  DetectorTypeOK
<1>1. <<>> \in Seq({})
  OBVIOUS
<1> QED
  BY <1>1 DEF DetectorTypeOK

LEMMA DetectorTypes == DetectorTypeOK /\ [DetectorNext]_detectorVars => DetectorTypeOK'
<1> SUFFICES ASSUME DetectorTypeOK, [DetectorNext]_detectorVars PROVE DetectorTypeOK'
  OBVIOUS
<1>1. CASE detector_init
  BY <1>1 DEF detector_init, DetectorTypeOK
<1>2. CASE detect
  <2>1. PICK size \in FrameSizes, ps \in SUBSET Proposals :
          /\ letterbox' = Letterbox(size[1], size[2])
          /\ proposed' = ps
          /\ candidates' = Candidates(ps, letterbox')
          /\ \E s \in Sorted(candidates') : detected' = Suppress(s)
          /\ UNCHANGED is_initialized_
    BY <1>2 DEF detect
  <2>2. size[1] \in Nat \ {0} /\ size[2] \in Nat \ {0} /\ Canvas \in Nat
    BY FrameSizesAssumption, CanvasAssumption
  <2> DEFINE l == Letterbox(size[1], size[2])
             cs == Candidates(ps, l)
  <2>3. /\ l.scaled_w \in 0 .. Canvas /\ l.pad_x \in 0 .. Canvas - l.scaled_w
        /\ l.scaled_h \in 0 .. Canvas /\ l.pad_y \in 0 .. Canvas - l.scaled_h
    BY <2>2, LetterboxFits
  <2>4. IsFiniteSet(cs) /\ \A c \in cs : c.box \in IntBoxes /\ c.confidence \in Int
    BY <2>2, CandidatesAreBoxes
  <2> HIDE DEF l
  <2>5. \A c \in cs :
          /\ c.box.x \in 0 .. l.scaled_w /\ c.box.width \in 0 .. l.scaled_w - c.box.x
          /\ c.box.y \in 0 .. l.scaled_h /\ c.box.height \in 0 .. l.scaled_h - c.box.y
          /\ c.confidence \in confidence_threshold .. 100
    BY <2>2, <2>3, CandidatesFit
  <2>6. letterbox' = l /\ candidates' = cs /\ proposed' = ps
    BY <2>1 DEF l
  <2>7. PICK s \in Sorted(cs) : detected' = Suppress(s)
    BY <2>1, <2>6
  <2> HIDE DEF cs
  <2>8. /\ s \in SetToSeqs(cs)
        /\ \A i, j \in DOMAIN s : i < j => s[i].confidence >= s[j].confidence
    BY DEF Sorted
  <2>9. s \in Seq(cs)
    BY <2>4, <2>8, SeqsHaveAll
  <2>10. \A i, j \in 1 .. Len(s) : i < j => s[i].confidence >= s[j].confidence
    BY <2>8, <2>9
  <2>11. Suppress(s) \in Seq(cs)
    BY <2>4, <2>9, <2>10, SuppressKeeps
  <2>12. is_initialized_' \in BOOLEAN
    BY <2>1 DEF DetectorTypeOK
  <2> QED
    BY <2>3, <2>5, <2>6, <2>7, <2>11, <2>12 DEF DetectorTypeOK
<1>3. CASE detect_fails
  <2>1. PICK size \in FrameSizes : letterbox' = Letterbox(size[1], size[2])
    BY <1>3 DEF detect_fails
  <2>2. size[1] \in Nat \ {0} /\ size[2] \in Nat \ {0}
    BY FrameSizesAssumption
  <2>3. /\ letterbox'.scaled_w \in 0 .. Canvas /\ letterbox'.pad_x \in 0 .. Canvas - letterbox'.scaled_w
        /\ letterbox'.scaled_h \in 0 .. Canvas /\ letterbox'.pad_y \in 0 .. Canvas - letterbox'.scaled_h
    BY <2>1, <2>2, LetterboxFits
  <2>4. proposed' = {} /\ candidates' = {} /\ detected' = <<>> /\ is_initialized_' \in BOOLEAN
    BY <1>3 DEF detect_fails, DetectorTypeOK
  <2>5. <<>> \in Seq({})
    OBVIOUS
  <2> QED
    BY <2>3, <2>4, <2>5 DEF DetectorTypeOK
<1>4. CASE UNCHANGED detectorVars
  BY <1>4 DEF detectorVars, DetectorTypeOK
<1> QED
  BY <1>1, <1>2, <1>3, <1>4 DEF DetectorNext

\* The trackers and the detector keep their types, whatever the model proposes,
\* the detector reports and SET_PADDING asks for: a shield never leaves the
\* screen, its age is never negative, what is drawn is on the screen or has no
\* area, and what the detector returns lies within the scaled picture, and that
\* within the canvas, with a confidence of at least its threshold.
THEOREM VisionTyping == Spec => []VisionTypeOK
<1>1. DetectorInit => DetectorTypeOK
  <2> SUFFICES ASSUME DetectorInit PROVE DetectorTypeOK
    OBVIOUS
  <2>1. letterbox = NoLetterbox /\ Canvas \in Nat
    BY CanvasAssumption DEF DetectorInit
  <2>2. /\ letterbox.scaled_w \in 0 .. Canvas /\ letterbox.pad_x \in 0 .. Canvas - letterbox.scaled_w
        /\ letterbox.scaled_h \in 0 .. Canvas /\ letterbox.pad_y \in 0 .. Canvas - letterbox.scaled_h
    BY <2>1 DEF NoLetterbox
  <2> QED
    BY <2>2, NothingDetected DEF DetectorInit
<1>2. SmoothInv /\ AnchorInv /\ DetectorTypeOK => VisionTypeOK
  BY SmoothTypes, AnchorTypes DEF VisionTypeOK
<1> QED
  BY <1>1, <1>2, DetectorTypes, SmoothStays, AnchorStays, Parts, PTL

-----------------------------------------------------------------------------
(* A region that is reported alone                                          *)

\* The smoothed position of one side still reaches past the middle.
LEMMA MixHides ==
  ASSUME NEW o \in Nat, NEW ow \in Nat, NEW d \in Nat, NEW dw \in Nat,
         o < d + dw, d < o + ow, dw >= 3
  PROVE  /\ (70 * d + 30 * o) \div 100 <= d + dw \div 2
         /\ d + dw \div 2 <= (70 * d + 30 * o) \div 100 + (70 * dw + 30 * ow) \div 100
<1> DEFINE p == (70 * d + 30 * o) \div 100
           w == (70 * dw + 30 * ow) \div 100
           m == dw \div 2
<1>1. p \in Int /\ 100 * p <= 70 * d + 30 * o /\ 70 * d + 30 * o <= 100 * p + 99
  OBVIOUS
<1>2. w \in Int /\ 100 * w <= 70 * dw + 30 * ow /\ 70 * dw + 30 * ow <= 100 * w + 99
  OBVIOUS
<1>3. m \in Int /\ 2 * m <= dw /\ dw <= 2 * m + 1
  OBVIOUS
<1> HIDE DEF p, w, m
<1>4. p <= d + m
  BY <1>1, <1>3
<1>5. d + m <= p + w
  <2>1. 100 * p + 100 * w + 198 >= 70 * d + 30 * o + 70 * dw + 30 * ow
    BY <1>1, <1>2
  <2>2. 30 * o + 30 * ow >= 30 * d + 30
    OBVIOUS
  <2>3. 100 * p + 100 * w >= 100 * d + 70 * dw - 168
    BY <1>1, <1>2, <2>1, <2>2
  <2>4. 70 * dw - 168 > 100 * m - 100
    BY <1>3
  <2> QED
    BY <1>1, <1>2, <1>3, <2>3, <2>4
<1> QED
  BY <1>4, <1>5 DEF p, w, m

\* Two boxes that overlap by more than a percentage share some area.
LEMMA OverlapsMeet ==
  ASSUME NEW b \in ScreenBoxes, NEW c \in ScreenBoxes, Overlaps(b, c, merge_iou_threshold)
  PROVE  /\ b.x < Right(c) /\ c.x < Right(b)
         /\ b.y < Bottom(c) /\ c.y < Bottom(b)
<1> DEFINE u == Least(Right(b), Right(c)) - Greatest(b.x, c.x)
           v == Least(Bottom(b), Bottom(c)) - Greatest(b.y, c.y)
           i == Greatest(0, u) * Greatest(0, v)
           union == Area(b) + Area(c) - i
<1>1. /\ b.x \in Int /\ b.y \in Int /\ b.width \in Int /\ b.height \in Int
      /\ c.x \in Int /\ c.y \in Int /\ c.width \in Int /\ c.height \in Int
  BY DEF ScreenBoxes, IntBoxes
<1>2. Right(b) \in Int /\ Right(c) \in Int /\ Bottom(b) \in Int /\ Bottom(c) \in Int
  BY <1>1 DEF Right, Bottom
<1>3. u \in Int /\ v \in Int /\ Area(b) \in Int /\ Area(c) \in Int
  <2>1. Area(b) \in Int /\ Area(c) \in Int
    BY <1>1 DEF Area
  <2> QED
    BY <1>1, <1>2, <2>1 DEF Least, Greatest
<1>4. union > 0 /\ 100 * i > 15 * union
  BY DEF Overlaps, Intersection, merge_iou_threshold
<1> HIDE DEF u, v
<1>5. Greatest(0, u) \in Nat /\ Greatest(0, v) \in Nat
  BY <1>3 DEF Greatest
<1>6. i \in Int
  BY <1>5
<1>7. i > 0
  <2> HIDE DEF i
  <2>1. union \in Int
    BY <1>3, <1>6
  <2> HIDE DEF union
  <2> QED
    BY <1>4, <1>6, <2>1
<1>8. Greatest(0, u) # 0 /\ Greatest(0, v) # 0
  <2>1. \A n \in Nat : 0 * n = 0 /\ n * 0 = 0
    OBVIOUS
  <2>2. CASE Greatest(0, u) = 0
    <3>1. i = 0 * Greatest(0, v)
      BY <2>2
    <3> QED
      BY <1>5, <1>7, <2>1, <3>1
  <2>3. CASE Greatest(0, v) = 0
    <3>1. i = Greatest(0, u) * 0
      BY <2>3
    <3> QED
      BY <1>5, <1>7, <2>1, <3>1
  <2> QED
    BY <2>2, <2>3
<1>9. u > 0 /\ v > 0
  BY <1>3, <1>8 DEF Greatest
<1> QED
  BY <1>1, <1>2, <1>9 DEF u, v, Least, Greatest

\* One = 400 is a frame of 400 pixels: what is reported then is at least three
\* wide and high, and rounding to whole pixels does not reach its middle.
LEMMA SmoothHidesCentre ==
  ASSUME One >= 400, NEW old \in ScreenBoxes, NEW det \in ReportBoxes,
         Overlaps(old, det, merge_iou_threshold)
  PROVE  Covers(Smooth(old, det), Centre(det))
<1>1. det \in ScreenBoxes /\ 200 * det.width > One /\ 200 * det.height > One
  BY DEF ReportBoxes
<1>2. /\ det.x \in Nat /\ det.y \in Nat /\ det.width \in Nat /\ det.height \in Nat
      /\ old.x \in Nat /\ old.y \in Nat /\ old.width \in Nat /\ old.height \in Nat
      /\ One \in Nat
  BY <1>1, OneAssumption DEF ScreenBoxes, IntBoxes, OnScreen, Right, Bottom
<1>3. det.width >= 3 /\ det.height >= 3
  BY <1>1, <1>2
<1>4. /\ old.x < det.x + det.width /\ det.x < old.x + old.width
      /\ old.y < det.y + det.height /\ det.y < old.y + old.height
  BY <1>1, OverlapsMeet DEF Right, Bottom
<1> DEFINE x == (70 * det.x + 30 * old.x) \div 100
           y == (70 * det.y + 30 * old.y) \div 100
           w == (70 * det.width + 30 * old.width) \div 100
           h == (70 * det.height + 30 * old.height) \div 100
           s == Smooth(old, det)
<1>5. s = [x |-> x, y |-> y, width |-> w, height |-> h]
  <2>1. 100 - ema_alpha = 30 /\ ema_alpha = 70
    BY DEF ema_alpha
  <2> QED
    BY <2>1 DEF Smooth, Box
<1>6. x <= det.x + det.width \div 2 /\ det.x + det.width \div 2 <= x + w
  BY <1>2, <1>3, <1>4, MixHides, ZenonT(40)
<1>7. y <= det.y + det.height \div 2 /\ det.y + det.height \div 2 <= y + h
  BY <1>2, <1>3, <1>4, MixHides, ZenonT(40)
<1>8. x \in Int /\ y \in Int /\ w \in Int /\ h \in Int
  BY <1>2
<1> HIDE DEF x, y, w, h
<1>9. s.x = x /\ s.y = y /\ s.width = w /\ s.height = h
  BY <1>5
<1> HIDE DEF s
<1>10. det.width \div 2 \in Int /\ det.height \div 2 \in Int
  BY <1>2
<1>11. /\ Centre(det).x = det.x + det.width \div 2 /\ Centre(det).y = det.y + det.height \div 2
       /\ Centre(det).width = 0 /\ Centre(det).height = 0
  BY DEF Centre, Box
<1>12. Covers(s, Centre(det))
  BY <1>2, <1>6, <1>7, <1>8, <1>9, <1>10, <1>11 DEF Covers, Right, Bottom
<1> QED
  BY <1>12 DEF s

LEMMA CentreIsWithin ==
  ASSUME NEW det \in ScreenBoxes
  PROVE  Centre(det) \in ScreenBoxes /\ Covers(det, Centre(det))
<1>1. /\ det.x \in Nat /\ det.y \in Nat /\ det.width \in Nat /\ det.height \in Nat
      /\ det.x + det.width <= One /\ det.y + det.height <= One /\ One \in Nat
  BY OneAssumption DEF ScreenBoxes, IntBoxes, OnScreen, Right, Bottom
<1> DEFINE m == det.width \div 2
           n == det.height \div 2
<1>2. m \in Nat /\ n \in Nat /\ m <= det.width /\ n <= det.height
  BY <1>1
<1>3. Centre(det) = [x |-> det.x + m, y |-> det.y + n, width |-> 0, height |-> 0]
  BY DEF Centre, Box
<1> HIDE DEF m, n
<1> QED
  BY <1>1, <1>2, <1>3 DEF ScreenBoxes, IntBoxes, OnScreen, Covers, Right, Bottom

LEMMA MemberOfSeq ==
  ASSUME NEW S, NEW s \in Seq(S), NEW i \in 1 .. Len(s)
  PROVE  s[i] \in S
OBVIOUS

\* One detection on a list of shields.
LEMMA IngestedOne ==
  ASSUME NEW old \in Seq(ShieldSet), NEW dets \in Seq(ScreenBoxes), Len(dets) = 1, NEW f \in Frames
  PROVE  IngestedAll(f, old, dets) = Ingested(old, dets[1], f)
<1>1. PICK r \in [0 .. Len(dets) -> Seq(ShieldSet)] :
        /\ r[0] = old
        /\ \A i \in 1 .. Len(dets) : r[i] = Ingested(r[i - 1], dets[i], f)
        /\ r[Len(dets)] = IngestedAll(f, old, dets)
  BY IngestedRuns
<1>2. 1 \in 1 .. Len(dets) /\ 1 - 1 = 0
  OBVIOUS
<1>3. r[1] = Ingested(r[1 - 1], dets[1], f)
  BY <1>1, <1>2
<1>4. r[1] = Ingested(old, dets[1], f)
  BY <1>1, <1>2, <1>3
<1> QED
  BY <1>1, <1>4

\* A detection leaves a shield that was seen now, over its middle, and over all
\* of it if no shield was there.
LEMMA IngestedHides ==
  ASSUME One >= 400, NEW list \in Seq(ShieldSet), NEW det \in ReportBoxes, NEW f \in Frames
  PROVE  \E i \in 1 .. Len(Ingested(list, det, f)) :
           /\ Ingested(list, det, f)[i].unseen = 0
           /\ Covers(Ingested(list, det, f)[i].box, Centre(det))
           /\ list = <<>> => Ingested(list, det, f)[i].box = det
<1>1. det \in ScreenBoxes
  BY DEF ReportBoxes
<1>2. Len(list) \in Nat
  OBVIOUS
<1>3. CASE Ingested(list, det, f) = Append(list, FreshShield(f, det, FALSE))
  <2> DEFINE new == FreshShield(f, det, FALSE)
             r == Append(list, new)
             n == Len(list) + 1
  <2> HIDE DEF new
  <2>1. Len(r) = n /\ r[n] = new /\ n \in 1 .. Len(r)
    BY <1>2
  <2>2. new.box = det /\ new.unseen = 0
    BY DEF FreshShield, new
  <2> HIDE DEF r, n
  <2>3. /\ r[n].unseen = 0 /\ r[n].box = det /\ Covers(r[n].box, Centre(det))
    BY <1>1, <2>1, <2>2, CentreIsWithin
  <2>4. Ingested(list, det, f) = r
    BY <1>3 DEF r, new
  <2> QED
    BY <2>1, <2>3, <2>4
<1>4. ASSUME NEW i \in 1 .. Len(list),
             Overlaps(list[i].box, det, merge_iou_threshold),
             Ingested(list, det, f) =
               [list EXCEPT ![i] = FreshShield(f, Smooth(list[i].box, det), list[i].is_static)]
      PROVE  \E k \in 1 .. Len(Ingested(list, det, f)) :
               /\ Ingested(list, det, f)[k].unseen = 0
               /\ Covers(Ingested(list, det, f)[k].box, Centre(det))
               /\ list = <<>> => Ingested(list, det, f)[k].box = det
  <2> DEFINE new == FreshShield(f, Smooth(list[i].box, det), list[i].is_static)
             r == [list EXCEPT ![i] = new]
  <2>1. list[i].box \in ScreenBoxes
    BY ShieldFields
  <2>2. new.box = Smooth(list[i].box, det) /\ new.unseen = 0
    BY DEF FreshShield
  <2>3. Covers(new.box, Centre(det))
    BY <1>4, <2>1, <2>2, SmoothHidesCentre
  <2> HIDE DEF new
  <2>4. r[i] = new /\ Len(r) = Len(list)
    OBVIOUS
  <2>5. list # <<>>
    BY <1>2
  <2>6. Ingested(list, det, f) = r
    BY <1>4 DEF new
  <2> HIDE DEF r
  <2> QED
    BY <2>2, <2>3, <2>4, <2>5, <2>6
<1> QED
  BY <1>1, <1>3, <1>4, IngestedCases

LoneHidden ==
  NewFrame /\ Len(report') = 1 /\ padding >= 0 =>
    /\ HiddenBy(shown', Centre(report'[1]))
    /\ shields = <<>> => HiddenBy(shown', report'[1])

LEMMA LoneStep ==
  ASSUME One >= 400, AnchorInv, [AnchorNext]_anchorVars
  PROVE  LoneHidden
<1> SUFFICES ASSUME NewFrame, Len(report') = 1, padding >= 0
             PROVE  /\ HiddenBy(shown', Centre(report'[1]))
                    /\ shields = <<>> => HiddenBy(shown', report'[1])
  BY DEF LoneHidden
<1>1. frames' = frames + 1 /\ frames \in Nat
  BY MaxFramesAssumption DEF NewFrame, AnchorInv
<1>2. process_frame
  BY <1>1 DEF AnchorNext, anchorVars, lastVars, set_config, reset
<1>3. PICK f \in Frames, dets \in Reports, dt \in Steps :
        /\ shields' = Process(f, dets, dt)
        /\ shown' = Drawn(shields')
        /\ report' = dets
  BY <1>2 DEF process_frame
<1>4. Len(dets) = 1 /\ dt \in Nat /\ dets \in Seq(ReportBoxes) /\ dets \in Seq(ScreenBoxes)
  BY <1>3, StepsAssumption, ReportsAreBoxes, ReportsAreOnScreen
<1> DEFINE det == dets[1]
           held == Held(f, dt)
           taken == Taken(f, dets, dt)
<1>5. det \in ReportBoxes /\ det \in ScreenBoxes
  <2>1. 1 \in 1 .. Len(dets)
    BY <1>4
  <2>2. dets[1] \in ReportBoxes
    BY <1>4, <2>1, MemberOfSeq
  <2> QED
    BY <2>2 DEF ReportBoxes
<1>6. shields \in Seq(ShieldSet) /\ padding \in Int
  BY PaddingsAssumption DEF AnchorInv
<1>7. held \in Seq(ShieldSet) /\ Len(held) = Len(shields)
  BY <1>4, <1>6, HeldType
<1>8. taken = Ingested(held, det, f) /\ taken \in Seq(ShieldSet)
  BY <1>4, <1>6, <1>7, IngestedOne, TakenType DEF Taken
<1>9. shields = <<>> => held = <<>>
  BY <1>7
<1> HIDE DEF det, held, taken
<1>10. PICK i \in 1 .. Len(taken) :
         /\ taken[i].unseen = 0
         /\ Covers(taken[i].box, Centre(det))
         /\ held = <<>> => taken[i].box = det
  BY <1>5, <1>7, <1>8, IngestedHides
<1>11. taken[i] \in ShieldSet /\ taken[i].is_static \in BOOLEAN /\ taken[i].box \in ScreenBoxes
  BY <1>8, ShieldFields
<1>12. Kept(taken[i])
  BY <1>10, <1>11 DEF Kept, persistence_window_ms, dynamic_decay_ms
<1>13. shields' = Only(taken, {s \in ToSet(taken) : Kept(s)})
  BY <1>3, ProcessSteps DEF taken
<1>14. \E k \in 1 .. Len(shields') : shields'[k] = taken[i]
  <2> DEFINE keep == {s \in ToSet(taken) : Kept(s)}
             r == Only(taken, keep)
  <2>1. taken[i] \in keep
    BY <1>8, <1>12 DEF ToSet
  <2> HIDE DEF keep
  <2>2. PICK e \in [1 .. Len(r) -> 1 .. Len(taken)] :
          /\ \A k \in 1 .. Len(r) : r[k] = taken[e[k]] /\ taken[e[k]] \in keep
          /\ \A j \in 1 .. Len(taken) : taken[j] \in keep => \E k \in 1 .. Len(r) : e[k] = j
    BY <1>8, OnlyKeeps, SMTT(40)
  <2>3. PICK k \in 1 .. Len(r) : e[k] = i
    BY <2>1, <2>2
  <2>4. r[k] = taken[i]
    BY <2>2, <2>3
  <2>5. shields' = r
    BY <1>13 DEF keep
  <2> QED
    BY <2>4, <2>5
<1>15. PICK k \in 1 .. Len(shields') : shields'[k] = taken[i]
  BY <1>14
<1>16. shields' \in Seq(ShieldSet)
  BY <1>8, <1>13, OnlyKeeps
<1>17. /\ shown' \in Seq(VisibleBoxes)
       /\ \E j \in 1 .. Len(shown') : Covers(shown'[j], shields'[k].box)
  BY <1>3, <1>6, <1>16, DrawnCovers
<1>18. PICK j \in 1 .. Len(shown') : Covers(shown'[j], taken[i].box)
  BY <1>15, <1>17
<1>19. /\ shown'[j] \in IntBoxes /\ taken[i].box \in IntBoxes
       /\ Centre(det) \in IntBoxes /\ DOMAIN shown' = 1 .. Len(shown')
  BY <1>5, <1>11, <1>17, CentreIsWithin DEF ScreenBoxes, VisibleBoxes
<1>20. Covers(shown'[j], Centre(det))
  BY <1>10, <1>18, <1>19, CoversThrough
<1>21. report'[1] = det
  BY <1>3 DEF det
<1> QED
  BY <1>9, <1>10, <1>18, <1>19, <1>20, <1>21 DEF HiddenBy

\* A region reported alone is hidden in its middle by what is drawn of the same
\* frame, however a shield of before was matched with it, smoothed towards it,
\* padded and merged, and all of it when no shield was there; for every frame
\* of at least 400 pixels a side, below which rounding to whole pixels counts
\* (visual_anchor_tracker.hpp, process_frame).
THEOREM LoneRegionStaysHidden ==
  ASSUME One >= 400
  PROVE  Spec => LoneDetectionIsHidden
<1>1. AnchorInv /\ [AnchorNext]_anchorVars => [LoneHidden]_anchorVars
  BY LoneStep
<1> QED
  BY <1>1, AnchorStays, Parts, PTL DEF LoneDetectionIsHidden, LoneHidden

-----------------------------------------------------------------------------
(* Sums over finite sets                                                    *)

\* A set of sets that has the empty one, and each one that it has everything
\* one element smaller of, has every subset of a finite set.
LEMMA SubsetsAll ==
  ASSUME NEW S, IsFiniteSet(S), NEW Q, {} \in Q,
         \A t \in SUBSET S : t # {} /\ (\A x \in t : t \ {x} \in Q) => t \in Q
  PROVE  SUBSET S \subseteq Q
<1> DEFINE T == {k \in Nat : \A t \in SUBSET S : Cardinality(t) = k => t \in Q}
<1>1. \A t \in SUBSET S : IsFiniteSet(t) /\ Cardinality(t) \in Nat
  BY FS_Subset, FS_CardinalityType
<1>2. 0 \in T
  BY <1>1, FS_EmptySet
<1>3. ASSUME NEW k \in Nat, k \in T PROVE k + 1 \in T
  <2> SUFFICES ASSUME NEW t \in SUBSET S, Cardinality(t) = k + 1 PROVE t \in Q
    OBVIOUS
  <2>1. t # {}
    <3>1. CASE t = {}
      <4>1. Cardinality(t) = 0
        BY <3>1, FS_EmptySet
      <4> QED
        BY <4>1
    <3> QED
      BY <3>1
  <2>2. ASSUME NEW x \in t PROVE t \ {x} \in Q
    <3>1. Cardinality(t \ {x}) = k + 1 - 1
      BY <1>1, FS_RemoveElement
    <3>2. t \ {x} \in SUBSET S /\ k + 1 - 1 = k
      OBVIOUS
    <3> QED
      BY <1>3, <3>1, <3>2
  <2> QED
    BY <2>1, <2>2
<1> HIDE DEF T
<1>4. Nat \subseteq T
  BY <1>2, <1>3, NumbersAll
<1> QED
  BY <1>1, <1>4 DEF T

\* g[t] is the sum of w over t, whichever element is taken out first.
SumsUp(g, S, w) ==
  /\ g \in [SUBSET S -> Nat]
  /\ g[{}] = 0
  /\ \A t \in SUBSET S : \A x \in t : g[t] = w[x] + g[t \ {x}]

LEMMA SumExists ==
  ASSUME NEW S, IsFiniteSet(S), NEW w \in [S -> Nat]
  PROVE  \E g : SumsUp(g, S, w)
<1> DEFINE Q == {U \in SUBSET S : \E g : SumsUp(g, U, w)}
<1>1. {} \in Q
  <2> DEFINE g == [t \in SUBSET {} |-> 0]
  <2>1. \A t \in SUBSET {} : t = {}
    OBVIOUS
  <2>2. SumsUp(g, {}, w)
    BY <2>1 DEF SumsUp
  <2> HIDE DEF g
  <2> QED
    BY <2>2
<1>2. ASSUME NEW U \in SUBSET S, U # {}, \A x \in U : U \ {x} \in Q
      PROVE  U \in Q
  <2>1. PICK x \in U : TRUE
    BY <1>2
  <2> DEFINE V == U \ {x}
  <2>2. PICK g : SumsUp(g, V, w)
    BY <1>2, <2>1
  <2> HIDE DEF Q
  <2> DEFINE h == [t \in SUBSET U |-> IF x \in t THEN w[x] + g[t \ {x}] ELSE g[t]]
  <2>3. \A t \in SUBSET U : /\ t \ {x} \in SUBSET V
                            /\ x \notin t => t \in SUBSET V
    OBVIOUS
  <2>4. w[x] \in Nat /\ \A y \in U : w[y] \in Nat
    OBVIOUS
  <2>5. \A t \in SUBSET V : g[t] \in Nat
    BY <2>2 DEF SumsUp
  <2> HIDE DEF V
  <2>6. h \in [SUBSET U -> Nat]
    BY <2>3, <2>4, <2>5
  <2>7. h[{}] = 0
    BY <2>2 DEF SumsUp
  <2>8. ASSUME NEW t \in SUBSET U, NEW y \in t
        PROVE  h[t] = w[y] + h[t \ {y}]
    <3>0. t \ {y} \in SUBSET U
      OBVIOUS
    <3>1. CASE y = x
      <4>1. h[t] = w[x] + g[t \ {x}] /\ h[t \ {x}] = g[t \ {x}]
        BY <3>0, <3>1
      <4> QED
        BY <3>1, <4>1
    <3>2. CASE y # x /\ x \in t
      <4>1. h[t] = w[x] + g[t \ {x}]
        BY <3>2
      <4>2. h[t \ {y}] = w[x] + g[(t \ {y}) \ {x}]
        BY <3>0, <3>2
      <4>3. y \in t \ {x} /\ t \ {x} \in SUBSET V
        BY <2>3, <3>2
      <4>4. g[t \ {x}] = w[y] + g[(t \ {x}) \ {y}]
        BY <2>2, <4>3 DEF SumsUp
      <4>5. (t \ {x}) \ {y} = (t \ {y}) \ {x}
        OBVIOUS
      <4>6. g[(t \ {y}) \ {x}] \in Nat
        BY <2>3, <2>5, <3>0
      <4> DEFINE a == w[x]
                 b == w[y]
                 c == g[(t \ {y}) \ {x}]
      <4>7. h[t] = a + (b + c)
        BY <4>1, <4>4, <4>5, Zenon
      <4>8. h[t \ {y}] = a + c
        BY <4>2
      <4>9. a \in Nat /\ b \in Nat /\ c \in Nat
        BY <2>4, <4>6
      <4> HIDE DEF h, a, b, c
      <4>10. a + (b + c) = b + (a + c)
        BY <4>9
      <4>11. h[t] = b + h[t \ {y}]
        BY <4>7, <4>8, <4>10
      <4> QED
        BY <4>11 DEF b
    <3>3. CASE x \notin t
      <4>1. h[t] = g[t] /\ h[t \ {y}] = g[t \ {y}] /\ t \in SUBSET V
        BY <2>3, <3>0, <3>3
      <4> HIDE DEF h
      <4> QED
        BY <2>2, <4>1 DEF SumsUp
    <3> QED
      BY <3>1, <3>2, <3>3
  <2> HIDE DEF h
  <2>9. SumsUp(h, U, w)
    BY <2>6, <2>7, <2>8 DEF SumsUp
  <2>10. \E f : SumsUp(f, U, w)
    BY <2>9
  <2> QED
    BY <2>10 DEF Q
<1> HIDE DEF Q
<1>3. SUBSET S \subseteq Q
  BY <1>1, <1>2, SubsetsAll
<1>4. S \in Q
  BY <1>3
<1> QED
  BY <1>4 DEF Q

\* A sum of nothing but zeros.
LEMMA SumOfZeros ==
  ASSUME NEW S, IsFiniteSet(S), NEW w, \A x \in S : w[x] = 0, NEW g, SumsUp(g, S, w)
  PROVE  g[S] = 0
<1> DEFINE Q == {t \in SUBSET S : g[t] = 0}
<1>1. {} \in Q
  BY DEF SumsUp
<1>2. ASSUME NEW t \in SUBSET S, t # {}, \A x \in t : t \ {x} \in Q PROVE t \in Q
  <2>1. PICK x \in t : TRUE
    BY <1>2
  <2>2. g[t] = w[x] + g[t \ {x}] /\ g[t \ {x}] = 0 /\ w[x] = 0
    BY <1>2, <2>1 DEF SumsUp
  <2> QED
    BY <2>2
<1> HIDE DEF Q
<1>3. SUBSET S \subseteq Q
  BY <1>1, <1>2, SubsetsAll
<1> QED
  BY <1>3 DEF Q

\* A sum of n numbers of at least 22 is at least 22 n.
LEMMA SumOfLarge ==
  ASSUME NEW S, IsFiniteSet(S), NEW w \in [S -> Nat], \A x \in S : w[x] >= 22,
         NEW g, SumsUp(g, S, w)
  PROVE  g[S] >= 22 * Cardinality(S)
<1> DEFINE Q == {t \in SUBSET S : g[t] >= 22 * Cardinality(t)}
<1>1. {} \in Q
  BY FS_EmptySet DEF SumsUp
<1>2. ASSUME NEW t \in SUBSET S, t # {}, \A x \in t : t \ {x} \in Q PROVE t \in Q
  <2>1. PICK x \in t : TRUE
    BY <1>2
  <2>2. g[t] = w[x] + g[t \ {x}] /\ g[t \ {x}] >= 22 * Cardinality(t \ {x}) /\ w[x] >= 22
    BY <1>2, <2>1 DEF SumsUp
  <2>3. IsFiniteSet(t) /\ Cardinality(t) \in Nat
    BY FS_Subset, FS_CardinalityType
  <2>4. Cardinality(t \ {x}) = Cardinality(t) - 1
    BY <2>1, <2>3, FS_RemoveElement
  <2>5. w[x] \in Nat /\ g[t \ {x}] \in Nat
    BY <2>1 DEF SumsUp
  <2>6. g[t] >= 22 * Cardinality(t)
    BY <2>2, <2>3, <2>4, <2>5
  <2> QED
    BY <2>6
<1> HIDE DEF Q
<1>3. SUBSET S \subseteq Q
  BY <1>1, <1>2, SubsetsAll
<1> QED
  BY <1>3 DEF Q

\* Moving what is summed up changes nothing.
LEMMA SumOfMoved ==
  ASSUME NEW S, IsFiniteSet(S), NEW w, NEW g, SumsUp(g, S, w),
         NEW U, NEW v, NEW h, SumsUp(h, U, v),
         NEW m \in [S -> U], \A x, y \in S : m[x] = m[y] => x = y,
         \A x \in S : v[m[x]] = w[x]
  PROVE  h[{m[x] : x \in S}] = g[S]
<1> DEFINE Moved(t) == {m[x] : x \in t}
           Q == {t \in SUBSET S : h[Moved(t)] = g[t]}
<1>1. {} \in Q
  <2>1. Moved({}) = {}
    OBVIOUS
  <2> HIDE DEF Moved
  <2> QED
    BY <2>1 DEF SumsUp
<1>2. ASSUME NEW t \in SUBSET S, t # {}, \A x \in t : t \ {x} \in Q PROVE t \in Q
  <2>1. PICK x \in t : TRUE
    BY <1>2
  <2>2. Moved(t) \in SUBSET U /\ m[x] \in Moved(t)
    BY <2>1
  <2>3. Moved(t \ {x}) = Moved(t) \ {m[x]}
    OBVIOUS
  <2>4. h[Moved(t \ {x})] = g[t \ {x}]
    BY <1>2, <2>1
  <2> HIDE DEF Moved
  <2>5. h[Moved(t)] = v[m[x]] + h[Moved(t) \ {m[x]}]
    BY <2>2 DEF SumsUp
  <2>6. g[t] = w[x] + g[t \ {x}] /\ v[m[x]] = w[x]
    BY <2>1 DEF SumsUp
  <2> QED
    BY <2>3, <2>4, <2>5, <2>6
<1> HIDE DEF Q
<1>3. SUBSET S \subseteq Q
  BY <1>1, <1>2, SubsetsAll
<1> QED
  BY <1>3 DEF Q

\* What is moved stays finite, and as many if no two are moved together.
LEMMA MovedCounts ==
  ASSUME NEW S, IsFiniteSet(S), NEW U, NEW m \in [S -> U]
  PROVE  /\ IsFiniteSet({m[x] : x \in S})
         /\ (\A x, y \in S : m[x] = m[y] => x = y) =>
              Cardinality({m[x] : x \in S}) = Cardinality(S)
<1> DEFINE Moved(t) == {m[x] : x \in t}
           OneToOne == \A x, y \in S : m[x] = m[y] => x = y
           Q == {t \in SUBSET S : /\ IsFiniteSet(Moved(t))
                                  /\ OneToOne => Cardinality(Moved(t)) = Cardinality(t)}
<1>1. {} \in Q
  <2>1. Moved({}) = {}
    OBVIOUS
  <2> HIDE DEF Moved
  <2> QED
    BY <2>1, FS_EmptySet
<1>2. ASSUME NEW t \in SUBSET S, t # {}, \A x \in t : t \ {x} \in Q PROVE t \in Q
  <2>1. PICK x \in t : TRUE
    BY <1>2
  <2>2. Moved(t) = Moved(t \ {x}) \cup {m[x]}
    BY <2>1
  <2>3. OneToOne => m[x] \notin Moved(t \ {x})
    BY <2>1
  <2>4. /\ IsFiniteSet(Moved(t \ {x}))
        /\ OneToOne => Cardinality(Moved(t \ {x})) = Cardinality(t \ {x})
    BY <1>2, <2>1
  <2> HIDE DEF Moved, OneToOne
  <2> DEFINE A == Moved(t \ {x})
  <2>5. /\ IsFiniteSet(A \cup {m[x]})
        /\ Cardinality(A \cup {m[x]}) = IF m[x] \in A THEN Cardinality(A) ELSE Cardinality(A) + 1
    <3>1. IsFiniteSet(A)
      BY <2>4
    <3> HIDE DEF A
    <3> QED
      BY <3>1, FS_AddElement
  <2>6. IsFiniteSet(t) /\ Cardinality(t) \in Nat
    BY FS_Subset, FS_CardinalityType
  <2>7. Cardinality(t \ {x}) = Cardinality(t) - 1
    BY <2>1, <2>6, FS_RemoveElement
  <2>8. OneToOne => Cardinality(A \cup {m[x]}) = Cardinality(t) - 1 + 1
    <3>1. OneToOne => m[x] \notin A /\ Cardinality(A) = Cardinality(t) - 1
      BY <2>3, <2>4, <2>7
    <3> HIDE DEF A
    <3> QED
      BY <2>5, <3>1
  <2>9. Cardinality(t) - 1 + 1 = Cardinality(t)
    BY <2>6
  <2>10. Moved(t) = A \cup {m[x]}
    BY <2>2
  <2> HIDE DEF A
  <2> QED
    BY <2>5, <2>8, <2>9, <2>10
<1> HIDE DEF Q
<1>3. SUBSET S \subseteq Q
  BY <1>1, <1>2, SubsetsAll
<1>4. S \in Q
  BY <1>3
<1> HIDE DEF Moved, OneToOne
<1>5. IsFiniteSet(Moved(S)) /\ (OneToOne => Cardinality(Moved(S)) = Cardinality(S))
  BY <1>4 DEF Q
<1> QED
  BY <1>5 DEF Moved, OneToOne

-----------------------------------------------------------------------------
(* The error of the anchors                                                 *)

\* The anchors that are on the screen when moved down by dy, and what they
\* differ by altogether.
Valid(anchors, dy) == {a \in anchors : a.y + dy \in 0 .. One - 1}

Total(f, V, dy) == FoldSet(LAMBDA a, s : s + Difference(f, a, dy), 0, V)

LEMMA EvalIsTotal ==
  ASSUME NEW f, NEW anchors, NEW dy
  PROVE  EvalAnchors(f, anchors, dy) =
           IF Cardinality(Valid(anchors, dy)) < 4 THEN NoEvidence
           ELSE Total(f, Valid(anchors, dy), dy) \div Cardinality(Valid(anchors, dy))
BY DEF EvalAnchors, Valid, Total

\* The fold is a sum, in whichever order the anchors are chosen.
LEMMA TotalSums ==
  ASSUME NEW V, IsFiniteSet(V), NEW f, NEW dy, \A a \in V : Difference(f, a, dy) \in Nat
  PROVE  \E g : /\ SumsUp(g, V, [a \in V |-> Difference(f, a, dy)])
                /\ Total(f, V, dy) = g[V]
<1> DEFINE w == [a \in V |-> Difference(f, a, dy)]
           pick(t) == CHOOSE x \in t : TRUE
           Body(h) == [t \in SUBSET V |->
                        IF t = {} THEN 0 ELSE h[t \ {pick(t)}] + Difference(f, pick(t), dy)]
           iter == CHOOSE h : h = Body(h)
<1>1. Total(f, V, dy) = iter[V]
  BY DEF Total, FoldSet, MapThenFoldSet
<1>2. w \in [V -> Nat]
  OBVIOUS
<1>3. PICK g : SumsUp(g, V, w)
  <2> HIDE DEF w
  <2> QED
    BY <1>2, SumExists
<1>4. \A t \in SUBSET V : t # {} => pick(t) \in t
  OBVIOUS
<1>5. \A x \in V : w[x] = Difference(f, x, dy)
  OBVIOUS
<1> HIDE DEF pick, w
<1>6. ASSUME NEW t \in SUBSET V, t # {}
      PROVE  g[t] = g[t \ {pick(t)}] + Difference(f, pick(t), dy)
  <2>1. pick(t) \in t /\ pick(t) \in V
    BY <1>4, <1>6
  <2>2. g[t] = w[pick(t)] + g[t \ {pick(t)}]
    BY <1>3, <2>1 DEF SumsUp
  <2>3. w[pick(t)] = Difference(f, pick(t), dy) /\ Difference(f, pick(t), dy) \in Nat
    BY <1>5, <2>1
  <2>4. g[t \ {pick(t)}] \in Nat
    BY <1>3 DEF SumsUp
  <2> QED
    BY <2>2, <2>3, <2>4
<1>7. g = Body(g)
  <2>1. g \in [SUBSET V -> Nat] /\ g[{}] = 0
    BY <1>3 DEF SumsUp
  <2> QED
    BY <1>6, <2>1
<1>8. iter = Body(iter)
  BY <1>7
<1> HIDE DEF iter
<1>9. \A t \in SUBSET V : iter[t] = IF t = {} THEN 0
                                    ELSE iter[t \ {pick(t)}] + Difference(f, pick(t), dy)
  BY <1>8
<1> DEFINE Q == {t \in SUBSET V : iter[t] = g[t]}
<1>10. {} \in Q
  BY <1>3, <1>9 DEF SumsUp
<1>11. ASSUME NEW t \in SUBSET V, t # {}, \A x \in t : t \ {x} \in Q PROVE t \in Q
  <2>1. iter[t \ {pick(t)}] = g[t \ {pick(t)}]
    BY <1>4, <1>11
  <2>2. iter[t] = iter[t \ {pick(t)}] + Difference(f, pick(t), dy)
    BY <1>9, <1>11
  <2>3. g[t] = g[t \ {pick(t)}] + Difference(f, pick(t), dy)
    BY <1>6, <1>11
  <2> QED
    BY <2>1, <2>2, <2>3
<1> HIDE DEF Q
<1>12. SUBSET V \subseteq Q
  BY <1>10, <1>11, SubsetsAll
<1>13. iter[V] = g[V]
  BY <1>12 DEF Q
<1> QED
  BY <1>1, <1>3, <1>13 DEF w

\* Grey levels are numbers.
ColoursAreNumbers == Colours \subseteq Int

LEMMA DifferenceIsNumber ==
  ASSUME ColoursAreNumbers, NEW f \in Frames, NEW a \in AnchorSet, NEW dy \in Int
  PROVE  Difference(f, a, dy) \in Nat
<1>1. a.x \in Int /\ a.y \in Int /\ a.y + dy \in Int /\ a.colour \in Colours
  BY OneAssumption DEF AnchorSet
<1>2. Pixel(f, a.x, a.y + dy) \in Colours
  BY <1>1, PixelIsColour
<1>3. a.colour \in Int /\ Pixel(f, a.x, a.y + dy) \in Int
  BY <1>1, <1>2, Zenon DEF ColoursAreNumbers
<1> QED
  BY <1>3 DEF Difference

LEMMA ValidIsFinite ==
  ASSUME NEW anchors \in SUBSET AnchorSet, IsFiniteSet(anchors), NEW dy
  PROVE  /\ IsFiniteSet(Valid(anchors, dy)) /\ Cardinality(Valid(anchors, dy)) \in Nat
         /\ Valid(anchors, dy) \in SUBSET AnchorSet
<1>1. Valid(anchors, dy) \in SUBSET anchors
  BY DEF Valid
<1> QED
  BY <1>1, FS_Subset, FS_CardinalityType

\* Anchors that show what they showed differ by nothing.
LEMMA EvalOfFresh ==
  ASSUME ColoursAreNumbers, NEW f \in Frames,
         NEW anchors \in SUBSET AnchorSet, IsFiniteSet(anchors), Cardinality(anchors) >= 4,
         \A a \in anchors : a.y \in 0 .. One - 1 /\ a.colour = Pixel(f, a.x, a.y)
  PROVE  EvalAnchors(f, anchors, 0) = 0
<1>1. Valid(anchors, 0) = anchors
  <2> SUFFICES ASSUME NEW a \in anchors PROVE a.y + 0 \in 0 .. One - 1
    BY DEF Valid
  <2>1. a.y \in 0 .. One - 1
    OBVIOUS
  <2> QED
    BY <2>1, OneAssumption
<1> DEFINE w == [a \in anchors |-> Difference(f, a, 0)]
<1>2. \A a \in anchors : Difference(f, a, 0) \in Nat /\ Difference(f, a, 0) = 0
  <2> SUFFICES ASSUME NEW a \in anchors PROVE Difference(f, a, 0) \in Nat /\ Difference(f, a, 0) = 0
    OBVIOUS
  <2>1. a.y + 0 = a.y /\ a.y \in Int /\ a.x \in Int
    BY OneAssumption DEF AnchorSet
  <2>2. Pixel(f, a.x, a.y) \in Int
    BY <2>1, PixelIsColour DEF ColoursAreNumbers
  <2>3. Pixel(f, a.x, a.y + 0) - a.colour = 0
    BY <2>1, <2>2
  <2> QED
    BY <2>3 DEF Difference
<1>3. PICK g : SumsUp(g, anchors, w) /\ Total(f, anchors, 0) = g[anchors]
  BY <1>2, TotalSums
<1>4. \A a \in anchors : w[a] = 0
  BY <1>2
<1> HIDE DEF w
<1>5. Total(f, anchors, 0) = 0
  BY <1>3, <1>4, SumOfZeros
<1>6. Cardinality(anchors) \in Nat \ {0}
  BY FS_CardinalityType
<1>7. EvalAnchors(f, anchors, 0) = 0 \div Cardinality(anchors)
  BY <1>1, <1>5, <1>6, EvalIsTotal
<1> QED
  BY <1>6, <1>7

\* Anchors that all show something else are far off, or no evidence.
LEMMA EvalOfOther ==
  ASSUME NEW f, NEW dy, NEW anchors \in SUBSET AnchorSet, IsFiniteSet(anchors),
         \A a \in anchors : Difference(f, a, dy) \in Nat /\ Difference(f, a, dy) >= 22
  PROVE  EvalAnchors(f, anchors, dy) >= 22
<1> DEFINE V == Valid(anchors, dy)
           n == Cardinality(V)
           w == [a \in V |-> Difference(f, a, dy)]
           s == Total(f, V, dy)
<1>1. IsFiniteSet(V) /\ n \in Nat
  BY ValidIsFinite
<1>2. \A a \in V : Difference(f, a, dy) \in Nat /\ Difference(f, a, dy) >= 22
  BY DEF Valid
<1>3. EvalAnchors(f, anchors, dy) = IF n < 4 THEN NoEvidence ELSE s \div n
  BY EvalIsTotal
<1> HIDE DEF V
<1>4. PICK g : SumsUp(g, V, w) /\ s = g[V]
  BY <1>1, <1>2, TotalSums
<1>5. w \in [V -> Nat] /\ \A a \in V : w[a] >= 22
  BY <1>2
<1> HIDE DEF w, s, n
<1>6. s >= 22 * n /\ s \in Nat
  BY <1>1, <1>4, <1>5, SumOfLarge DEF SumsUp, n
<1>7. n >= 4 => s \div n >= 22
  <2> SUFFICES ASSUME n >= 4 PROVE s \div n >= 22
    OBVIOUS
  <2> DEFINE q == s \div n
  <2>1. q \in Int /\ s < n * (q + 1)
    BY <1>1, <1>6, Division
  <2>2. SUFFICES ASSUME q < 22 PROVE FALSE
    BY <2>1
  <2> HIDE DEF q
  <2>3. n * (q + 1) <= n * 22
    <3>1. q + 1 \in Int /\ q + 1 <= 22
      BY <2>1, <2>2
    <3> QED
      BY <1>1, <3>1, ProductGrows
  <2>4. n * (q + 1) \in Int
    BY <1>1, <2>1
  <2> HIDE DEF n
  <2> QED
    BY <1>1, <1>6, <2>1, <2>3, <2>4
<1> QED
  BY <1>1, <1>3, <1>7 DEF NoEvidence

\* Anchors that were moved along compare as they did before.
LEMMA EvalOfMoved ==
  ASSUME ColoursAreNumbers, NEW f \in Frames, NEW dy \in Int,
         NEW anchors \in SUBSET AnchorSet, IsFiniteSet(anchors)
  PROVE  LET moved == {[a EXCEPT !.y = @ + dy] : a \in anchors} IN
         /\ IsFiniteSet(moved)
         /\ EvalAnchors(f, moved, 0) = EvalAnchors(f, anchors, dy)
<1> DEFINE M(a) == [a EXCEPT !.y = @ + dy]
           moved == {M(a) : a \in anchors}
           V == Valid(anchors, dy)
           U == Valid(moved, 0)
<1>1. ASSUME NEW a \in AnchorSet
      PROVE  /\ M(a) \in AnchorSet /\ M(a).y = a.y + dy /\ M(a).x = a.x /\ M(a).n = a.n
             /\ M(a).colour = a.colour /\ M(a).y + 0 = a.y + dy
  BY DEF AnchorSet
<1>2. ASSUME NEW a \in AnchorSet, NEW b \in AnchorSet, M(a) = M(b) PROVE a = b
  <2>1. /\ a.x = b.x /\ a.n = b.n /\ a.colour = b.colour
        /\ a.y + dy = b.y + dy /\ a.y \in Int /\ b.y \in Int
    BY <1>1, <1>2 DEF AnchorSet
  <2>2. a.y = b.y
    <3> DEFINE u == a.y   v == b.y
    <3>1. u \in Int /\ v \in Int /\ u + dy = v + dy
      BY <2>1
    <3> HIDE DEF u, v
    <3>2. u = v
      BY <3>1
    <3> QED
      BY <3>2 DEF u, v
  <2>3. /\ a = [x |-> a.x, y |-> a.y, n |-> a.n, colour |-> a.colour]
        /\ b = [x |-> b.x, y |-> b.y, n |-> b.n, colour |-> b.colour]
    BY DEF AnchorSet
  <2> QED
    BY <2>1, <2>2, <2>3
<1>3. ASSUME NEW a \in AnchorSet
      PROVE  Difference(f, M(a), 0) = Difference(f, a, dy)
  <2> DEFINE b == M(a)
  <2>1. b.x = a.x /\ b.y + 0 = a.y + dy /\ b.colour = a.colour
    BY <1>1
  <2> HIDE DEF b
  <2>2. Difference(f, b, 0) = Difference(f, a, dy)
    BY <2>1 DEF Difference
  <2> QED
    BY <2>2 DEF b
<1> HIDE DEF M
<1> DEFINE all == [a \in anchors |-> M(a)]
           m == [a \in V |-> M(a)]
<1>4. IsFiniteSet(moved) /\ moved \in SUBSET AnchorSet
  <2>1. all \in [anchors -> AnchorSet]
    BY <1>1
  <2>2. IsFiniteSet({all[x] : x \in anchors})
    <3> HIDE DEF all
    <3> QED
      BY <2>1, MovedCounts
  <2>3. {all[x] : x \in anchors} = moved
    OBVIOUS
  <2> QED
    BY <1>1, <2>2, <2>3
<1>5. U = {m[x] : x \in V}
  <2>1. \A a \in anchors : M(a).y + 0 \in 0 .. One - 1 <=> a.y + dy \in 0 .. One - 1
    BY <1>1
  <2> QED
    BY <2>1 DEF Valid
<1>6. V \subseteq AnchorSet /\ IsFiniteSet(V) /\ Cardinality(V) \in Nat
  BY ValidIsFinite
<1>7. U \subseteq AnchorSet /\ IsFiniteSet(U) /\ Cardinality(U) \in Nat
  <2> HIDE DEF moved
  <2> QED
    BY <1>4, ValidIsFinite
<1>8. m \in [V -> U] /\ (\A x, y \in V : m[x] = m[y] => x = y) /\ \A x \in V : m[x] = M(x)
  <2>1. \A x \in V : m[x] = M(x)
    OBVIOUS
  <2>2. \A x, y \in V : m[x] = m[y] => x = y
    BY <1>2, <1>6, <2>1
  <2>3. \A x \in V : m[x] \in U
    BY <1>5
  <2> QED
    BY <2>1, <2>2, <2>3
<1> DEFINE w == [a \in V |-> Difference(f, a, dy)]
           v == [a \in U |-> Difference(f, a, 0)]
<1> HIDE DEF m, U, V, moved
<1>9. Cardinality(U) = Cardinality(V)
  <2>1. Cardinality({m[x] : x \in V}) = Cardinality(V)
    BY <1>6, <1>8, MovedCounts, SMTT(40)
  <2> QED
    BY <1>5, <2>1
<1>10. PICK g : SumsUp(g, V, w) /\ Total(f, V, dy) = g[V]
  <2>1. \A a \in V : Difference(f, a, dy) \in Nat
    BY <1>6, DifferenceIsNumber
  <2> QED
    BY <1>6, <2>1, TotalSums
<1>11. PICK h : SumsUp(h, U, v) /\ Total(f, U, 0) = h[U]
  <2>1. \A a \in U : Difference(f, a, 0) \in Nat
    BY <1>7, DifferenceIsNumber
  <2> QED
    BY <1>7, <2>1, TotalSums
<1>12. \A x \in V : v[m[x]] = w[x]
  <2> SUFFICES ASSUME NEW x \in V PROVE v[m[x]] = w[x]
    OBVIOUS
  <2>1. m[x] = M(x) /\ m[x] \in U /\ x \in AnchorSet
    BY <1>6, <1>8
  <2> QED
    BY <1>3, <2>1
<1> HIDE DEF w, v
<1>13. h[U] = g[V]
  BY <1>5, <1>6, <1>8, <1>10, <1>11, <1>12, SumOfMoved
<1>14. EvalAnchors(f, moved, 0) =
         IF Cardinality(U) < 4 THEN NoEvidence ELSE Total(f, U, 0) \div Cardinality(U)
  BY EvalIsTotal DEF U
<1>15. EvalAnchors(f, anchors, dy) =
         IF Cardinality(V) < 4 THEN NoEvidence ELSE Total(f, V, dy) \div Cardinality(V)
  BY EvalIsTotal DEF V
<1>16. EvalAnchors(f, moved, 0) = EvalAnchors(f, anchors, dy)
  BY <1>9, <1>10, <1>11, <1>13, <1>14, <1>15
<1> QED
  BY <1>4, <1>16 DEF moved, M

LEMMA EvalIsNumber ==
  ASSUME ColoursAreNumbers, NEW f \in Frames, NEW dy \in Int,
         NEW anchors \in SUBSET AnchorSet, IsFiniteSet(anchors)
  PROVE  EvalAnchors(f, anchors, dy) \in Nat
<1> DEFINE V == Valid(anchors, dy)
           n == Cardinality(V)
           s == Total(f, V, dy)
           w == [a \in V |-> Difference(f, a, dy)]
<1>1. IsFiniteSet(V) /\ n \in Nat /\ V \in SUBSET AnchorSet
  BY ValidIsFinite
<1>2. EvalAnchors(f, anchors, dy) = IF n < 4 THEN NoEvidence ELSE s \div n
  BY EvalIsTotal
<1> HIDE DEF V
<1>3. \A a \in V : Difference(f, a, dy) \in Nat
  BY <1>1, DifferenceIsNumber
<1>4. PICK g : SumsUp(g, V, w) /\ s = g[V]
  BY <1>1, <1>3, TotalSums
<1> HIDE DEF n, s, w
<1>5. s \in Nat
  BY <1>4 DEF SumsUp
<1>6. n >= 4 => s \div n \in Nat
  BY <1>1, <1>5
<1> QED
  BY <1>1, <1>2, <1>6 DEF NoEvidence

-----------------------------------------------------------------------------
(* What is true of every shield                                             *)

\* What holds of every shield and of each that is taken in, holds after step 2.
LEMMA IngestedWithin ==
  ASSUME NEW G \in SUBSET ShieldSet, NEW f \in Frames,
         \A box \in ScreenBoxes, static \in BOOLEAN : FreshShield(f, box, static) \in G,
         NEW old \in Seq(G), NEW dets \in Seq(ScreenBoxes)
  PROVE  IngestedAll(f, old, dets) \in Seq(G)
<1>1. old \in Seq(ShieldSet)
  <2>1. Len(old) \in Nat /\ old \in [1 .. Len(old) -> G]
    OBVIOUS
  <2>2. old \in [1 .. Len(old) -> ShieldSet]
    BY <2>1
  <2> QED
    BY <2>1, <2>2
<1>2. PICK r \in [0 .. Len(dets) -> Seq(ShieldSet)] :
        /\ r[0] = old
        /\ \A i \in 1 .. Len(dets) : r[i] = Ingested(r[i - 1], dets[i], f)
        /\ r[Len(dets)] = IngestedAll(f, old, dets)
  BY <1>1, IngestedRuns
<1> DEFINE n == Len(dets)
           T == {i \in 0 .. n : r[i] \in Seq(G)}
<1>3. n \in Nat
  OBVIOUS
<1>4. 0 \in T
  BY <1>2, <1>3
<1>5. ASSUME NEW i \in 0 .. n - 1, i \in T PROVE i + 1 \in T
  <2> DEFINE list == r[i]
             det == dets[i + 1]
             next == Ingested(list, det, f)
  <2>1. i + 1 \in 1 .. n /\ i + 1 - 1 = i
    BY <1>3
  <2>2. r[i + 1] = next
    BY <1>2, <2>1
  <2>3. list \in Seq(G) /\ list \in Seq(ShieldSet) /\ det \in ScreenBoxes
    BY <1>2, <1>3, <1>5, <2>1
  <2> HIDE DEF list, det
  <2>4. ASSUME next = Append(list, FreshShield(f, det, FALSE))
        PROVE  next \in Seq(G)
    <3> DEFINE new == FreshShield(f, det, FALSE)
    <3>1. FALSE \in BOOLEAN
      OBVIOUS
    <3>2. new \in G
      BY <2>3, <3>1
    <3> HIDE DEF new
    <3>3. Append(list, new) \in Seq(G)
      BY <2>3, <3>2
    <3>4. Append(list, FreshShield(f, det, FALSE)) \in Seq(G)
      BY <3>3, Zenon DEF new
    <3> QED
      BY <2>4, <3>4, Zenon
  <2>5. ASSUME NEW j \in 1 .. Len(list),
               next = [list EXCEPT ![j] = FreshShield(f, Smooth(list[j].box, det), list[j].is_static)]
        PROVE  next \in Seq(G)
    <3> DEFINE new == FreshShield(f, Smooth(list[j].box, det), list[j].is_static)
    <3>1. list[j].box \in ScreenBoxes /\ list[j].is_static \in BOOLEAN
      BY <2>3, ShieldFields
    <3>2. new \in G
      BY <2>3, <3>1, SmoothOnScreen
    <3> HIDE DEF new
    <3>3. [list EXCEPT ![j] = new] \in Seq(G)
      BY <2>3, <3>2
    <3> QED
      BY <2>5, <3>3, Zenon DEF new
  <2>6. \/ next = Append(list, FreshShield(f, det, FALSE))
        \/ \E j \in 1 .. Len(list) :
             next = [list EXCEPT ![j] = FreshShield(f, Smooth(list[j].box, det), list[j].is_static)]
    BY <2>3, IngestedCases, ZenonT(40)
  <2> HIDE DEF next
  <2>7. next \in Seq(G)
    BY <2>4, <2>5, <2>6, Zenon
  <2> QED
    BY <1>3, <2>2, <2>7
<1> HIDE DEF T
<1>6. 0 .. n \subseteq T
  BY <1>3, <1>4, <1>5, NumbersUpTo
<1>7. n \in T
  BY <1>3, <1>6
<1> QED
  BY <1>2, <1>7 DEF T

\* The same of process_frame as a whole.
LEMMA ProcessWithin ==
  ASSUME shields \in Seq(ShieldSet), NEW dt \in Nat, NEW f \in Frames, NEW dets \in Seq(ScreenBoxes),
         NEW G \in SUBSET ShieldSet,
         \A box \in ScreenBoxes, static \in BOOLEAN : FreshShield(f, box, static) \in G,
         \A i \in 1 .. Len(shields) : Anchored(Aged(dt)[i], f) \in G
  PROVE  Process(f, dets, dt) \in Seq(G)
<1>1. /\ Held(f, dt) \in Seq(ShieldSet) /\ Len(Held(f, dt)) = Len(shields)
      /\ \A i \in 1 .. Len(shields) : Held(f, dt)[i] = Anchored(Aged(dt)[i], f)
  BY HeldType
<1>2. Held(f, dt) \in Seq(G)
  <2> DEFINE held == Held(f, dt)
             n == Len(shields)
  <2>1. n \in Nat /\ held \in Seq(ShieldSet) /\ Len(held) = n
    BY <1>1
  <2>2. \A i \in 1 .. n : held[i] \in G
    BY <1>1
  <2> HIDE DEF held, n
  <2>3. held = [i \in 1 .. n |-> held[i]]
    BY <2>1
  <2>4. held \in [1 .. n -> G]
    BY <2>2, <2>3
  <2>5. held \in Seq(G)
    BY <2>1, <2>4
  <2> QED
    BY <2>5 DEF held
<1>3. Taken(f, dets, dt) \in Seq(G)
  BY <1>2, IngestedWithin DEF Taken
<1> QED
  BY <1>3, ProcessSteps, OnlyKeeps

LEMMA SampledIsFinite ==
  ASSUME NEW f, NEW box
  PROVE  IsFiniteSet(SampleAnchors(f, box))
<1> DEFINE P == ((0 .. One - 1) \X (0 .. One - 1)) \X (1 .. 6)
           m == [p \in P |-> [x |-> p[1][1], y |-> p[1][2], n |-> p[2],
                              colour |-> Pixel(f, p[1][1], p[1][2])]]
           U == {m[p] : p \in P}
<1>1. IsFiniteSet(P)
  <2>1. IsFiniteSet(0 .. One - 1) /\ IsFiniteSet(1 .. 6)
    <3>1. 0 \in Int /\ 1 \in Int /\ 6 \in Int /\ One - 1 \in Int
      BY OneAssumption
    <3> QED
      BY <3>1, FS_Interval, Zenon
  <2>2. IsFiniteSet((0 .. One - 1) \X (0 .. One - 1))
    BY <2>1, FS_Product
  <2> QED
    BY <2>1, <2>2, FS_Product
<1>2. m \in [P -> U]
  OBVIOUS
<1>3. SampleAnchors(f, box) \in SUBSET U
  <2> SUFFICES ASSUME NEW a \in SampleAnchors(f, box) PROVE a \in U
    OBVIOUS
  <2>1. PICK x \in 0 .. One - 1, y \in 0 .. One - 1, n \in 1 .. 6 :
          a = [x |-> x, y |-> y, n |-> n, colour |-> Pixel(f, x, y)]
    BY DEF SampleAnchors
  <2>2. << <<x, y>>, n>> \in P /\ m[<< <<x, y>>, n>>] = a
    BY <2>1
  <2> HIDE DEF m, P
  <2> QED
    BY <2>2
<1>4. IsFiniteSet(U)
  <2> HIDE DEF P
  <2>1. \E W : m \in [P -> W]
    BY <1>2
  <2> HIDE DEF m
  <2> QED
    BY <1>1, <2>1, MovedCounts
<1> HIDE DEF U
<1> QED
  BY <1>3, <1>4, FS_Subset

\* Shields whose anchors are few enough to be counted, and show what they did
\* in the frame f if they were seen in it.
FineShields(f) ==
  {s \in ShieldSet :
     /\ IsFiniteSet(s.anchors)
     /\ s.unseen = 0 /\ Cardinality(s.anchors) >= 4
          => EvalAnchors(f, s.anchors, 0) < anchor_error_threshold}

LEMMA FreshIsFine ==
  ASSUME ColoursAreNumbers, NEW f \in Frames, NEW box \in ScreenBoxes, NEW static \in BOOLEAN
  PROVE  FreshShield(f, box, static) \in FineShields(f)
<1> DEFINE s == FreshShield(f, box, static)
<1>1. s \in ShieldSet /\ s.anchors = SampleAnchors(f, box)
  BY FreshShieldType
<1>2. IsFiniteSet(SampleAnchors(f, box))
  BY SampledIsFinite
<1>3. /\ SampleAnchors(f, box) \in SUBSET AnchorSet
      /\ \A a \in SampleAnchors(f, box) : a.y \in 0 .. One - 1 /\ a.colour = Pixel(f, a.x, a.y)
  BY SampledAnchors
<1>4. Cardinality(SampleAnchors(f, box)) >= 4 =>
        EvalAnchors(f, SampleAnchors(f, box), 0) = 0
  BY <1>2, <1>3, EvalOfFresh
<1> HIDE DEF s
<1> QED
  BY <1>1, <1>2, <1>4 DEF FineShields, anchor_error_threshold, s

LEMMA AnchoredIsFine ==
  ASSUME ColoursAreNumbers, NEW f \in Frames,
         NEW s \in ShieldSet, IsFiniteSet(s.anchors), s.unseen > 0
  PROVE  Anchored(s, f) \in FineShields(f)
<1> DEFINE r == Anchored(s, f)
           dy == BestScroll(f, s.anchors, EvalAnchors(f, s.anchors, 0)).dy
           moved == {[a EXCEPT !.y = @ + dy] : a \in s.anchors}
<1>1. /\ r \in ShieldSet
      /\ \/ /\ EvalAnchors(f, s.anchors, 0) < anchor_error_threshold
            /\ r.anchors = s.anchors
         \/ /\ EvalAnchors(f, s.anchors, dy) < 8
            /\ dy \in Offsets
            /\ r.anchors = moved
         \/ /\ r.unseen = s.unseen
            /\ r.anchors = s.anchors
  BY AnchoredCases
<1>2. s.anchors \in SUBSET AnchorSet /\ s.unseen \in Nat
  BY DEF ShieldSet
<1> HIDE DEF r, dy
<1>3. ASSUME EvalAnchors(f, s.anchors, 0) < anchor_error_threshold, r.anchors = s.anchors
      PROVE  r \in FineShields(f)
  BY <1>1, <1>3 DEF FineShields
<1>4. ASSUME EvalAnchors(f, s.anchors, dy) < 8, dy \in Offsets, r.anchors = moved
      PROVE  r \in FineShields(f)
  <2>1. dy \in Int
    BY <1>4 DEF Offsets
  <2>2. IsFiniteSet(moved) /\ EvalAnchors(f, moved, 0) = EvalAnchors(f, s.anchors, dy)
    BY <1>2, <2>1, EvalOfMoved
  <2> HIDE DEF moved
  <2>3. EvalAnchors(f, r.anchors, 0) < 8 /\ IsFiniteSet(r.anchors)
    BY <1>4, <2>2
  <2>4. EvalAnchors(f, r.anchors, 0) \in Int
    <3>1. r.anchors \in SUBSET AnchorSet
      BY <1>1 DEF ShieldSet
    <3> QED
      BY <2>3, <3>1, EvalIsNumber
  <2>5. EvalAnchors(f, r.anchors, 0) < anchor_error_threshold
    BY <2>3, <2>4 DEF anchor_error_threshold
  <2> QED
    BY <1>1, <2>3, <2>5 DEF FineShields
<1>5. ASSUME r.unseen = s.unseen, r.anchors = s.anchors
      PROVE  r \in FineShields(f)
  <2>1. r.unseen # 0
    BY <1>2, <1>5
  <2> QED
    BY <1>1, <1>5, <2>1 DEF FineShields
<1>6. r \in FineShields(f)
  BY <1>1, <1>3, <1>4, <1>5
<1> QED
  BY <1>6 DEF r

-----------------------------------------------------------------------------
(* While the picture stands still                                           *)

\* A frame comes later than the one before.
StepsTakeTime == \A dt \in Steps : dt > 0

FineInv == shields \in Seq(FineShields(frame))

LEMMA AgedIsOlder ==
  ASSUME shields \in Seq(ShieldSet), NEW dt \in Nat, NEW i \in 1 .. Len(shields)
  PROVE  /\ Aged(dt)[i] \in ShieldSet
         /\ Aged(dt)[i].box = shields[i].box /\ Aged(dt)[i].anchors = shields[i].anchors
         /\ Aged(dt)[i].unseen = shields[i].unseen + dt
<1>1. Aged(dt) \in Seq(ShieldSet) /\ Len(Aged(dt)) = Len(shields)
      /\ Aged(dt)[i].box = shields[i].box /\ Aged(dt)[i].anchors = shields[i].anchors
  BY AgedType
<1>2. Aged(dt)[i] \in ShieldSet
  BY <1>1
<1>3. DOMAIN shields = 1 .. Len(shields) /\ shields[i] \in ShieldSet
  OBVIOUS
<1>4. Aged(dt)[i] = [shields[i] EXCEPT !.unseen = @ + dt]
  BY <1>3 DEF Aged
<1> DEFINE s == shields[i]
<1>5. s \in ShieldSet
  BY <1>3
<1> HIDE DEF s
<1>6. [s EXCEPT !.unseen = @ + dt].unseen = s.unseen + dt
  BY <1>5 DEF ShieldSet
<1> QED
  BY <1>1, <1>2, <1>4, <1>6 DEF s

LEMMA FineSteps ==
  ASSUME ColoursAreNumbers, StepsTakeTime, AnchorInv, FineInv, [AnchorNext]_anchorVars
  PROVE  FineInv'
<1>1. CASE process_frame
  <2>1. PICK f \in Frames, dets \in Reports, dt \in Steps :
          shields' = Process(f, dets, dt) /\ frame' = f
    BY <1>1 DEF process_frame
  <2>2. dt \in Nat /\ dt > 0 /\ dets \in Seq(ScreenBoxes) /\ shields \in Seq(ShieldSet)
    BY StepsAssumption, ReportsAreOnScreen DEF StepsTakeTime, AnchorInv
  <2>3. ASSUME NEW i \in 1 .. Len(shields)
        PROVE  Anchored(Aged(dt)[i], f) \in FineShields(f)
    <3>1. /\ Aged(dt)[i] \in ShieldSet /\ Aged(dt)[i].anchors = shields[i].anchors
          /\ Aged(dt)[i].unseen = shields[i].unseen + dt
      BY <2>2, AgedIsOlder
    <3>2. shields[i].unseen \in Nat
      BY <2>2, ShieldFields
    <3>3. IsFiniteSet(shields[i].anchors)
      <4>1. shields[i] \in FineShields(frame)
        BY MemberOfSeq DEF FineInv
      <4> QED
        BY <4>1 DEF FineShields
    <3>4. Aged(dt)[i].unseen > 0 /\ IsFiniteSet(Aged(dt)[i].anchors)
      BY <2>2, <3>1, <3>2, <3>3
    <3> QED
      BY <3>1, <3>4, AnchoredIsFine
  <2>4. FineShields(f) \in SUBSET ShieldSet
    BY DEF FineShields
  <2>5. \A box \in ScreenBoxes, static \in BOOLEAN : FreshShield(f, box, static) \in FineShields(f)
    BY FreshIsFine
  <2>6. Process(f, dets, dt) \in Seq(FineShields(f))
    BY <2>2, <2>3, <2>4, <2>5, ProcessWithin
  <2> QED
    BY <2>1, <2>6 DEF FineInv
<1>2. CASE set_config
  BY <1>2 DEF set_config, lastVars, FineInv
<1>3. CASE reset
  <2>1. shields' = <<>> /\ <<>> \in Seq(FineShields(frame'))
    BY <1>3 DEF reset
  <2> QED
    BY <2>1 DEF FineInv
<1>4. CASE UNCHANGED anchorVars
  BY <1>4 DEF anchorVars, lastVars, FineInv
<1> QED
  BY <1>1, <1>2, <1>3, <1>4 DEF AnchorNext

StillHeld ==
  NewFrame /\ frame' = frame =>
    \A i \in DOMAIN shields :
      shields[i].unseen = 0 /\ Cardinality(shields[i].anchors) >= 4 =>
        \E j \in DOMAIN shields' :
          /\ shields'[j].is_static /\ shields'[j].unseen = 0
          /\ HeldOrReported(shields[i].box, shields'[j].box, report')

\* What one detection does to a shield of the list.
LEMMA IngestedMoves ==
  ASSUME NEW list \in Seq(ShieldSet), NEW i \in 1 .. Len(list), NEW det \in ScreenBoxes,
         NEW f \in Frames
  PROVE  LET next == Ingested(list, det, f) IN
         /\ i \in 1 .. Len(next) /\ next[i].is_static = list[i].is_static
         /\ list[i].unseen = 0 => next[i].unseen = 0
         /\ \/ next[i].box = list[i].box
            \/ /\ Overlaps(list[i].box, det, merge_iou_threshold)
               /\ next[i].box = Smooth(list[i].box, det)
<1> DEFINE next == Ingested(list, det, f)
<1>1. CASE next = Append(list, FreshShield(f, det, FALSE))
  <2> DEFINE new == FreshShield(f, det, FALSE)
  <2> HIDE DEF new
  <2>1. i \in 1 .. Len(Append(list, new)) /\ Append(list, new)[i] = list[i]
    OBVIOUS
  <2>2. next = Append(list, new)
    BY <1>1 DEF new
  <2> HIDE DEF next
  <2>3. i \in 1 .. Len(next) /\ next[i] = list[i]
    BY <2>1, <2>2
  <2> QED
    BY <2>3 DEF next
<1>2. ASSUME NEW j \in 1 .. Len(list), Overlaps(list[j].box, det, merge_iou_threshold),
             next = [list EXCEPT ![j] = FreshShield(f, Smooth(list[j].box, det), list[j].is_static)]
      PROVE  /\ i \in 1 .. Len(next) /\ next[i].is_static = list[i].is_static
             /\ list[i].unseen = 0 => next[i].unseen = 0
             /\ \/ next[i].box = list[i].box
                \/ /\ Overlaps(list[i].box, det, merge_iou_threshold)
                   /\ next[i].box = Smooth(list[i].box, det)
  <2> DEFINE new == FreshShield(f, Smooth(list[j].box, det), list[j].is_static)
  <2>1. new.box = Smooth(list[j].box, det) /\ new.is_static = list[j].is_static /\ new.unseen = 0
    BY DEF FreshShield
  <2>2. next = [list EXCEPT ![j] = new]
    BY <1>2
  <2> HIDE DEF new, next
  <2>3. Len(next) = Len(list) /\ next[i] = IF i = j THEN new ELSE list[i]
    BY <2>2
  <2> QED
    BY <1>2, <2>1, <2>3
<1>3. \/ next = Append(list, FreshShield(f, det, FALSE))
      \/ \E j \in 1 .. Len(list) :
           /\ Overlaps(list[j].box, det, merge_iou_threshold)
           /\ next = [list EXCEPT ![j] = FreshShield(f, Smooth(list[j].box, det), list[j].is_static)]
  BY IngestedCases
<1> HIDE DEF next
<1> QED
  BY <1>1, <1>2, <1>3 DEF next

\* What a whole report does to a shield that is static and was seen now.
LEMMA IngestedStays ==
  ASSUME NEW old \in Seq(ShieldSet), NEW i \in 1 .. Len(old), old[i].is_static, old[i].unseen = 0,
         NEW dets \in Seq(ScreenBoxes), NEW f \in Frames
  PROVE  \E j \in 1 .. Len(IngestedAll(f, old, dets)) :
           /\ IngestedAll(f, old, dets)[j].is_static /\ IngestedAll(f, old, dets)[j].unseen = 0
           /\ HeldOrReported(old[i].box, IngestedAll(f, old, dets)[j].box, dets)
<1> DEFINE n == Len(dets)
           box == old[i].box
           Met == \E d \in ToSet(dets) : Overlaps(box, d, merge_iou_threshold)
<1>1. n \in Nat /\ DOMAIN dets = 1 .. n /\ \A k \in 1 .. n : dets[k] \in ScreenBoxes
                                         /\ dets[k] \in ToSet(dets)
  BY DEF ToSet
<1>2. CASE n = 1
  <2> DEFINE det == dets[1]
             next == Ingested(old, det, f)
  <2>1. IngestedAll(f, old, dets) = next
    BY <1>2, IngestedOne
  <2>2. det \in ScreenBoxes /\ det \in ToSet(dets) /\ \A d \in ToSet(dets) : d = det
    BY <1>1, <1>2 DEF ToSet
  <2> HIDE DEF det
  <2>3. /\ i \in 1 .. Len(next) /\ next[i].is_static /\ next[i].unseen = 0
        /\ \/ next[i].box = box
           \/ /\ Overlaps(box, det, merge_iou_threshold)
              /\ next[i].box = Smooth(box, det)
    BY <2>2, IngestedMoves
  <2> HIDE DEF next, box
  <2>4. HeldOrReported(box, next[i].box, dets)
    BY <2>2, <2>3 DEF HeldOrReported
  <2> QED
    BY <2>1, <2>3, <2>4 DEF box
<1>3. CASE n # 1
  <2>1. PICK r \in [0 .. n -> Seq(ShieldSet)] :
          /\ r[0] = old
          /\ \A k \in 1 .. n : r[k] = Ingested(r[k - 1], dets[k], f)
          /\ r[n] = IngestedAll(f, old, dets)
    BY IngestedRuns
  <2> DEFINE T == {k \in 0 .. n : /\ i \in 1 .. Len(r[k])
                                  /\ r[k][i].is_static /\ r[k][i].unseen = 0
                                  /\ r[k][i].box = box \/ Met}
  <2>2. 0 \in T
    BY <1>1, <2>1
  <2> HIDE DEF n
  <2>3. ASSUME NEW k \in 0 .. n - 1, k \in T PROVE k + 1 \in T
    <3> DEFINE list == r[k]
               det == dets[k + 1]
               next == Ingested(list, det, f)
    <3>1. k + 1 \in 1 .. n /\ k + 1 - 1 = k /\ k \in 0 .. n
      BY <1>1
    <3>2. r[k + 1] = next /\ det \in ScreenBoxes /\ det \in ToSet(dets) /\ list \in Seq(ShieldSet)
      BY <1>1, <2>1, <3>1
    <3>3. i \in 1 .. Len(list) /\ list[i].is_static /\ list[i].unseen = 0
          /\ (list[i].box = box \/ Met)
      BY <2>3
    <3> HIDE DEF list, det
    <3>4. /\ i \in 1 .. Len(next) /\ next[i].is_static /\ next[i].unseen = 0
          /\ \/ next[i].box = list[i].box
             \/ /\ Overlaps(list[i].box, det, merge_iou_threshold)
                /\ next[i].box = Smooth(list[i].box, det)
      BY <3>2, <3>3, IngestedMoves
    <3> HIDE DEF next
    <3>5. next[i].box = box \/ Met
      BY <3>2, <3>3, <3>4
    <3> HIDE DEF Met, box
    <3> QED
      BY <1>1, <3>1, <3>2, <3>4, <3>5
  <2> HIDE DEF T
  <2>4. 0 .. n \subseteq T
    BY <1>1, <2>2, <2>3, NumbersUpTo
  <2>5. n \in T
    BY <1>1, <2>4
  <2>6. /\ i \in 1 .. Len(r[n]) /\ r[n][i].is_static /\ r[n][i].unseen = 0
        /\ r[n][i].box = box \/ Met
    BY <2>5 DEF T
  <2>7. HeldOrReported(box, r[n][i].box, dets)
    BY <1>3, <2>6 DEF HeldOrReported, n
  <2> QED
    BY <2>1, <2>6, <2>7
<1> QED
  BY <1>2, <1>3

LEMMA OnlyMembers ==
  ASSUME NEW S, NEW s \in Seq(S), NEW keep
  PROVE  /\ \A i \in 1 .. Len(s) :
              s[i] \in keep => \E k \in 1 .. Len(Only(s, keep)) : Only(s, keep)[k] = s[i]
         /\ \A k \in 1 .. Len(Only(s, keep)) :
              \E i \in 1 .. Len(s) : Only(s, keep)[k] = s[i] /\ s[i] \in keep
<1> DEFINE r == Only(s, keep)
<1>1. PICK e \in [1 .. Len(r) -> 1 .. Len(s)] :
        /\ \A k \in 1 .. Len(r) : r[k] = s[e[k]] /\ s[e[k]] \in keep
        /\ \A k, l \in 1 .. Len(r) : e[k] = e[l] => k = l
        /\ \A i \in 1 .. Len(s) : s[i] \in keep => \E k \in 1 .. Len(r) : e[k] = i
  BY OnlyKeeps, SMTT(40)
<1> HIDE DEF r
<1>2. ASSUME NEW i \in 1 .. Len(s), s[i] \in keep
      PROVE  \E k \in 1 .. Len(r) : r[k] = s[i]
  BY <1>1, <1>2
<1>3. ASSUME NEW k \in 1 .. Len(r)
      PROVE  \E i \in 1 .. Len(s) : r[k] = s[i] /\ s[i] \in keep
  BY <1>1
<1> QED
  BY <1>2, <1>3 DEF r

LEMMA IngestedNone ==
  ASSUME NEW old \in Seq(ShieldSet), NEW dets \in Seq(ScreenBoxes), Len(dets) = 0, NEW f \in Frames
  PROVE  IngestedAll(f, old, dets) = old
<1>1. PICK r \in [0 .. Len(dets) -> Seq(ShieldSet)] :
        /\ r[0] = old
        /\ \A i \in 1 .. Len(dets) : r[i] = Ingested(r[i - 1], dets[i], f)
        /\ r[Len(dets)] = IngestedAll(f, old, dets)
  BY IngestedRuns, ZenonT(40)
<1> QED
  BY <1>1

\* What process_frame keeps when nothing is reported.
LEMMA ProcessOfNothing ==
  ASSUME shields \in Seq(ShieldSet), NEW dt \in Nat, NEW f \in Frames
  PROVE  /\ Process(f, <<>>, dt) \in Seq(ShieldSet)
         /\ \A j \in 1 .. Len(Process(f, <<>>, dt)) :
              \E i \in 1 .. Len(shields) :
                Process(f, <<>>, dt)[j] = Anchored(Aged(dt)[i], f) /\ Kept(Anchored(Aged(dt)[i], f))
<1> DEFINE held == Held(f, dt)
           n == Len(shields)
           r == Process(f, <<>>, dt)
           keep == {s \in ToSet(held) : Kept(s)}
<1>1. held \in Seq(ShieldSet) /\ Len(held) = n /\ n \in Nat
      /\ \A i \in 1 .. n : held[i] = Anchored(Aged(dt)[i], f)
  BY HeldType
<1>2. Taken(f, <<>>, dt) = held
  <2>1. <<>> \in Seq(ScreenBoxes) /\ Len(<<>>) = 0
    OBVIOUS
  <2>2. IngestedAll(f, held, <<>>) = held
    BY <1>1, <2>1, IngestedNone
  <2> QED
    BY <2>2 DEF Taken
<1>3. r = Only(held, keep)
  BY <1>2, ProcessSteps
<1>4. \A s \in keep : Kept(s)
  OBVIOUS
<1> HIDE DEF held, keep, r, n
<1>5. r \in Seq(ShieldSet)
  BY <1>1, <1>3, OnlyKeeps
<1>6. \A k \in 1 .. Len(r) : \E i \in 1 .. Len(held) : r[k] = held[i] /\ held[i] \in keep
  <2>1. \A k \in 1 .. Len(Only(held, keep)) :
          \E i \in 1 .. Len(held) : Only(held, keep)[k] = held[i] /\ held[i] \in keep
    BY <1>1, OnlyMembers
  <2> QED
    BY <1>3, <2>1
<1>7. ASSUME NEW j \in 1 .. Len(r)
      PROVE  \E i \in 1 .. n : r[j] = held[i] /\ Kept(held[i])
  BY <1>1, <1>4, <1>6
<1>8. r \in Seq(ShieldSet) /\ \A j \in 1 .. Len(r) : \E i \in 1 .. n : r[j] = held[i] /\ Kept(held[i])
  BY <1>5, <1>7
<1> QED
  BY <1>1, <1>8 DEF r, n

LEMMA StillStep ==
  ASSUME AnchorInv, FineInv, [AnchorNext]_anchorVars
  PROVE  StillHeld
<1> SUFFICES ASSUME NewFrame, frame' = frame, NEW i \in DOMAIN shields,
                    shields[i].unseen = 0, Cardinality(shields[i].anchors) >= 4
             PROVE  \E j \in DOMAIN shields' :
                      /\ shields'[j].is_static /\ shields'[j].unseen = 0
                      /\ HeldOrReported(shields[i].box, shields'[j].box, report')
  BY DEF StillHeld
<1>1. frames' = frames + 1 /\ frames \in Nat
  BY MaxFramesAssumption DEF NewFrame, AnchorInv
<1>2. process_frame
  BY <1>1 DEF AnchorNext, anchorVars, lastVars, set_config, reset
<1>3. PICK f \in Frames, dets \in Reports, dt \in Steps :
        shields' = Process(f, dets, dt) /\ frame' = f /\ report' = dets
  BY <1>2 DEF process_frame
<1>4. /\ frame \in Frames /\ f = frame /\ dets \in Seq(ScreenBoxes) /\ dt \in Nat
      /\ shields \in Seq(ShieldSet) /\ i \in 1 .. Len(shields)
  BY <1>3, StepsAssumption, ReportsAreOnScreen DEF AnchorInv
<1> DEFINE s == Aged(dt)[i]
           held == Held(f, dt)
           taken == Taken(f, dets, dt)
           keep == {u \in ToSet(taken) : Kept(u)}
<1>5. s \in ShieldSet /\ s.box = shields[i].box /\ s.anchors = shields[i].anchors
  BY <1>4, AgedIsOlder
<1>6. EvalAnchors(frame, shields[i].anchors, 0) < anchor_error_threshold
  <2>1. shields[i] \in FineShields(frame)
    BY <1>4, MemberOfSeq DEF FineInv
  <2> QED
    BY <2>1 DEF FineShields
<1>7. /\ held \in Seq(ShieldSet) /\ i \in 1 .. Len(held)
      /\ held[i] = Anchored(s, frame)
  BY <1>4, HeldType
<1>8. taken = IngestedAll(f, held, dets) /\ taken \in Seq(ShieldSet)
  BY <1>4, TakenType DEF Taken
<1>9. shields' = Only(taken, keep)
  BY <1>3, ProcessSteps
<1> HIDE DEF s, held, taken
<1>10. held[i].box = shields[i].box /\ held[i].unseen = 0 /\ held[i].is_static
  BY <1>5, <1>6, <1>7, AnchoredCases
<1>11A. \E j \in 1 .. Len(IngestedAll(f, held, dets)) :
          /\ IngestedAll(f, held, dets)[j].is_static /\ IngestedAll(f, held, dets)[j].unseen = 0
          /\ HeldOrReported(held[i].box, IngestedAll(f, held, dets)[j].box, dets)
  BY <1>4, <1>7, <1>10, IngestedStays
<1>11. PICK j \in 1 .. Len(taken) :
         /\ taken[j].is_static /\ taken[j].unseen = 0
         /\ HeldOrReported(shields[i].box, taken[j].box, dets)
  BY <1>8, <1>10, <1>11A
<1>12. taken[j] \in keep
  <2>1. Kept(taken[j])
    BY <1>11 DEF Kept, persistence_window_ms, dynamic_decay_ms
  <2> QED
    BY <1>8, <2>1 DEF ToSet
<1> HIDE DEF keep
<1>13. \E k \in 1 .. Len(Only(taken, keep)) : Only(taken, keep)[k] = taken[j]
  BY <1>8, <1>12, OnlyMembers
<1>14. shields' \in Seq(ShieldSet)
  BY <1>8, <1>9, OnlyKeeps
<1>15. PICK k \in 1 .. Len(shields') : shields'[k] = taken[j]
  BY <1>9, <1>13
<1>16. k \in DOMAIN shields'
  BY <1>14
<1> QED
  BY <1>3, <1>11, <1>15, <1>16

\* A shield that was seen in the last frame is there after the next one too
\* while the picture stands still, whether or not the detector reports it again
\* and whatever else it reports: where it was unless a report overlaps it, and
\* moved by the smoothing alone if just one thing is reported; be it one that
\* was reported, held or moved with a scroll.  A shield is left its place by the
\* sum of its anchors' differences, in whichever order they are added up.  Two
\* frames at the same instant would break it: a shield that the second of them
\* lets go would still count as just seen (visual_anchor_tracker.hpp).
THEOREM StillPicturesAreHeld ==
  ASSUME ColoursAreNumbers, StepsTakeTime
  PROVE  Spec => StillPictureIsHeld
<1>1. AnchorInit => FineInv
  <2> SUFFICES ASSUME AnchorInit PROVE FineInv
    OBVIOUS
  <2>1. shields = <<>> /\ <<>> \in Seq(FineShields(frame))
    BY DEF AnchorInit
  <2> QED
    BY <2>1 DEF FineInv
<1>2. AnchorInv /\ FineInv /\ [AnchorNext]_anchorVars => FineInv'
  BY FineSteps
<1>3. AnchorInv /\ FineInv /\ [AnchorNext]_anchorVars => [StillHeld]_anchorVars
  BY StillStep
<1> QED
  BY <1>1, <1>2, <1>3, AnchorStays, Parts, PTL DEF StillPictureIsHeld, StillHeld

-----------------------------------------------------------------------------
(* When everything on the screen changes                                    *)

\* Two pictures share no grey level, not even nearly.
Far(c, d) == c - d >= 22 \/ d - c >= 22

PicturesDiffer ==
  \A f, g \in Frames : f.picture # g.picture =>
    \A x, y, u, v \in Int : Far(Colour(f.picture, x, y), Colour(g.picture, u, v))

\* The colours of the pictures ps, and the shields whose anchors have no other.
SeenColours(ps) ==
  {Colour(g.picture, x, y) : g \in {h \in Frames : h.picture \in ps}, x \in Int, y \in Int}

SeenShields(ps) ==
  {s \in ShieldSet : IsFiniteSet(s.anchors) /\ \A a \in s.anchors : a.colour \in SeenColours(ps)}

SeenInv == shields \in Seq(SeenShields(reported_in))

LEMMA FreshIsSeen ==
  ASSUME NEW f \in Frames, NEW ps, f.picture \in ps,
         NEW box \in ScreenBoxes, NEW static \in BOOLEAN
  PROVE  FreshShield(f, box, static) \in SeenShields(ps)
<1> DEFINE s == FreshShield(f, box, static)
<1>1. s \in ShieldSet /\ s.anchors = SampleAnchors(f, box)
  BY FreshShieldType
<1>2. IsFiniteSet(SampleAnchors(f, box))
  BY SampledIsFinite
<1>3. ASSUME NEW a \in SampleAnchors(f, box) PROVE a.colour \in SeenColours(ps)
  <2>1. PICK x \in 0 .. One - 1, y \in 0 .. One - 1, n \in 1 .. 6 :
          a = [x |-> x, y |-> y, n |-> n, colour |-> Pixel(f, x, y)]
    BY <1>3 DEF SampleAnchors
  <2>2. a.colour = Colour(f.picture, x, y + f.scroll) /\ x \in Int
    BY <2>1, OneAssumption DEF Pixel
  <2>3. y + f.scroll \in Int
    <3>1. y \in Int /\ f.scroll \in Int
      BY OneAssumption, ScrollsAssumption
    <3> QED
      BY <3>1
  <2>4. f \in {h \in Frames : h.picture \in ps}
    OBVIOUS
  <2>5. \E v \in Int : v = y + f.scroll
    BY <2>3
  <2>6. PICK v \in Int : a.colour = Colour(f.picture, x, v)
    BY <2>2, <2>5
  <2> QED
    BY <2>2, <2>4, <2>6 DEF SeenColours
<1> HIDE DEF s
<1>4. s \in SeenShields(ps)
  BY <1>1, <1>2, <1>3 DEF SeenShields
<1> QED
  BY <1>4 DEF s

LEMMA AnchoredIsSeen ==
  ASSUME NEW f \in Frames, NEW ps, NEW s \in SeenShields(ps)
  PROVE  Anchored(s, f) \in SeenShields(ps)
<1> DEFINE r == Anchored(s, f)
           dy == BestScroll(f, s.anchors, EvalAnchors(f, s.anchors, 0)).dy
           m == [a \in s.anchors |-> [a EXCEPT !.y = @ + dy]]
           moved == {[a EXCEPT !.y = @ + dy] : a \in s.anchors}
<1>1. s \in ShieldSet /\ IsFiniteSet(s.anchors) /\ s.anchors \in SUBSET AnchorSet
      /\ \A a \in s.anchors : a.colour \in SeenColours(ps)
  BY DEF SeenShields, ShieldSet
<1>2. r \in ShieldSet /\ (r.anchors = s.anchors \/ r.anchors = moved)
  BY <1>1, AnchoredCases
<1> HIDE DEF r, dy
<1>3. IsFiniteSet(moved)
  <2> DEFINE S == s.anchors
  <2>0. m \in [S -> moved]
    OBVIOUS
  <2>1. moved = {m[x] : x \in S}
    OBVIOUS
  <2>2. IsFiniteSet(S)
    BY <1>1
  <2> HIDE DEF m, moved, S
  <2>3. IsFiniteSet({m[x] : x \in S})
    BY <2>0, <2>2, MovedCounts
  <2> QED
    BY <2>1, <2>3
<1>4. \A b \in moved : b.colour \in SeenColours(ps)
  <2> SUFFICES ASSUME NEW a \in s.anchors
               PROVE  [a EXCEPT !.y = @ + dy].colour \in SeenColours(ps)
    OBVIOUS
  <2>1. [a EXCEPT !.y = @ + dy].colour = a.colour
    BY <1>1 DEF AnchorSet
  <2> QED
    BY <1>1, <2>1
<1> HIDE DEF moved
<1>5. r \in SeenShields(ps)
  BY <1>1, <1>2, <1>3, <1>4 DEF SeenShields
<1> QED
  BY <1>5 DEF r

LEMMA SeenGrows ==
  ASSUME NEW ps, NEW qs, ps \subseteq qs
  PROVE  SeenShields(ps) \subseteq SeenShields(qs)
<1>1. SeenColours(ps) \subseteq SeenColours(qs)
  BY DEF SeenColours
<1> QED
  BY <1>1 DEF SeenShields

LEMMA SeenSteps ==
  ASSUME AnchorInv, SeenInv, [AnchorNext]_anchorVars
  PROVE  SeenInv'
<1>1. CASE process_frame
  <2>1. PICK f \in Frames, dets \in Reports, dt \in Steps :
          /\ shields' = Process(f, dets, dt)
          /\ reported_in' = IF dets = <<>> THEN reported_in ELSE reported_in \cup {f.picture}
    BY <1>1 DEF process_frame
  <2>2. dt \in Nat /\ dets \in Seq(ScreenBoxes) /\ shields \in Seq(ShieldSet)
    BY StepsAssumption, ReportsAreOnScreen DEF AnchorInv
  <2>3. ASSUME NEW i \in 1 .. Len(shields)
        PROVE  Anchored(Aged(dt)[i], f) \in SeenShields(reported_in)
    <3>1. Aged(dt)[i] \in ShieldSet /\ Aged(dt)[i].anchors = shields[i].anchors
      BY <2>2, AgedIsOlder
    <3>2. shields[i] \in SeenShields(reported_in)
      BY MemberOfSeq DEF SeenInv
    <3>3. Aged(dt)[i] \in SeenShields(reported_in)
      BY <3>1, <3>2 DEF SeenShields
    <3> QED
      BY <3>3, AnchoredIsSeen
  <2>4. CASE dets = <<>>
    <3> DEFINE p == Process(f, <<>>, dt)
               n == Len(p)
    <3>1. p \in Seq(ShieldSet) /\ \A j \in 1 .. n : \E i \in 1 .. Len(shields) : p[j] = Anchored(Aged(dt)[i], f)
      BY <2>2, ProcessOfNothing
    <3>2. shields' = p /\ reported_in' = reported_in
      BY <2>1, <2>4
    <3> HIDE DEF p
    <3>3. n \in Nat /\ p = [j \in 1 .. n |-> p[j]]
      BY <3>1
    <3>4. \A j \in 1 .. n : p[j] \in SeenShields(reported_in)
      BY <2>3, <3>1
    <3> HIDE DEF n
    <3>5. p \in [1 .. n -> SeenShields(reported_in)]
      BY <3>3, <3>4
    <3>6. p \in Seq(SeenShields(reported_in))
      BY <3>3, <3>5
    <3> QED
      BY <3>2, <3>6 DEF SeenInv
  <2>5. CASE dets # <<>>
    <3> DEFINE ps == reported_in \cup {f.picture}
    <3>1. reported_in' = ps
      BY <2>1, <2>5
    <3>2. SeenShields(ps) \in SUBSET ShieldSet
      BY DEF SeenShields
    <3>3. \A box \in ScreenBoxes, static \in BOOLEAN : FreshShield(f, box, static) \in SeenShields(ps)
      BY FreshIsSeen
    <3>4. SeenShields(reported_in) \subseteq SeenShields(ps)
      BY SeenGrows
    <3> HIDE DEF ps
    <3>5. Process(f, dets, dt) \in Seq(SeenShields(ps))
      BY <2>2, <2>3, <3>2, <3>3, <3>4, ProcessWithin
    <3> QED
      BY <2>1, <3>1, <3>5 DEF SeenInv
  <2> QED
    BY <2>4, <2>5
<1>2. CASE set_config
  BY <1>2 DEF set_config, lastVars, SeenInv
<1>3. CASE reset
  <2>1. shields' = <<>> /\ <<>> \in Seq(SeenShields(reported_in'))
    BY <1>3 DEF reset
  <2> QED
    BY <2>1 DEF SeenInv
<1>4. CASE UNCHANGED anchorVars
  BY <1>4 DEF anchorVars, lastVars, SeenInv
<1> QED
  BY <1>1, <1>2, <1>3, <1>4 DEF AnchorNext

\* A shield of before is let go in a picture that shares nothing with it.
LEMMA CutLetsGo ==
  ASSUME ColoursAreNumbers, PicturesDiffer, NEW ps, NEW f \in Frames, f.picture \notin ps,
         NEW s \in SeenShields(ps)
  PROVE  /\ Anchored(s, f) \in ShieldSet
         /\ Anchored(s, f).unseen = s.unseen /\ ~Anchored(s, f).is_static
<1> DEFINE dy == BestScroll(f, s.anchors, EvalAnchors(f, s.anchors, 0)).dy
<1>1. s \in ShieldSet /\ IsFiniteSet(s.anchors) /\ s.anchors \in SUBSET AnchorSet
      /\ \A a \in s.anchors : a.colour \in SeenColours(ps)
  BY DEF SeenShields, ShieldSet
<1>2. ASSUME NEW d \in Int PROVE EvalAnchors(f, s.anchors, d) \in Nat /\ EvalAnchors(f, s.anchors, d) >= 22
  <2>1. ASSUME NEW a \in s.anchors PROVE Difference(f, a, d) \in Nat /\ Difference(f, a, d) >= 22
    <3>1. PICK g \in {h \in Frames : h.picture \in ps}, u \in Int, v \in Int :
            a.colour = Colour(g.picture, u, v)
      BY <1>1 DEF SeenColours
    <3>2. a \in AnchorSet /\ f.picture # g.picture /\ g \in Frames
      BY <1>1, <3>1
    <3>3. a.x \in Int /\ a.y + d + f.scroll \in Int /\ a.y + d \in Int /\ a.colour \in Colours
      BY <3>2, OneAssumption, ScrollsAssumption DEF AnchorSet
    <3>4. Pixel(f, a.x, a.y + d) = Colour(f.picture, a.x, a.y + d + f.scroll)
      BY DEF Pixel
    <3>5. Far(Pixel(f, a.x, a.y + d), a.colour)
      BY <3>1, <3>2, <3>3, <3>4 DEF PicturesDiffer
    <3>6. Pixel(f, a.x, a.y + d) \in Colours
      BY <3>3, PixelIsColour
    <3>7. Pixel(f, a.x, a.y + d) \in Int /\ a.colour \in Int
      BY <3>3, <3>6, Zenon DEF ColoursAreNumbers
    <3> QED
      BY <3>5, <3>7 DEF Far, Difference
  <2> QED
    BY <1>1, <2>1, EvalOfOther, EvalIsNumber
<1>3. ~(EvalAnchors(f, s.anchors, 0) < anchor_error_threshold)
  <2>1. EvalAnchors(f, s.anchors, 0) \in Nat /\ EvalAnchors(f, s.anchors, 0) >= 22
    BY <1>2
  <2> QED
    BY <2>1 DEF anchor_error_threshold
<1>4. dy \in Offsets => ~(EvalAnchors(f, s.anchors, dy) < 8)
  <2> HIDE DEF dy
  <2> SUFFICES ASSUME dy \in Offsets PROVE ~(EvalAnchors(f, s.anchors, dy) < 8)
    OBVIOUS
  <2>1. dy \in Int
    BY DEF Offsets
  <2>2. EvalAnchors(f, s.anchors, dy) \in Nat /\ EvalAnchors(f, s.anchors, dy) >= 22
    BY <1>2, <2>1
  <2> QED
    BY <2>2
<1> QED
  BY <1>1, <1>3, <1>4, AnchoredCases

\* No shield was seen since the quiet began, and nothing is drawn once it has
\* lasted for the decay time.
CutInv ==
  /\ \A i \in 1 .. Len(shields) : shields[i].unseen >= quiet
  /\ CutUncovers

\* One more frame of the quiet.
LEMMA QuietFrame ==
  ASSUME ColoursAreNumbers, PicturesDiffer, AnchorInv, SeenInv, CutInv,
         NEW f \in Frames, f.picture \notin reported_in, NEW dt \in Nat,
         NEW j \in 1 .. Len(Process(f, <<>>, dt))
  PROVE  /\ Process(f, <<>>, dt)[j].unseen >= quiet + dt
         /\ quiet + dt < dynamic_decay_ms
<1> DEFINE p == Process(f, <<>>, dt)
<1>1. shields \in Seq(ShieldSet) /\ quiet \in Nat
  BY DEF AnchorInv
<1>2. PICK i \in 1 .. Len(shields) : p[j] = Anchored(Aged(dt)[i], f) /\ Kept(Anchored(Aged(dt)[i], f))
  BY <1>1, ProcessOfNothing
<1> HIDE DEF p
<1> DEFINE s == Aged(dt)[i]
           r == Anchored(s, f)
<1>3. s \in ShieldSet /\ s.anchors = shields[i].anchors /\ s.unseen = shields[i].unseen + dt
  BY <1>1, AgedIsOlder
<1>4. shields[i] \in SeenShields(reported_in) /\ shields[i].unseen \in Nat /\ shields[i].unseen >= quiet
  BY <1>1, MemberOfSeq, ShieldFields DEF SeenInv, CutInv
<1>5. p[j] = r /\ Kept(r)
  BY <1>2
<1> HIDE DEF s
<1>6. s \in SeenShields(reported_in)
  BY <1>3, <1>4 DEF SeenShields
<1>7. r.unseen = s.unseen /\ ~r.is_static
  BY <1>6, CutLetsGo
<1> HIDE DEF r
<1>8. r.unseen >= quiet + dt /\ r.unseen \in Nat
  BY <1>1, <1>3, <1>4, <1>7
<1>9. r.unseen < 280
  BY <1>5, <1>7 DEF Kept, dynamic_decay_ms
<1> QED
  BY <1>1, <1>5, <1>8, <1>9 DEF p, dynamic_decay_ms

LEMMA CutSteps ==
  ASSUME ColoursAreNumbers, PicturesDiffer, AnchorInv, SeenInv, CutInv, [AnchorNext]_anchorVars
  PROVE  CutInv'
<1>1. CASE process_frame
  <2>1. PICK f \in Frames, dets \in Reports, dt \in Steps :
          /\ shields' = Process(f, dets, dt) /\ shown' = Drawn(shields')
          /\ quiet' = IF dets = <<>> /\ f.picture \notin reported_in THEN quiet + dt ELSE 0
    BY <1>1 DEF process_frame
  <2>2. dt \in Nat /\ dets \in Seq(ScreenBoxes) /\ shields \in Seq(ShieldSet) /\ padding \in Int
    BY StepsAssumption, ReportsAreOnScreen, PaddingsAssumption DEF AnchorInv
  <2>3. shields' \in Seq(ShieldSet)
    BY <2>1, <2>2, ProcessType
  <2>4. CASE dets = <<>> /\ f.picture \notin reported_in
    <3>1. quiet' = quiet + dt /\ shields' = Process(f, <<>>, dt)
      BY <2>1, <2>4
    <3>2. \A j \in 1 .. Len(shields') : shields'[j].unseen >= quiet' /\ quiet' < dynamic_decay_ms
      BY <2>2, <2>4, <3>1, QuietFrame
    <3>3. ASSUME quiet' >= dynamic_decay_ms PROVE shown' = <<>>
      <4>1. \A j \in 1 .. Len(shields') : FALSE
        <5>1. quiet' \in Nat
          BY <2>2, <3>1 DEF AnchorInv
        <5> QED
          BY <3>2, <3>3, <5>1 DEF dynamic_decay_ms
      <4>2. Len(shields') = 0
        <5>1. Len(shields') \in Nat
          BY <2>3
        <5>2. Len(shields') # 0 => 1 \in 1 .. Len(shields')
          BY <5>1
        <5> QED
          BY <4>1, <5>2
      <4>3. shown' \in Seq(VisibleBoxes) /\ Len(shown') <= 0
        BY <2>1, <2>2, <2>3, <4>2, DrawnCovers
      <4> QED
        BY <4>3
    <3> QED
      BY <3>2, <3>3 DEF CutInv, CutUncovers
  <2>5. CASE ~(dets = <<>> /\ f.picture \notin reported_in)
    <3>1. quiet' = 0
      BY <2>1, <2>5
    <3>2. ASSUME NEW j \in 1 .. Len(shields') PROVE shields'[j].unseen >= 0
      <4>1. shields'[j].unseen \in Nat
        BY <2>3, ShieldFields
      <4> QED
        BY <4>1
    <3>3. ~(quiet' >= dynamic_decay_ms)
      BY <3>1 DEF dynamic_decay_ms
    <3> QED
      BY <3>1, <3>2, <3>3 DEF CutInv, CutUncovers
  <2> QED
    BY <2>4, <2>5
<1>2. CASE set_config
  BY <1>2 DEF set_config, lastVars, CutInv, CutUncovers
<1>3. CASE reset
  <2>1. Len(shields') = 0 /\ UNCHANGED <<shown, quiet>>
    BY <1>3 DEF reset, lastVars
  <2> QED
    BY <2>1 DEF CutInv, CutUncovers
<1>4. CASE UNCHANGED anchorVars
  BY <1>4 DEF anchorVars, lastVars, CutInv, CutUncovers
<1> QED
  BY <1>1, <1>2, <1>3, <1>4 DEF AnchorNext

\* Once the frames have shown, for the decay time altogether, nothing but
\* pictures that share no grey level with any in which a shield was anchored,
\* and nothing was reported of them, nothing is drawn any more, however static
\* the shields were and however the time is divided into frames: no average over
\* anchors of before, at no offset of a scroll, comes near enough to hold one
\* (visual_anchor_tracker.hpp, process_frame).
THEOREM CutsUncover ==
  ASSUME ColoursAreNumbers, PicturesDiffer
  PROVE  Spec => []CutUncovers
<1>1. AnchorInit => SeenInv /\ CutInv
  <2> SUFFICES ASSUME AnchorInit PROVE SeenInv /\ CutInv
    OBVIOUS
  <2>1. shields = <<>> /\ <<>> \in Seq(SeenShields(reported_in)) /\ Len(shields) = 0 /\ shown = <<>>
    BY DEF AnchorInit
  <2> QED
    BY <2>1 DEF SeenInv, CutInv, CutUncovers
<1>2. AnchorInv /\ SeenInv /\ [AnchorNext]_anchorVars => SeenInv'
  BY SeenSteps
<1>3. AnchorInv /\ SeenInv /\ CutInv /\ [AnchorNext]_anchorVars => CutInv'
  BY CutSteps
<1>4. CutInv => CutUncovers
  BY DEF CutInv
<1> QED
  BY <1>1, <1>2, <1>3, <1>4, AnchorStays, Parts, PTL
=============================================================================
