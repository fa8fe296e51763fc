----------------------------- MODULE FoldProofs -----------------------------
(***************************************************************************)
(* Induction over numbers and the folds of sequences, without an operator  *)
(* as a parameter: a set of numbers instead of a predicate, and a function *)
(* of pairs instead of what is folded.  The proofs about loops of the code *)
(* rest on the intermediate results that a fold runs through.              *)
(***************************************************************************)
EXTENDS Integers, Sequences, SequencesExt, WellFoundedInduction, TLAPS

-----------------------------------------------------------------------------
(* Numbers                                                                  *)

\* A set of numbers that has 0 and with each number the next has them all.
LEMMA NumbersAll ==
  ASSUME NEW T, 0 \in T, \A n \in Nat : n \in T => n + 1 \in T
  PROVE  Nat \subseteq T
<1> DEFINE R == OpToRel(<, Nat)
<1>1. IsWellFoundedOn(R, Nat)
  BY NatLessThanWellFounded
<1>2. \A a, b \in Nat : a < b => <<a, b>> \in R
  BY DEF OpToRel
<1> HIDE DEF R
<1>3. SUFFICES ASSUME Nat \ T # {} PROVE FALSE
  OBVIOUS
<1>4. PICK x \in Nat \ T : \A y \in Nat \ T : ~(<<y, x>> \in R)
  BY <1>1, <1>3, WFMin, Zenon
<1>5. x # 0 /\ x - 1 \in Nat /\ x - 1 < x /\ x - 1 + 1 = x
  BY <1>4
<1>6. x - 1 \notin T
  BY <1>4, <1>5
<1>7. <<x - 1, x>> \in R
  BY <1>2, <1>4, <1>5
<1> QED
  BY <1>4, <1>5, <1>6, <1>7

\* The same up to a bound.
LEMMA NumbersUpTo ==
  ASSUME NEW n \in Nat, NEW T, 0 \in T, \A i \in 0 .. n - 1 : i \in T => i + 1 \in T
  PROVE  0 .. n \subseteq T
<1> DEFINE U == {i \in Nat : i <= n => i \in T}
<1>1. 0 \in U
  OBVIOUS
<1>2. \A i \in Nat : i \in U => i + 1 \in U
  OBVIOUS
<1> HIDE DEF U
<1>3. Nat \subseteq U
  BY <1>1, <1>2, NumbersAll
<1> QED
  BY <1>3 DEF U

\* A set of numbers has a least one.
LEMMA LeastNumber ==
  ASSUME NEW T, T \subseteq Nat, T # {}
  PROVE  \E m \in T : \A k \in T : m <= k
<1> DEFINE U == {i \in Nat : \A k \in T : i <= k}
<1>1. SUFFICES ASSUME \A m \in T : \E k \in T : ~(m <= k) PROVE FALSE
  OBVIOUS
<1>2. 0 \in U
  OBVIOUS
<1>3. ASSUME NEW i \in Nat, i \in U PROVE i + 1 \in U
  <2>1. i \notin T
    BY <1>1, <1>3
  <2> QED
    BY <1>3, <2>1
<1> HIDE DEF U
<1>4. Nat \subseteq U
  BY <1>2, <1>3, NumbersAll
<1>5. PICK m \in T : TRUE
  OBVIOUS
<1>6. m + 1 \in U
  BY <1>4
<1> QED
  BY <1>6 DEF U

\* The last number of an interval.
LEMMA MaxOfInterval ==
  ASSUME NEW n \in Nat \ {0}
  PROVE  Max(1 .. n) = n
<1>1. \A y \in 1 .. n : n >= y
  OBVIOUS
<1>2. \A x \in 1 .. n : (\A y \in 1 .. n : x >= y) => x = n
  OBVIOUS
<1> QED
  BY <1>1, <1>2 DEF Max

\* A set of numbers up to n has a last one.
LEMMA MaxIn ==
  ASSUME NEW n \in Nat, NEW t \in SUBSET (1 .. n), t # {}
  PROVE  Max(t) \in t /\ \A y \in t : Max(t) >= y
<1> DEFINE T == {k \in Nat : \E x \in t : k = n - x}
<1>1. T \subseteq Nat /\ T # {}
  <2>1. PICK x \in t : TRUE
    OBVIOUS
  <2>2. n - x \in T
    BY <2>1
  <2> QED
    BY <2>2
<1>2. PICK m \in T : \A k \in T : m <= k
  BY <1>1, LeastNumber
<1>3. PICK x \in t : m = n - x
  OBVIOUS
<1>4. ASSUME NEW y \in t PROVE x >= y
  <2>1. n - y \in T
    OBVIOUS
  <2> QED
    BY <1>2, <1>3, <2>1
<1>5. \E z \in t : \A y \in t : z >= y
  BY <1>4
<1> QED
  BY <1>5, Zenon DEF Max

-----------------------------------------------------------------------------
(* Folds                                                                    *)

\* The recursion that FoldLeft is defined by, over the sets of places up to n,
\* where step[<<v, i>>] is what place i makes of the result v.
SolvesFold(g, n, base, step) ==
  \A t \in SUBSET (1 .. n) :
    g[t] = IF t = {} THEN base ELSE step[<<g[t \ {Max(t)}], Max(t)>>]

\* The same as far as the results are known to be of V.
UnfoldsIn(V, g, n, base, step) ==
  \A t \in SUBSET (1 .. n) :
    IF t = {} THEN g[t] = base
    ELSE g[t \ {Max(t)}] \in V => g[t] = step[<<g[t \ {Max(t)}], Max(t)>>]

\* The intermediate results of a fold, from none of the n places to all.
RunsThrough(V, f, g, n, base, step) ==
  /\ f \in [0 .. n -> V]
  /\ f[0] = base
  /\ \A i \in 1 .. n : f[i] = step[<<f[i - 1], i>>]
  /\ f[n] = g[1 .. n]

\* The recursion has a solution.
LEMMA FoldExists ==
  ASSUME NEW n \in Nat, NEW V, NEW base \in V, NEW step \in [V \X (1 .. n) -> V]
  PROVE  \E g \in [SUBSET (1 .. n) -> V] : SolvesFold(g, n, base, step)
<1> DEFINE Solves(g, k) == SolvesFold(g, k, base, step)
           T == {k \in 0 .. n : \E g \in [SUBSET (1 .. k) -> V] : Solves(g, k)}
<1>1. 0 \in T
  <2> DEFINE g == [t \in SUBSET (1 .. 0) |-> base]
  <2>1. \A t \in SUBSET (1 .. 0) : t = {}
    OBVIOUS
  <2>2. g \in [SUBSET (1 .. 0) -> V] /\ Solves(g, 0)
    BY <2>1 DEF SolvesFold
  <2> HIDE DEF g
  <2>3. \E f \in [SUBSET (1 .. 0) -> V] : Solves(f, 0)
    BY <2>2, Zenon
  <2> HIDE DEF Solves
  <2>4. 0 \in 0 .. n
    OBVIOUS
  <2> QED
    BY <2>3, <2>4, Zenon
<1>2. ASSUME NEW k \in 0 .. n - 1, k \in T PROVE k + 1 \in T
  <2>1. PICK g \in [SUBSET (1 .. k) -> V] : Solves(g, k)
    BY <1>2
  <2> DEFINE h == [t \in SUBSET (1 .. k + 1) |->
                    IF k + 1 \in t THEN step[<<g[t \ {k + 1}], k + 1>>] ELSE g[t]]
  <2>2. \A t \in SUBSET (1 .. k + 1) : t \ {k + 1} \in SUBSET (1 .. k)
    OBVIOUS
  <2>3. \A t \in SUBSET (1 .. k + 1) : k + 1 \in t => Max(t) = k + 1
    <3> SUFFICES ASSUME NEW t \in SUBSET (1 .. k + 1), k + 1 \in t PROVE Max(t) = k + 1
      OBVIOUS
    <3>1. \A y \in t : k + 1 >= y
      OBVIOUS
    <3>2. \A x \in t : (\A y \in t : x >= y) => x = k + 1
      OBVIOUS
    <3> QED
      BY <3>1, <3>2 DEF Max
  <2>4. \A t \in SUBSET (1 .. k + 1) : k + 1 \notin t => t \in SUBSET (1 .. k)
    OBVIOUS
  <2>5. h \in [SUBSET (1 .. k + 1) -> V]
    BY <2>2, <2>4
  <2>6. ASSUME NEW t \in SUBSET (1 .. k + 1)
        PROVE  h[t] = IF t = {} THEN base ELSE step[<<h[t \ {Max(t)}], Max(t)>>]
    <3>1. CASE k + 1 \in t
      <4>1. k + 1 \notin t \ {k + 1} /\ t \ {k + 1} \in SUBSET (1 .. k + 1)
        BY <2>2
      <4>2. h[t \ {k + 1}] = g[t \ {k + 1}]
        BY <4>1
      <4> QED
        BY <2>3, <3>1, <4>2
    <3>2. CASE k + 1 \notin t /\ t # {}
      <4>1. t \in SUBSET (1 .. k)
        BY <2>4, <3>2
      <4>2. t \ {Max(t)} \in SUBSET (1 .. k) /\ t \ {Max(t)} \in SUBSET (1 .. k + 1)
            /\ k + 1 \notin t \ {Max(t)}
        BY <4>1, <3>2
      <4>3. h[t] = g[t] /\ h[t \ {Max(t)}] = g[t \ {Max(t)}]
        BY <4>2, <3>2
      <4> QED
        BY <2>1, <3>2, <4>1, <4>3 DEF SolvesFold
    <3>3. CASE t = {}
      <4>1. h[t] = g[t] /\ t \in SUBSET (1 .. k)
        BY <3>3
      <4> QED
        BY <2>1, <3>3, <4>1 DEF SolvesFold
    <3> QED
      BY <3>1, <3>2, <3>3
  <2> HIDE DEF h
  <2>7. Solves(h, k + 1)
    BY <2>6 DEF SolvesFold
  <2>8. \E f \in [SUBSET (1 .. k + 1) -> V] : Solves(f, k + 1)
    BY <2>5, <2>7, Zenon
  <2> HIDE DEF Solves
  <2> QED
    BY <2>8
<1> HIDE DEF T
<1>3. 0 .. n \subseteq T
  BY <1>1, <1>2, NumbersUpTo
<1>4. n \in T
  BY <1>3
<1> QED
  BY <1>4 DEF T

\* A solution runs through one intermediate result after another.
LEMMA FoldRuns ==
  ASSUME NEW n \in Nat, NEW V, NEW base \in V, NEW step \in [V \X (1 .. n) -> V],
         NEW g, UnfoldsIn(V, g, n, base, step)
  PROVE  \E f : RunsThrough(V, f, g, n, base, step)
<1> DEFINE f == [i \in 0 .. n |-> g[1 .. i]]
           T == {i \in 0 .. n : f[i] \in V}
<1>1. f[0] = base
  <2>1. 1 .. 0 = {} /\ {} \in SUBSET (1 .. n)
    OBVIOUS
  <2>2. g[{}] = base
    BY <2>1, Zenon DEF UnfoldsIn
  <2> QED
    BY <2>1, <2>2
<1>2. ASSUME NEW i \in 1 .. n, f[i - 1] \in V
      PROVE  f[i] = step[<<f[i - 1], i>>]
  <2>1. Max(1 .. i) = i
    BY MaxOfInterval
  <2>2. (1 .. i) \ {i} = 1 .. i - 1 /\ 1 .. i # {} /\ 1 .. i \in SUBSET (1 .. n)
    OBVIOUS
  <2>3. f[i] = g[1 .. i] /\ f[i - 1] = g[1 .. i - 1]
    OBVIOUS
  <2> HIDE DEF f
  <2> QED
    BY <1>2, <2>1, <2>2, <2>3, ZenonT(40) DEF UnfoldsIn
<1>3. f[n] = g[1 .. n]
  OBVIOUS
<1> HIDE DEF f
<1>4. 0 \in T
  BY <1>1
<1>5. ASSUME NEW i \in 0 .. n - 1, i \in T PROVE i + 1 \in T
  <2>1. f[i + 1] = step[<<f[i], i + 1>>]
    BY <1>2, <1>5
  <2> QED
    BY <1>5, <2>1
<1> HIDE DEF T
<1>6. 0 .. n \subseteq T
  BY <1>4, <1>5, NumbersUpTo
<1>7. f \in [0 .. n -> V]
  BY <1>6 DEF T, f
<1>8. RunsThrough(V, f, g, n, base, step)
  BY <1>1, <1>2, <1>3, <1>7 DEF RunsThrough
<1> QED
  BY <1>8
=============================================================================
