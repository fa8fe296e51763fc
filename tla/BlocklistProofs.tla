--------------------------- MODULE BlocklistProofs ---------------------------
(***************************************************************************)
(* Proofs about what stands between a query and the answer to it, for all  *)
(* values of the constants: the domain tree implements the blocklist, the  *)
(* Bloom filter forgets nothing, and the packet codec reads no byte beyond *)
(* its packet and answers the question that was asked.                     *)
(***************************************************************************)
EXTENDS MCBlocklist, FiniteSetTheorems, SequenceTheorems, FoldProofs

-----------------------------------------------------------------------------
(* Prefixes.                                                                *)

\* A prefix agrees with the longer name on each of its labels.
LEMMA PrefixPointwise ==
  ASSUME NEW S, NEW p \in Seq(S), NEW q \in Seq(S)
  PROVE  IsPrefix(p, q) <=> /\ Len(p) <= Len(q)
                            /\ \A i \in 1 .. Len(p) : p[i] = q[i]
<1>1. ASSUME Len(p) <= Len(q)
      PROVE  SubSeq(p, 1, Len(p)) = SubSeq(q, 1, Len(p))
               <=> \A i \in 1 .. Len(p) : p[i] = q[i]
  <2> DEFINE sp == SubSeq(p, 1, Len(p))
             sq == SubSeq(q, 1, Len(p))
  <2>1. /\ sp \in Seq(S) /\ Len(sp) = Len(p)
        /\ \A i \in 1 .. Len(p) : sp[i] = p[i]
    <3>1. \A i \in 1 .. Len(p) : i \in 1 .. Len(p) + 1
      BY LenProperties
    <3> QED
      BY <3>1, SubSeqProperties, LenProperties
  <2>2. /\ sq \in Seq(S) /\ Len(sq) = Len(p)
        /\ \A i \in 1 .. Len(p) : sq[i] = q[i]
    BY <1>1, SubSeqProperties, LenProperties
  <2>3. sp = sq <=> \A i \in 1 .. Len(p) : sp[i] = sq[i]
    BY <2>1, <2>2, SeqEqual
  <2> QED
    BY <2>1, <2>2, <2>3
<1> QED
  BY <1>1 DEF IsPrefix

\* Being a prefix is a partial order, and the prefixes of one name are a chain.
LEMMA PrefixOrder ==
  ASSUME NEW p \in Seq(Labels), NEW q \in Seq(Labels), NEW r \in Seq(Labels)
  PROVE  /\ IsPrefix(p, p)
         /\ IsPrefix(p, q) /\ IsPrefix(q, r) => IsPrefix(p, r)
         /\ IsPrefix(p, q) /\ IsPrefix(q, p) => p = q
         /\ IsPrefix(p, r) /\ IsPrefix(q, r) => IsPrefix(p, q) \/ IsPrefix(q, p)
<1>1. IsPrefix(p, p)
  BY PrefixPointwise, LenProperties
<1>2. IsPrefix(p, q) /\ IsPrefix(q, r) => IsPrefix(p, r)
  BY PrefixPointwise, LenProperties
<1>3. IsPrefix(p, q) /\ IsPrefix(q, p) => p = q
  BY PrefixPointwise, LenProperties, SeqEqual
<1>4. IsPrefix(p, r) /\ IsPrefix(q, r) => IsPrefix(p, q) \/ IsPrefix(q, p)
  BY PrefixPointwise, LenProperties
<1> QED
  BY <1>1, <1>2, <1>3, <1>4

\* The nodes on the way to a name are its prefixes but for the root.
LEMMA PathIsPrefixes ==
  ASSUME NEW name \in Seq(Labels), NEW node
  PROVE  node \in Path(name) <=> /\ node \in Seq(Labels) \ {<<>>}
                                 /\ IsPrefix(node, name)
<1>1. ASSUME NEW l \in 0 .. Len(name)
      PROVE  /\ SubSeq(name, 1, l) \in Seq(Labels)
             /\ IsPrefix(SubSeq(name, 1, l), name)
  <2>1. \A i \in 1 .. l : i \in 1 .. Len(name) /\ name[i] \in Labels
    BY ElementOfSeq, LenProperties
  <2>2. /\ SubSeq(name, 1, l) \in Seq(Labels)
        /\ Len(SubSeq(name, 1, l)) = IF 1 <= l THEN l - 1 + 1 ELSE 0
        /\ \A i \in 1 .. l - 1 + 1 : SubSeq(name, 1, l)[i] = name[1 + i - 1]
    <3>1. l \in Int /\ 1 \in Int
      BY LenProperties
    <3> QED
      BY <2>1, <3>1, SubSeqProperties
  <2>3. /\ Len(SubSeq(name, 1, l)) = l
        /\ \A i \in 1 .. l : SubSeq(name, 1, l)[i] = name[i]
    BY <2>2, LenProperties
  <2>4. ASSUME NEW p \in Seq(Labels), Len(p) = l, \A i \in 1 .. l : p[i] = name[i]
        PROVE  IsPrefix(p, name)
    BY <2>4, PrefixPointwise, LenProperties
  <2> QED
    BY <2>2, <2>3, <2>4
<1>2. ASSUME node \in Seq(Labels), IsPrefix(node, name)
      PROVE  Len(node) \in 0 .. Len(name) /\ node = SubSeq(name, 1, Len(node))
  <2>1. Len(node) \in 0 .. Len(name)
    BY <1>2, PrefixPointwise, LenProperties
  <2>2. node = SubSeq(node, 1, Len(node))
    BY <1>2, SubSeqFull
  <2> QED
    BY <1>2, <2>1, <2>2 DEF IsPrefix
<1> QED
  BY <1>1, <1>2 DEF Path, Prefixes

-----------------------------------------------------------------------------
(* What matches answers on a tree of that shape.                            *)

\* In a tree that holds the path to every node, a walk meets a terminal node
\* exactly when some rule is a prefix of the name.
LEMMA WalkFindsRule ==
  ASSUME NEW N, NEW T,
         T \subseteq N, T \subseteq Seq(Labels) \ {<<>>},
         \A n \in N : Path(n) \subseteq N,
         NEW q \in Seq(Labels) \ {<<>>}
  PROVE  (\E node \in Path(q) : node \in T /\ Path(node) \subseteq N)
           <=> \E rule \in T : IsPrefix(rule, q)
<1>1. \A rule \in T : rule \in Path(q) <=> IsPrefix(rule, q)
  BY PathIsPrefixes
<1> QED
  BY <1>1

-----------------------------------------------------------------------------
(* The shape of the tree.                                                   *)

\* Nodes and rules are names of at least one label.
LEMMA NodesAreNames ==
  ASSUME TreeTypeOK
  PROVE  /\ nodes \subseteq Seq(Labels) \ {<<>>}
         /\ terminal \subseteq Seq(Labels) \ {<<>>}
<1>1. ASSUME NEW name \in Names PROVE Path(name) \subseteq Seq(Labels) \ {<<>>}
  BY PathIsPrefixes, NamesAssumption
<1> QED
  BY <1>1, NamesAssumption DEF TreeTypeOK

\* insert sets a new rule: the walk reaches the name itself, and it is none yet.
Fresh(name) == name \in Walked(name) /\ name \notin terminal

\* Then no broader rule stands on its path, and the whole path is walked.
LEMMA FreshWalk ==
  ASSUME TreeTypeOK, NEW name \in Names, Fresh(name)
  PROVE  /\ Walked(name) = Path(name)
         /\ name \in Path(name)
         /\ \A rule \in terminal : ~IsPrefix(rule, name)
<1> USE NodesAreNames, NamesAssumption
<1>1. name \in Path(name)
  BY PathIsPrefixes, PrefixOrder
<1>2. \A rule \in terminal : ~IsPrefix(rule, name)
  BY DEF Fresh, Walked, IsStrictPrefix
<1>3. ASSUME NEW node \in Path(name) PROVE node \in Walked(name)
  <2>1. node \in Seq(Labels) /\ IsPrefix(node, name)
    BY <1>3, PathIsPrefixes
  <2>2. \A rule \in terminal : ~IsPrefix(rule, node)
    BY <2>1, <1>2, PrefixOrder
  <2> QED
    BY <1>3, <2>2 DEF Walked, IsStrictPrefix
<1> QED
  BY <1>1, <1>2, <1>3 DEF Walked

\* Otherwise some rule already covers the name, and the walk creates nothing.
LEMMA CoveredWalk ==
  ASSUME TreeTypeOK, TreeShape, NEW name \in Names, ~Fresh(name)
  PROVE  /\ Walked(name) \subseteq nodes
         /\ \E rule \in terminal : IsPrefix(rule, name)
<1> USE NodesAreNames, NamesAssumption
<1>1. name \in Path(name)
  BY PathIsPrefixes, PrefixOrder
<1>2. PICK rule \in terminal : IsPrefix(rule, name)
  <2>1. CASE name \in terminal
    BY <2>1, PrefixOrder
  <2>2. CASE name \notin Walked(name)
    BY <2>2, <1>1 DEF Walked, IsStrictPrefix
  <2> QED
    BY <2>1, <2>2 DEF Fresh
<1>3. ASSUME NEW node \in Walked(name) PROVE node \in nodes
  <2>1. node \in Seq(Labels) \ {<<>>} /\ IsPrefix(node, name)
    BY <1>3, PathIsPrefixes DEF Walked
  <2>2. IsPrefix(node, rule)
    <3>1. ~IsStrictPrefix(rule, node)
      BY <1>3, <1>2 DEF Walked
    <3>2. IsPrefix(node, rule) \/ IsPrefix(rule, node)
      BY <2>1, <1>2, PrefixOrder
    <3> QED
      BY <3>1, <3>2, <2>1, <1>2, PrefixOrder DEF IsStrictPrefix
  <2>3. node \in Path(rule)
    BY <2>1, <2>2, <1>2, PathIsPrefixes
  <2> QED
    BY <2>3, <1>2 DEF TreeShape
<1> QED
  BY <1>2, <1>3

\* What is on the path of a name that is a node, is on the path of a node.
LEMMA PathsNest ==
  ASSUME NEW node \in Seq(Labels) \ {<<>>}, NEW name \in Seq(Labels)
  PROVE  IsPrefix(node, name) => Path(node) \subseteq Path(name)
<1> SUFFICES ASSUME IsPrefix(node, name), NEW n \in Path(node)
             PROVE  n \in Path(name)
  OBVIOUS
<1>1. n \in Seq(Labels) \ {<<>>} /\ IsPrefix(n, node)
  BY PathIsPrefixes
<1> QED
  BY <1>1, PrefixOrder, PathIsPrefixes

\* Types and shape are preserved by an insert.
LEMMA InsertKeepsShape ==
  ASSUME TreeTypeOK, TreeShape, NEW name \in Names, Insert(name)
  PROVE  TreeTypeOK' /\ TreeShape'
<1> USE NodesAreNames, NamesAssumption
<1>1. CASE Fresh(name)
  <2>1. /\ nodes' = {n \in nodes \cup Path(name) : ~IsStrictPrefix(name, n)}
        /\ terminal' = {t \in terminal : ~IsPrefix(name, t)} \cup {name}
        /\ total_rules_' = total_rules_ + 1
    BY <1>1, FreshWalk DEF Insert, Fresh
  <2>2. \A n \in nodes' : n \in Seq(Labels) \ {<<>>}
    BY <2>1, PathIsPrefixes
  <2>3. TreeTypeOK'
    BY <2>1 DEF TreeTypeOK
  <2>4. terminal' \subseteq nodes'
    <3>1. name \in nodes'
      BY <2>1, <1>1, FreshWalk DEF IsStrictPrefix
    <3>2. ASSUME NEW t \in terminal, ~IsPrefix(name, t) PROVE t \in nodes'
      BY <2>1, <3>2 DEF IsStrictPrefix, TreeShape
    <3> QED
      BY <2>1, <3>1, <3>2
  <2>5. ASSUME NEW node \in nodes', NEW n \in Path(node) PROVE n \in nodes'
    <3>1. n \in Seq(Labels) \ {<<>>} /\ IsPrefix(n, node)
      BY <2>2, PathIsPrefixes
    <3>2. n \in nodes \cup Path(name)
      <4>1. CASE node \in nodes
        BY <4>1 DEF TreeShape
      <4>2. CASE node \in Path(name)
        BY <4>2, <2>2, PathIsPrefixes, PathsNest
      <4> QED
        BY <4>1, <4>2, <2>1
    <3>3. ~IsStrictPrefix(name, n)
      <4>1. ~IsStrictPrefix(name, node)
        BY <2>1
      <4>2. ASSUME IsPrefix(name, n), name # n PROVE FALSE
        <5>1. IsPrefix(name, node)
          BY <4>2, <3>1, <2>2, PrefixOrder
        <5>2. name = node
          BY <4>1, <5>1 DEF IsStrictPrefix
        <5> QED
          BY <4>2, <5>2, <3>1, PrefixOrder
      <4> QED
        BY <4>2 DEF IsStrictPrefix
    <3> QED
      BY <3>2, <3>3, <2>1
  <2>6. ASSUME NEW node \in nodes' PROVE \E rule \in terminal' : IsPrefix(node, rule)
    <3>1. CASE node \in Path(name)
      BY <3>1, <2>1, PathIsPrefixes
    <3>2. CASE node \in nodes /\ ~IsPrefix(node, name)
      <4>1. PICK rule \in terminal : IsPrefix(node, rule)
        BY <3>2 DEF TreeShape
      <4>2. ~IsPrefix(name, rule)
        <5>1. ASSUME IsPrefix(name, rule) PROVE FALSE
          <6>1. IsPrefix(node, name) \/ IsPrefix(name, node)
            BY <2>2, <4>1, <5>1, PrefixOrder
          <6>2. IsPrefix(name, node) /\ name # node
            BY <6>1, <3>2, <2>2, PrefixOrder
          <6> QED
            BY <6>2, <2>1 DEF IsStrictPrefix
        <5> QED
          BY <5>1
      <4> QED
        BY <4>1, <4>2, <2>1
    <3> QED
      BY <3>1, <3>2, <2>1, <2>2, PathIsPrefixes
  <2>7. \A broad, narrow \in terminal' : ~IsStrictPrefix(broad, narrow)
    BY <2>1, <1>1, FreshWalk DEF TreeShape, IsStrictPrefix
  <2> QED
    BY <2>3, <2>4, <2>5, <2>6, <2>7 DEF TreeShape
<1>2. CASE ~Fresh(name)
  <2>1. UNCHANGED <<nodes, terminal, total_rules_>>
    BY <1>2, CoveredWalk DEF Insert, Fresh
  <2> QED
    BY <2>1 DEF TreeTypeOK, TreeShape
<1> QED
  BY <1>1, <1>2

\* Types hold, and the tree has the shape insert is meant to keep, after any
\* sequence of inserts and clears.
THEOREM ShapeIsKept == TreeSpec => [](TreeTypeOK /\ TreeShape)
<1>1. TreeInit => TreeTypeOK /\ TreeShape
  BY DEF TreeInit, TreeTypeOK, TreeShape
<1>2. TreeTypeOK /\ TreeShape /\ [TreeNext]_treeVars => (TreeTypeOK /\ TreeShape)'
  <2> SUFFICES ASSUME TreeTypeOK, TreeShape, [TreeNext]_treeVars
               PROVE  (TreeTypeOK /\ TreeShape)'
    OBVIOUS
  <2>1. CASE TreeClear
    BY <2>1 DEF TreeClear, TreeTypeOK, TreeShape
  <2>2. ASSUME NEW name \in Names, Insert(name) PROVE (TreeTypeOK /\ TreeShape)'
    BY <2>2, InsertKeepsShape
  <2>3. CASE UNCHANGED treeVars
    BY <2>3 DEF treeVars, TreeTypeOK, TreeShape
  <2> QED
    BY <2>1, <2>2, <2>3 DEF TreeNext
<1> QED
  BY <1>1, <1>2, PTL DEF TreeSpec

-----------------------------------------------------------------------------
(* The refinement.                                                          *)

\* An insert of the tree is an Add of the list: the names it blocks are those
\* blocked before and those the rule covers.
LEMMA InsertAdds ==
  ASSUME TreeTypeOK, TreeShape, TreeTypeOK', TreeShape',
         NEW name \in Names, Insert(name)
  PROVE  Rules!Add(name)
<1> USE NodesAreNames, NamesAssumption
<1>0. terminal' \subseteq Seq(Labels) \ {<<>>}
  BY DEF TreeTypeOK
<1>1. ASSUME NEW q \in Names
      PROVE  Matches(q) <=> \E rule \in terminal : IsPrefix(rule, q)
  <2>1. /\ terminal \subseteq nodes /\ \A n \in nodes : Path(n) \subseteq nodes
        /\ q \in Seq(Labels) \ {<<>>}
    BY DEF TreeShape
  <2> QED
    BY ONLY <2>1, NodesAreNames, TreeTypeOK, WalkFindsRule, SMTT(40) DEF Matches
<1>2. ASSUME NEW q \in Names
      PROVE  Matches(q)' <=> \E rule \in terminal' : IsPrefix(rule, q)
  <2>1. /\ terminal' \subseteq nodes' /\ \A n \in nodes' : Path(n) \subseteq nodes'
        /\ q \in Seq(Labels) \ {<<>>}
    BY DEF TreeShape
  <2> QED
    BY ONLY <1>0, <2>1, WalkFindsRule DEF Matches
<1>3. ASSUME NEW q \in Names
      PROVE  (\E rule \in terminal' : IsPrefix(rule, q))
               <=> (\E rule \in terminal : IsPrefix(rule, q)) \/ IsPrefix(name, q)
  <2>1. CASE Fresh(name)
    <3>1. terminal' = {t \in terminal : ~IsPrefix(name, t)} \cup {name}
      BY <2>1 DEF Insert, Fresh
    <3>2. ASSUME NEW t \in terminal, IsPrefix(name, t), IsPrefix(t, q)
          PROVE  IsPrefix(name, q)
      BY <3>2, PrefixOrder
    <3> QED
      BY <3>1, <3>2
  <2>2. CASE ~Fresh(name)
    <3>1. terminal' = terminal
      BY <2>2 DEF Insert, Fresh
    <3>2. PICK rule \in terminal : IsPrefix(rule, name)
      BY <2>2, CoveredWalk
    <3>3. IsPrefix(name, q) => IsPrefix(rule, q)
      BY <3>2, PrefixOrder
    <3> QED
      BY <3>1, <3>3
  <2> QED
    BY <2>1, <2>2
<1>4. Blocked' = Blocked \cup Rules!Covered(name)
  <2>1. \A q \in Names : Rules!IsPrefix(name, q) <=> IsPrefix(name, q)
    BY DEF Rules!IsPrefix, IsPrefix
  <2> QED
    BY <1>1, <1>2, <1>3, <2>1 DEF Blocked, Rules!Covered
<1> QED
  BY <1>4 DEF Rules!Add

\* The tree implements the blocklist: whatever was inserted, in whatever order,
\* matches answers as if every rule were still there.
THEOREM TreeImplementsRules == TreeSpec => ImplementsDomainRules
<1>1. TreeInit => Rules!Init
  BY DEF TreeInit, Rules!Init, Blocked, Matches
<1>2. /\ TreeTypeOK /\ TreeShape
      /\ (TreeTypeOK /\ TreeShape)'
      /\ [TreeNext]_treeVars
      => [Rules!Next]_Blocked
  <2> SUFFICES ASSUME TreeTypeOK, TreeShape, TreeTypeOK', TreeShape', [TreeNext]_treeVars
               PROVE  [Rules!Next]_Blocked
    OBVIOUS
  <2>1. CASE TreeClear
    BY <2>1 DEF TreeClear, Rules!Next, Rules!Clear, Blocked, Matches
  <2>2. ASSUME NEW name \in Names, Insert(name) PROVE Rules!Next
    BY <2>2, InsertAdds DEF Rules!Next
  <2>3. CASE UNCHANGED treeVars
    BY <2>3 DEF treeVars, Blocked, Matches
  <2> QED
    BY <2>1, <2>2, <2>3 DEF TreeNext
<1> QED
  BY <1>1, <1>2, ShapeIsKept, PTL DEF TreeSpec, ImplementsDomainRules, Rules!Spec
-----------------------------------------------------------------------------
(* The type invariant and the size.                                         *)

\* The tree and its count keep their types, for every set of labels and names.
THEOREM TreeTyping == TreeSpec => []TreeTypeOK
BY ShapeIsKept, PTL

\* There are finitely many rules, each counted when it was inserted.
SizeInv == IsFiniteSet(terminal) /\ SizeCoversRules

\* An insert adds at most one rule, and counts it; the rules it drops under the
\* new one stay counted.
LEMMA InsertCounts ==
  ASSUME TreeTypeOK, SizeInv, NEW name \in Names, Insert(name)
  PROVE  SizeInv'
<1> DEFINE kept == {t \in terminal : ~IsPrefix(name, t)}
<1>1. IsFiniteSet(terminal) /\ Cardinality(terminal) \in Nat /\ total_rules_ \in Nat
  BY FS_CardinalityType DEF SizeInv, TreeTypeOK
<1>2. IsFiniteSet(kept) /\ Cardinality(kept) \in Nat
      /\ Cardinality(kept) <= Cardinality(terminal)
  BY <1>1, FS_Subset, FS_CardinalityType
<1> HIDE DEF kept
<1>3. /\ IsFiniteSet(kept \cup {name})
      /\ Cardinality(kept \cup {name}) \in Nat
      /\ Cardinality(kept \cup {name}) <= Cardinality(kept) + 1
  <2>1. name \in kept => kept \cup {name} = kept
    OBVIOUS
  <2>2. name \notin kept => Cardinality(kept \cup {name}) = Cardinality(kept) + 1
    BY <1>2, FS_AddElement
  <2>3. IsFiniteSet(kept \cup {name})
    BY <1>2, FS_AddElement
  <2>4. CASE name \in kept
    BY <1>2, <2>1, <2>4
  <2>5. CASE name \notin kept
    BY <1>2, <2>2, <2>3, <2>5
  <2> QED
    BY <2>4, <2>5
<1>4. CASE terminal' = kept \cup {name} /\ total_rules_' = total_rules_ + 1
  BY <1>1, <1>2, <1>3, <1>4 DEF SizeInv, SizeCoversRules
<1>5. CASE UNCHANGED <<terminal, total_rules_>>
  BY <1>5 DEF SizeInv, SizeCoversRules
<1> QED
  BY <1>4, <1>5 DEF Insert, kept

\* size() never reports fewer rules than the tree holds, however many were
\* dropped under broader ones in between.
THEOREM SizeIsEnough == TreeSpec => []SizeCoversRules
<1>1. TreeInit => SizeInv
  BY FS_EmptySet DEF TreeInit, SizeInv, SizeCoversRules
<1>2. TreeTypeOK /\ SizeInv /\ [TreeNext]_treeVars => SizeInv'
  <2> SUFFICES ASSUME TreeTypeOK, SizeInv, [TreeNext]_treeVars PROVE SizeInv'
    OBVIOUS
  <2>1. CASE TreeClear
    BY <2>1, FS_EmptySet DEF TreeClear, SizeInv, SizeCoversRules
  <2>2. ASSUME NEW name \in Names, Insert(name) PROVE SizeInv'
    BY <2>2, InsertCounts
  <2>3. CASE UNCHANGED treeVars
    BY <2>3 DEF treeVars, SizeInv, SizeCoversRules
  <2> QED
    BY <2>1, <2>2, <2>3 DEF TreeNext
<1>3. SizeInv => SizeCoversRules
  BY DEF SizeInv
<1> QED
  BY <1>1, <1>2, <1>3, TreeTyping, PTL DEF TreeSpec

-----------------------------------------------------------------------------
(* The Bloom filter                                                         *)

\* A complete file holds the bits of every key that was in the filter it was
\* written from, at the positions of that filter's shape.
FileSound ==
  file.state = "good" => \A key \in file.keys : Probes(key, file.shape) \subseteq file.bits

\* Keys that are in the filter are found, and so are those in its file.
THEOREM AddedIsFound == BloomSpec => []NoFalseNegatives
<1> DEFINE IInv == NoFalseNegatives /\ FileSound
<1>1. BloomInit => IInv
  BY DEF BloomInit, NoFalseNegatives, FileSound, NoFile
<1>2. IInv /\ [BloomNext]_bloomVars => IInv'
  <2> SUFFICES ASSUME IInv, [BloomNext]_bloomVars PROVE IInv'
    OBVIOUS
  <2> USE DEF NoFalseNegatives, FileSound, MayContain
  <2>1. CASE BloomClear
    BY <2>1 DEF BloomClear
  <2>2. CASE Save
    BY <2>2 DEF Save, Saved, Truncated
  <2>3. CASE Load
    BY <2>3 DEF Load
  <2>4. CASE Construct
    BY <2>4 DEF Construct
  <2>5. ASSUME NEW key \in Keys, Add(key) PROVE IInv'
    BY <2>5 DEF Add
  <2>6. CASE UNCHANGED bloomVars
    BY <2>6 DEF bloomVars
  <2> QED
    BY <2>1, <2>2, <2>3, <2>4, <2>5, <2>6 DEF BloomNext
<1> QED
  BY <1>1, <1>2, PTL DEF BloomSpec

-----------------------------------------------------------------------------
(* The packet codec: what parsing leaves                                    *)

Octets == 0 .. 255
Words == {w \in Nat : w < 65536}

\* The bytes of a name that was read: no capitals among them.
NameBytes == Octets \ (65 .. 90)

\* Without a dot there are less than 192 bytes in a row.
Short(q) == \A i \in 1 .. Len(q) - 191 : \E k \in i .. i + 191 : q[k] = Dot

ReadNames == {q \in Seq(NameBytes) : Short(q)}

\* What a name in a packet is read to after any number of rounds; none of them
\* ends unless there may be one.
Readers(data) ==
  {n \in [state : {"reading", "bad", "complete"}, curr : Nat, offset : Nat, hops : Nat,
          jumped : BOOLEAN, qname : ReadNames, reads : SUBSET (0 .. Len(data) - 1)] :
     n.state = "complete" => MaxHops > 0}

Questions ==
  {q \in [qname : ReadNames, whole : BOOLEAN, qtype : Words, qclass : Words] :
     q.whole => MaxHops > 0}

Packets(data) ==
  [ok : BOOLEAN, id : Words, offset : Nat, questions : Seq(Questions),
   reads : SUBSET (0 .. Len(data) - 1)]

\* Two bytes make a word.
LEMMA WordOfOctets ==
  ASSUME NEW x \in Octets, NEW y \in Octets
  PROVE  256 * x + y \in Words
<1>1. x \in Int /\ x >= 0 /\ x <= 255 /\ y \in Int /\ y >= 0 /\ y <= 255
  BY DEF Octets
<1>2. 256 * x + y \in Int /\ 256 * x + y >= 0 /\ 256 * x + y <= 65535
  BY <1>1
<1> QED
  BY <1>2 DEF Words

\* What is read of a packet of bytes, and beyond its end.
LEMMA AtIsOctet ==
  ASSUME NEW data \in Seq(Octets), NEW offset \in Nat
  PROVE  /\ At(data, offset) \in Octets
         /\ Word16(data, offset) \in Words
         /\ ToLower(At(data, offset)) \in NameBytes
<1>1. ASSUME NEW o \in Nat PROVE At(data, o) \in Octets
  <2>1. Len(data) \in Nat /\ \A i \in 1 .. Len(data) : data[i] \in Octets
    OBVIOUS
  <2>2. CASE o < Len(data)
    <3>1. o + 1 \in 1 .. Len(data)
      BY <2>1, <2>2
    <3> QED
      BY <2>1, <2>2, <3>1 DEF At
  <2>3. CASE ~(o < Len(data))
    BY <2>3 DEF At, Octets
  <2> QED
    BY <2>2, <2>3
<1>2. At(data, offset) \in Octets /\ At(data, offset + 1) \in Octets
  BY <1>1
<1>3. Word16(data, offset) \in Words
  BY <1>2, WordOfOctets DEF Word16
<1>4. \A a \in Octets : ToLower(a) \in NameBytes
  BY DEF ToLower, NameBytes, Octets
<1> QED
  BY <1>2, <1>3, <1>4

\* One sequence behind another.
LEMMA Behind ==
  ASSUME NEW S, NEW s \in Seq(S), NEW t \in Seq(S)
  PROVE  /\ s \o t \in Seq(S) /\ Len(s \o t) = Len(s) + Len(t)
         /\ \A i \in 1 .. Len(s) : (s \o t)[i] = s[i]
         /\ \A i \in 1 .. Len(t) : (s \o t)[Len(s) + i] = t[i]
<1>1. Len(s) \in Nat /\ Len(t) \in Nat
  OBVIOUS
<1> QED
  BY <1>1, ConcatProperties

\* The bytes of the label at an offset.
LabelOf(data, start, length) == [i \in 1 .. length |-> ToLower(At(data, start + i - 1))]

\* A label that was read holds no capitals.
LEMMA LabelIsName ==
  ASSUME NEW data \in Seq(Octets), NEW start \in Nat, NEW length \in Nat
  PROVE  /\ LabelOf(data, start, length) \in Seq(NameBytes)
         /\ Len(LabelOf(data, start, length)) = length
         /\ \A i \in 1 .. length : LabelOf(data, start, length)[i] = ToLower(At(data, start + i - 1))
<1>1. \A i \in 1 .. length : ToLower(At(data, start + i - 1)) \in NameBytes
  <2> SUFFICES ASSUME NEW i \in 1 .. length
      PROVE  ToLower(At(data, start + i - 1)) \in NameBytes
    OBVIOUS
  <2> DEFINE o == start + i - 1
  <2>1. o \in Nat
    OBVIOUS
  <2> HIDE DEF o
  <2>2. ToLower(At(data, o)) \in NameBytes
    BY <2>1, AtIsOctet
  <2> QED
    BY <2>2 DEF o
<1> QED
  BY <1>1 DEF LabelOf

\* What WithLabel puts before the label.
Before(qname) == IF qname = <<>> THEN qname ELSE Append(qname, Dot)

\* The name before a label, and the dot behind it.
LEMMA BeforeLabel ==
  ASSUME NEW qname \in Seq(NameBytes)
  PROVE  /\ Before(qname) \in Seq(NameBytes)
         /\ Len(Before(qname)) = IF Len(qname) = 0 THEN 0 ELSE Len(qname) + 1
         /\ \A i \in 1 .. Len(qname) : Before(qname)[i] = qname[i]
         /\ Len(qname) # 0 => Before(qname)[Len(qname) + 1] = Dot
<1>1. Dot \in NameBytes
  BY DEF Dot, NameBytes, Octets
<1>2. Len(qname) = 0 <=> qname = <<>>
  OBVIOUS
<1>3. CASE qname = <<>>
  BY <1>3 DEF Before
<1>4. CASE qname # <<>>
  <2>1. Before(qname) = Append(qname, Dot)
    BY <1>4 DEF Before
  <2> QED
    BY <1>1, <1>2, <1>4, <2>1
<1> QED
  BY <1>3, <1>4

\* A label of less than 192 bytes leaves the name short.
LEMMA WithLabelType ==
  ASSUME NEW data \in Seq(Octets), NEW start \in Nat, NEW length \in 0 .. 191,
         NEW qname \in ReadNames
  PROVE  WithLabel(qname, data, start, length) \in ReadNames
<1> DEFINE s == Before(qname)
           t == LabelOf(data, start, length)
<1>1. WithLabel(qname, data, start, length) = s \o t
  BY DEF WithLabel, Before, LabelOf
<1>2. qname \in Seq(NameBytes) /\ Short(qname)
  BY DEF ReadNames
<1>3. /\ s \in Seq(NameBytes)
      /\ Len(s) = IF Len(qname) = 0 THEN 0 ELSE Len(qname) + 1
      /\ \A i \in 1 .. Len(qname) : s[i] = qname[i]
      /\ Len(qname) # 0 => s[Len(qname) + 1] = Dot
  BY <1>2, BeforeLabel
<1>4. t \in Seq(NameBytes) /\ Len(t) = length
  BY LabelIsName
<1> HIDE DEF s, t
<1>5. /\ s \o t \in Seq(NameBytes) /\ Len(s \o t) = Len(s) + length
      /\ \A i \in 1 .. Len(s) : (s \o t)[i] = s[i]
  BY <1>3, <1>4, Behind
<1>6. Len(qname) \in Nat
  BY <1>2
<1>7. ASSUME NEW i \in 1 .. Len(s \o t) - 191
      PROVE  \E k \in i .. i + 191 : (s \o t)[k] = Dot
  <2>1. Len(s) # 0 /\ Len(s) = Len(qname) + 1 /\ i <= Len(s) /\ i \in Nat \ {0}
    <3>1. Len(s) \in Nat /\ Len(s \o t) = Len(s) + length /\ length <= 191
      BY <1>3, <1>5
    <3>2. i >= 1 /\ i <= Len(s \o t) - 191 /\ i \in Int
      BY <1>5, <1>7, <3>1
    <3>3. i <= Len(s) /\ Len(s) # 0
      BY <3>1, <3>2
    <3> QED
      BY <1>3, <3>2, <3>3
  <2>2. CASE i + 191 <= Len(qname)
    <3>1. PICK k \in i .. i + 191 : qname[k] = Dot
      BY <1>2, <1>6, <2>2 DEF Short
    <3>2. k \in 1 .. Len(qname) /\ k \in 1 .. Len(s)
      BY <1>6, <2>1, <2>2
    <3>3. (s \o t)[k] = Dot
      BY <1>3, <1>5, <3>1, <3>2
    <3> QED
      BY <3>1, <3>3
  <2>3. CASE i + 191 > Len(qname)
    <3>1. Len(s) \in i .. i + 191 /\ Len(s) \in 1 .. Len(s)
      BY <1>6, <2>1, <2>3
    <3>2. (s \o t)[Len(s)] = Dot
      BY <1>3, <1>5, <1>6, <2>1, <3>1
    <3> QED
      BY <3>1, <3>2
  <2> QED
    BY <1>6, <2>2, <2>3
<1>8. Short(s \o t)
  BY <1>7 DEF Short
<1> QED
  BY <1>1, <1>5, <1>8 DEF ReadNames

-----------------------------------------------------------------------------
(* Reading a name                                                           *)

Reader(state, curr, offset, hops, jumped, qname, reads) ==
  [state |-> state, curr |-> curr, offset |-> offset, hops |-> hops,
   jumped |-> jumped, qname |-> qname, reads |-> reads]

\* The fields of a reader, and their types.
LEMMA ReaderFields ==
  ASSUME NEW data \in Seq(Octets), NEW n \in Readers(data)
  PROVE  /\ n = Reader(n.state, n.curr, n.offset, n.hops, n.jumped, n.qname, n.reads)
         /\ n.state \in {"reading", "bad", "complete"} /\ n.curr \in Nat /\ n.offset \in Nat
         /\ n.hops \in Nat /\ n.jumped \in BOOLEAN /\ n.qname \in ReadNames
         /\ n.reads \subseteq 0 .. Len(data) - 1
         /\ n.state = "complete" => MaxHops > 0
BY DEF Readers, Reader

\* Where what follows the name is, unless a pointer has been followed.
After(n, next) == IF n.jumped THEN n.offset ELSE next

\* The ways a round can change a reader, field by field.
LEMMA ReaderMoves ==
  ASSUME NEW data \in Seq(Octets), NEW n \in Readers(data)
  PROVE  /\ End(n) = Reader("complete", n.curr, After(n, n.curr + 1), n.hops, n.jumped,
                            n.qname, n.reads \cup {n.curr})
         /\ \A place :
              Jump(n, place) = Reader(n.state, place, After(n, n.curr + 2), n.hops + 1, TRUE,
                                      n.qname, n.reads \cup n.curr .. n.curr + 1)
         /\ \A qname, next :
              Take(n, qname, next) = Reader(n.state, next, After(n, next), n.hops + 1, n.jumped,
                                            qname, n.reads \cup n.curr .. next - 1)
         /\ [n EXCEPT !.state = "bad"] =
              Reader("bad", n.curr, n.offset, n.hops, n.jumped, n.qname, n.reads)
<1>1. n = Reader(n.state, n.curr, n.offset, n.hops, n.jumped, n.qname, n.reads)
  BY ReaderFields
<1>2. End(n) = Reader("complete", n.curr, After(n, n.curr + 1), n.hops, n.jumped,
                      n.qname, n.reads \cup {n.curr})
  <2> DEFINE reads == n.reads \cup {n.curr}
             offset == After(n, n.curr + 1)
             m1 == [n EXCEPT !.state = "complete"]
             m2 == [m1 EXCEPT !.reads = reads]
             m3 == [m2 EXCEPT !.offset = offset]
  <2>1. End(n) = m3
    BY DEF End, After
  <2> HIDE DEF reads, offset
  <2>2. m1 = Reader("complete", n.curr, n.offset, n.hops, n.jumped, n.qname, n.reads)
    BY <1>1 DEF Reader
  <2> HIDE DEF m1
  <2>3. m2 = Reader("complete", n.curr, n.offset, n.hops, n.jumped, n.qname, reads)
    BY <2>2 DEF Reader
  <2> HIDE DEF m2
  <2>4. m3 = Reader("complete", n.curr, offset, n.hops, n.jumped, n.qname, reads)
    BY <2>3 DEF Reader
  <2> QED
    BY <2>1, <2>4 DEF reads, offset
<1>3. ASSUME NEW place
      PROVE  Jump(n, place) = Reader(n.state, place, After(n, n.curr + 2), n.hops + 1, TRUE,
                                     n.qname, n.reads \cup n.curr .. n.curr + 1)
  <2> DEFINE reads == n.reads \cup n.curr .. n.curr + 1
             offset == After(n, n.curr + 2)
             hops == n.hops + 1
             yes == TRUE
             m1 == [n EXCEPT !.curr = place]
             m2 == [m1 EXCEPT !.hops = hops]
             m3 == [m2 EXCEPT !.jumped = yes]
             m4 == [m3 EXCEPT !.reads = reads]
             m5 == [m4 EXCEPT !.offset = offset]
  <2>1. Jump(n, place) = m5
    BY DEF Jump, After
  <2> HIDE DEF reads, offset, hops, yes
  <2>2. m1 = Reader(n.state, place, n.offset, n.hops, n.jumped, n.qname, n.reads)
    BY <1>1 DEF Reader
  <2> HIDE DEF m1
  <2>3. m2 = Reader(n.state, place, n.offset, hops, n.jumped, n.qname, n.reads)
    BY <2>2 DEF Reader
  <2> HIDE DEF m2
  <2>4. m3 = Reader(n.state, place, n.offset, hops, yes, n.qname, n.reads)
    BY <2>3 DEF Reader
  <2> HIDE DEF m3
  <2>5. m4 = Reader(n.state, place, n.offset, hops, yes, n.qname, reads)
    BY <2>4 DEF Reader
  <2> HIDE DEF m4
  <2>6. m5 = Reader(n.state, place, offset, hops, yes, n.qname, reads)
    BY <2>5 DEF Reader
  <2> QED
    BY <2>1, <2>6 DEF reads, offset, hops, yes
<1>4. ASSUME NEW qname, NEW next
      PROVE  Take(n, qname, next) = Reader(n.state, next, After(n, next), n.hops + 1, n.jumped,
                                           qname, n.reads \cup n.curr .. next - 1)
  <2> DEFINE reads == n.reads \cup n.curr .. next - 1
             offset == After(n, next)
             hops == n.hops + 1
             m1 == [n EXCEPT !.curr = next]
             m2 == [m1 EXCEPT !.hops = hops]
             m3 == [m2 EXCEPT !.qname = qname]
             m4 == [m3 EXCEPT !.reads = reads]
             m5 == [m4 EXCEPT !.offset = offset]
  <2>1. Take(n, qname, next) = m5
    BY DEF Take, After
  <2> HIDE DEF reads, offset, hops
  <2>2. m1 = Reader(n.state, next, n.offset, n.hops, n.jumped, n.qname, n.reads)
    BY <1>1 DEF Reader
  <2> HIDE DEF m1
  <2>3. m2 = Reader(n.state, next, n.offset, hops, n.jumped, n.qname, n.reads)
    BY <2>2 DEF Reader
  <2> HIDE DEF m2
  <2>4. m3 = Reader(n.state, next, n.offset, hops, n.jumped, qname, n.reads)
    BY <2>3 DEF Reader
  <2> HIDE DEF m3
  <2>5. m4 = Reader(n.state, next, n.offset, hops, n.jumped, qname, reads)
    BY <2>4 DEF Reader
  <2> HIDE DEF m4
  <2>6. m5 = Reader(n.state, next, offset, hops, n.jumped, qname, reads)
    BY <2>5 DEF Reader
  <2> QED
    BY <2>1, <2>6 DEF reads, offset, hops
<1>5. [n EXCEPT !.state = "bad"] =
        Reader("bad", n.curr, n.offset, n.hops, n.jumped, n.qname, n.reads)
  BY <1>1 DEF Reader
<1> QED
  BY <1>2, <1>3, <1>4, <1>5

\* What a round makes of a name, case by case.
LEMMA HopCases ==
  ASSUME NEW data \in Seq(Octets), NEW n \in Readers(data)
  PROVE  LET length == At(data, n.curr) IN
         /\ ~GoesOn(data, n) => Hop(data, n) = n
         /\ GoesOn(data, n) /\ length = 0 => Hop(data, n) = End(n)
         /\ GoesOn(data, n) /\ length >= 192 /\ n.curr + 1 < Len(data) =>
              Hop(data, n) = Jump(n, 256 * (length - 192) + At(data, n.curr + 1))
         /\ GoesOn(data, n) /\ length \in 1 .. 191 /\ n.curr + length < Len(data) =>
              Hop(data, n) = Take(n, WithLabel(n.qname, data, n.curr + 1, length), n.curr + 1 + length)
         /\ GoesOn(data, n) /\ length # 0 /\ ~(length >= 192 /\ n.curr + 1 < Len(data))
                /\ ~(length \in 1 .. 191 /\ n.curr + length < Len(data)) =>
              Hop(data, n) = [n EXCEPT !.state = "bad"]
<1> DEFINE length == At(data, n.curr)
           jump == Jump(n, 256 * (length - 192) + At(data, n.curr + 1))
           take == Take(n, WithLabel(n.qname, data, n.curr + 1, length), n.curr + 1 + length)
           bad == [n EXCEPT !.state = "bad"]
<1>1. Hop(data, n) =
        IF ~GoesOn(data, n) THEN n
        ELSE CASE length = 0 -> End(n)
               [] length >= 192 /\ n.curr + 1 < Len(data) -> jump
               [] length \in 1 .. 191 /\ n.curr + length < Len(data) -> take
               [] OTHER -> bad
  BY DEF Hop
<1> HIDE DEF jump, take, bad, length
<1>2. ~GoesOn(data, n) => Hop(data, n) = n
  BY <1>1
<1>3. ASSUME GoesOn(data, n), length = 0 PROVE Hop(data, n) = End(n)
  BY <1>1, <1>3
<1>4. ASSUME GoesOn(data, n), length >= 192 /\ n.curr + 1 < Len(data) PROVE Hop(data, n) = jump
  <2>1. length # 0 /\ length \notin 1 .. 191
    <3>1. length \in Octets
      BY ReaderFields, AtIsOctet DEF length
    <3> QED
      BY <1>4, <3>1 DEF Octets
  <2> QED
    BY <1>1, <1>4, <2>1
<1>5. ASSUME GoesOn(data, n), length \in 1 .. 191 /\ n.curr + length < Len(data)
      PROVE  Hop(data, n) = take
  <2>1. length # 0 /\ ~(length >= 192)
    BY <1>5
  <2> QED
    BY <1>1, <1>5, <2>1
<1>6. ASSUME GoesOn(data, n), length # 0, ~(length >= 192 /\ n.curr + 1 < Len(data)),
             ~(length \in 1 .. 191 /\ n.curr + length < Len(data))
      PROVE  Hop(data, n) = bad
  BY <1>1, <1>6
<1> QED
  BY <1>2, <1>3, <1>4, <1>5, <1>6 DEF length, jump, take, bad

\* Readers by their fields.
LEMMA ReaderIs ==
  ASSUME NEW data \in Seq(Octets),
         NEW state \in {"reading", "bad", "complete"}, NEW curr \in Nat, NEW offset \in Nat,
         NEW hops \in Nat, NEW jumped \in BOOLEAN, NEW qname \in ReadNames,
         NEW reads, reads \subseteq 0 .. Len(data) - 1,
         state = "complete" => MaxHops > 0
  PROVE  Reader(state, curr, offset, hops, jumped, qname, reads) \in Readers(data)
BY DEF Reader, Readers

\* A round leaves a reader a reader, and reads within the packet.
LEMMA HopType ==
  ASSUME NEW data \in Seq(Octets), NEW n \in Readers(data)
  PROVE  Hop(data, n) \in Readers(data)
<1> DEFINE length == At(data, n.curr)
           place == 256 * (length - 192) + At(data, n.curr + 1)
           next == n.curr + 1 + length
           qname == WithLabel(n.qname, data, n.curr + 1, length)
<1>1. /\ n.state \in {"reading", "bad", "complete"} /\ n.curr \in Nat /\ n.offset \in Nat
      /\ n.hops \in Nat /\ n.jumped \in BOOLEAN /\ n.qname \in ReadNames
      /\ n.reads \subseteq 0 .. Len(data) - 1
      /\ n.state = "complete" => MaxHops > 0
  BY ReaderFields
<1>2. length \in Octets /\ At(data, n.curr + 1) \in Octets
  <2>1. n.curr + 1 \in Nat
    BY <1>1
  <2> QED
    BY <1>1, <2>1, AtIsOctet
<1>3. Len(data) \in Nat
  OBVIOUS
<1>4. GoesOn(data, n) => /\ n.state = "reading" /\ n.curr < Len(data) /\ MaxHops > 0
  BY <1>1, MaxHopsAssumption DEF GoesOn
<1>5. \A k \in Nat : After(n, k) \in Nat
  BY <1>1 DEF After
<1> HIDE DEF length
<1>6. CASE ~GoesOn(data, n)
  BY <1>6, HopCases
<1>7. CASE GoesOn(data, n) /\ length = 0
  <2>1. Hop(data, n) = End(n)
    BY <1>7, HopCases DEF length
  <2>2. End(n) = Reader("complete", n.curr, After(n, n.curr + 1), n.hops, n.jumped,
                        n.qname, n.reads \cup {n.curr})
    BY ReaderMoves
  <2>3. n.reads \cup {n.curr} \subseteq 0 .. Len(data) - 1
    BY <1>1, <1>3, <1>4, <1>7
  <2>4. n.curr + 1 \in Nat
    BY <1>1
  <2>5. Reader("complete", n.curr, After(n, n.curr + 1), n.hops, n.jumped,
               n.qname, n.reads \cup {n.curr}) \in Readers(data)
    BY <1>1, <1>4, <1>5, <1>7, <2>3, <2>4, ReaderIs
  <2> QED
    BY <2>1, <2>2, <2>5
<1>8. CASE GoesOn(data, n) /\ length >= 192 /\ n.curr + 1 < Len(data)
  <2>1. Hop(data, n) = Jump(n, place)
    BY <1>8, HopCases DEF length
  <2>2. place \in Nat
    <3>1. \A o \in Octets : o \in Nat
      BY DEF Octets
    <3>2. length \in Nat /\ length >= 192 /\ At(data, n.curr + 1) \in Nat
      BY <1>2, <1>8, <3>1
    <3> QED
      BY <3>2
  <2> HIDE DEF place
  <2>3. Jump(n, place) = Reader(n.state, place, After(n, n.curr + 2), n.hops + 1, TRUE,
                                n.qname, n.reads \cup n.curr .. n.curr + 1)
    BY ReaderMoves
  <2>4. n.reads \cup n.curr .. n.curr + 1 \subseteq 0 .. Len(data) - 1
    <3>1. \A k \in n.curr .. n.curr + 1 : k \in 0 .. Len(data) - 1
      BY <1>1, <1>3, <1>8
    <3> QED
      BY <1>1, <3>1
  <2>5. n.curr + 2 \in Nat /\ n.hops + 1 \in Nat
    BY <1>1
  <2>6. Reader(n.state, place, After(n, n.curr + 2), n.hops + 1, TRUE,
               n.qname, n.reads \cup n.curr .. n.curr + 1) \in Readers(data)
    BY <1>1, <1>5, <2>2, <2>4, <2>5, ReaderIs
  <2> QED
    BY <2>1, <2>3, <2>6
<1>9. CASE GoesOn(data, n) /\ length \in 1 .. 191 /\ n.curr + length < Len(data)
  <2>1. Hop(data, n) = Take(n, qname, next)
    BY <1>9, HopCases DEF length
  <2>2. qname \in ReadNames
    <3>1. length \in 0 .. 191 /\ n.curr + 1 \in Nat
      BY <1>1, <1>9
    <3> QED
      BY <1>1, <3>1, WithLabelType
  <2>3. next \in Nat /\ n.hops + 1 \in Nat
    <3>1. length \in Nat
      BY <1>9
    <3> QED
      BY <1>1, <3>1
  <2>4. n.reads \cup n.curr .. next - 1 \subseteq 0 .. Len(data) - 1
    <3>1. \A k \in n.curr .. next - 1 : k \in 0 .. Len(data) - 1
      BY <1>1, <1>3, <1>9
    <3> QED
      BY <1>1, <3>1
  <2> HIDE DEF next, qname
  <2>5. \A q, p : Take(n, q, p) = Reader(n.state, p, After(n, p), n.hops + 1, n.jumped,
                                        q, n.reads \cup n.curr .. p - 1)
    BY ReaderMoves
  <2>6. Take(n, qname, next) =
          Reader(n.state, next, After(n, next), n.hops + 1, n.jumped, qname,
                 n.reads \cup n.curr .. next - 1)
    BY <2>5
  <2>7. Reader(n.state, next, After(n, next), n.hops + 1, n.jumped, qname,
               n.reads \cup n.curr .. next - 1) \in Readers(data)
    BY <1>1, <1>5, <2>2, <2>3, <2>4, ReaderIs
  <2> QED
    BY <2>1, <2>6, <2>7
<1>10. CASE GoesOn(data, n) /\ length # 0 /\ ~(length >= 192 /\ n.curr + 1 < Len(data))
            /\ ~(length \in 1 .. 191 /\ n.curr + length < Len(data))
  <2>1. Hop(data, n) = [n EXCEPT !.state = "bad"]
    BY <1>10, HopCases DEF length
  <2>2. [n EXCEPT !.state = "bad"] =
          Reader("bad", n.curr, n.offset, n.hops, n.jumped, n.qname, n.reads)
    BY ReaderMoves
  <2>3. Reader("bad", n.curr, n.offset, n.hops, n.jumped, n.qname, n.reads) \in Readers(data)
    BY <1>1, ReaderIs
  <2> QED
    BY <2>1, <2>2, <2>3
<1> QED
  BY <1>6, <1>7, <1>8, <1>9, <1>10

\* Before the first round.
Unread(offset) == Reader("reading", offset, offset, 0, FALSE, <<>>, {})

\* A name is not read outside the packet before the first round.
LEMMA UnreadType ==
  ASSUME NEW data \in Seq(Octets), NEW offset \in Nat
  PROVE  Unread(offset) \in Readers(data)
<1>1. <<>> \in Seq(NameBytes) /\ Len(<<>>) = 0
  OBVIOUS
<1>2. <<>> \in ReadNames
  <2>1. 1 .. Len(<<>>) - 191 = {}
    BY <1>1
  <2> QED
    BY <1>1, <2>1 DEF ReadNames, Short
<1> QED
  BY <1>2, ReaderIs DEF Unread

\* The rounds that NameAt goes through.
LEMMA NameRuns ==
  ASSUME NEW data \in Seq(Octets), NEW offset \in Nat
  PROVE  \E f \in [0 .. MaxHops + 1 -> Readers(data)] :
           /\ f[0] = Unread(offset)
           /\ \A i \in 1 .. MaxHops + 1 : f[i] = Hop(data, f[i - 1])
           /\ f[MaxHops + 1] = NameAt(data, offset)
<1> DEFINE n == MaxHops + 1
           s == [i \in 1 .. n |-> i]
           V == Readers(data)
           base == Unread(offset)
           step == [p \in V \X (1 .. n) |-> Hop(data, p[1])]
           Body(g) == [t \in SUBSET (DOMAIN s) |->
                        IF t = {} THEN base ELSE Hop(data, g[t \ {Max(t)}])]
           iter == CHOOSE g : g = Body(g)
<1>1. NameAt(data, offset) = iter[DOMAIN s]
  BY DEF NameAt, FoldLeft, MapThenFoldSet, Unread, Reader
<1>2. n \in Nat /\ DOMAIN s = 1 .. n
  BY MaxHopsAssumption
<1>3. base \in V
  BY UnreadType
<1> HIDE DEF V, n, base, s
<1>4. step \in [V \X (1 .. n) -> V]
  <2>1. ASSUME NEW v \in V PROVE Hop(data, v) \in V
    BY HopType DEF V
  <2> QED
    BY <2>1
<1>5. \A v \in V, i \in 1 .. n : step[<<v, i>>] = Hop(data, v)
  OBVIOUS
<1> HIDE DEF step
<1>6. PICK g \in [SUBSET (1 .. n) -> V] : SolvesFold(g, n, base, step)
  BY <1>2, <1>3, <1>4, FoldExists
<1>7. g = Body(g)
  <2>1. ASSUME NEW t \in SUBSET (1 .. n), t # {}
        PROVE  g[t] = Hop(data, g[t \ {Max(t)}])
    <3>1. Max(t) \in 1 .. n /\ t \ {Max(t)} \in SUBSET (1 .. n)
      BY <1>2, <2>1, MaxIn
    <3>2. g[t \ {Max(t)}] \in V
      BY <3>1
    <3> QED
      BY <1>5, <1>6, <2>1, <3>1, <3>2 DEF SolvesFold
  <2> QED
    BY <1>2, <1>6, <2>1 DEF SolvesFold
<1>8. iter = Body(iter)
  BY <1>7
<1> HIDE DEF iter
<1>9. UnfoldsIn(V, iter, n, base, step)
  <2> SUFFICES ASSUME NEW t \in SUBSET (1 .. n)
      PROVE  IF t = {} THEN iter[t] = base
             ELSE iter[t \ {Max(t)}] \in V => iter[t] = step[<<iter[t \ {Max(t)}], Max(t)>>]
    BY DEF UnfoldsIn
  <2>1. t # {} => Max(t) \in 1 .. n
    BY <1>2, MaxIn
  <2>2. iter[t] = IF t = {} THEN base ELSE Hop(data, iter[t \ {Max(t)}])
    BY <1>2, <1>8
  <2> QED
    BY <1>5, <2>1, <2>2
<1>10. PICK f : RunsThrough(V, f, iter, n, base, step)
  BY <1>2, <1>3, <1>4, <1>9, FoldRuns
<1>11. \A i \in 1 .. n : f[i] = Hop(data, f[i - 1])
  <2> SUFFICES ASSUME NEW i \in 1 .. n PROVE f[i] = Hop(data, f[i - 1])
    OBVIOUS
  <2>1. i - 1 \in 0 .. n
    BY <1>2
  <2> QED
    BY <1>5, <1>10, <2>1 DEF RunsThrough
<1>12. \E h \in [0 .. n -> V] :
         /\ h[0] = base
         /\ \A i \in 1 .. n : h[i] = Hop(data, h[i - 1])
         /\ h[n] = NameAt(data, offset)
  BY <1>1, <1>2, <1>10, <1>11 DEF RunsThrough
<1> QED
  BY <1>12 DEF V, n, base

\* Nor is one after the last round.
LEMMA NameAtType ==
  ASSUME NEW data \in Seq(Octets), NEW offset \in Nat
  PROVE  NameAt(data, offset) \in Readers(data)
<1>1. MaxHops + 1 \in 0 .. MaxHops + 1
  BY MaxHopsAssumption
<1> QED
  BY <1>1, NameRuns

-----------------------------------------------------------------------------
(* Parsing a packet                                                         *)

Parsed(ok, id, offset, questions, reads) ==
  [ok |-> ok, id |-> id, offset |-> offset, questions |-> questions, reads |-> reads]

\* The question that a name and what follows it make.
Question(data, n) ==
  [qname |-> n.qname, whole |-> n.state = "complete",
   qtype |-> Word16(data, n.offset), qclass |-> Word16(data, n.offset + 2)]

\* There is no other question to be had.
GivesUp(data, p) ==
  LET n == NameAt(data, p.offset) IN ~p.ok \/ n.state = "bad" \/ n.offset + 4 > Len(data)

\* The fields of a packet that was parsed, and their types.
LEMMA PacketFields ==
  ASSUME NEW data \in Seq(Octets), NEW p \in Packets(data)
  PROVE  /\ p = Parsed(p.ok, p.id, p.offset, p.questions, p.reads)
         /\ p.ok \in BOOLEAN /\ p.id \in Words /\ p.offset \in Nat /\ p.questions \in Seq(Questions)
         /\ p.reads \subseteq 0 .. Len(data) - 1
BY DEF Packets, Parsed

\* Packets by their fields.
LEMMA PacketIs ==
  ASSUME NEW data \in Seq(Octets), NEW ok \in BOOLEAN, NEW id \in Words, NEW offset \in Nat,
         NEW questions \in Seq(Questions), NEW reads, reads \subseteq 0 .. Len(data) - 1
  PROVE  Parsed(ok, id, offset, questions, reads) \in Packets(data)
BY DEF Packets, Parsed

\* What a question makes of a packet.
LEMMA WithQuestionCases ==
  ASSUME NEW data \in Seq(Octets), NEW p \in Packets(data)
  PROVE  LET n == NameAt(data, p.offset) IN
         /\ GivesUp(data, p) =>
              WithQuestion(data, p) = Parsed(FALSE, p.id, p.offset, p.questions, p.reads \cup n.reads)
         /\ ~GivesUp(data, p) =>
              WithQuestion(data, p) =
                Parsed(p.ok, p.id, n.offset + 4, Append(p.questions, Question(data, n)),
                       p.reads \cup n.reads \cup n.offset .. n.offset + 3)
<1> DEFINE n == NameAt(data, p.offset)
           no == FALSE
           gone == p.reads \cup n.reads
           seen == p.reads \cup n.reads \cup n.offset .. n.offset + 3
           questions == Append(p.questions, Question(data, n))
           next == n.offset + 4
           g1 == [p EXCEPT !.ok = no]
           g2 == [g1 EXCEPT !.reads = gone]
           m1 == [p EXCEPT !.offset = next]
           m2 == [m1 EXCEPT !.reads = seen]
           m3 == [m2 EXCEPT !.questions = questions]
<1>1. p = Parsed(p.ok, p.id, p.offset, p.questions, p.reads)
  BY PacketFields
<1>2. WithQuestion(data, p) =
        IF GivesUp(data, p) THEN [p EXCEPT !.ok = no, !.reads = gone]
        ELSE [p EXCEPT !.offset = next, !.reads = seen, !.questions = questions]
  BY DEF WithQuestion, GivesUp, Question
<1> HIDE DEF n, no, gone, seen, questions, next
<1>3. [p EXCEPT !.ok = no, !.reads = gone] = Parsed(no, p.id, p.offset, p.questions, gone)
  <2>1. [p EXCEPT !.ok = no, !.reads = gone] = g2
    OBVIOUS
  <2>2. g1 = Parsed(no, p.id, p.offset, p.questions, p.reads)
    BY <1>1 DEF Parsed
  <2> HIDE DEF g1
  <2>3. g2 = Parsed(no, p.id, p.offset, p.questions, gone)
    BY <2>2 DEF Parsed
  <2> QED
    BY <2>1, <2>3
<1>4. [p EXCEPT !.offset = next, !.reads = seen, !.questions = questions]
        = Parsed(p.ok, p.id, next, questions, seen)
  <2>1. [p EXCEPT !.offset = next, !.reads = seen, !.questions = questions] = m3
    OBVIOUS
  <2>2. m1 = Parsed(p.ok, p.id, next, p.questions, p.reads)
    BY <1>1 DEF Parsed
  <2> HIDE DEF m1
  <2>3. m2 = Parsed(p.ok, p.id, next, p.questions, seen)
    BY <2>2 DEF Parsed
  <2> HIDE DEF m2
  <2>4. m3 = Parsed(p.ok, p.id, next, questions, seen)
    BY <2>3 DEF Parsed
  <2> QED
    BY <2>1, <2>4
<1> QED
  BY <1>2, <1>3, <1>4 DEF n, no, gone, seen, questions, next

\* A question is read within the packet.
LEMMA WithQuestionType ==
  ASSUME NEW data \in Seq(Octets), NEW p \in Packets(data)
  PROVE  WithQuestion(data, p) \in Packets(data)
<1> DEFINE n == NameAt(data, p.offset)
<1>1. /\ p.ok \in BOOLEAN /\ p.id \in Words /\ p.offset \in Nat /\ p.questions \in Seq(Questions)
      /\ p.reads \subseteq 0 .. Len(data) - 1
  BY PacketFields
<1>2. n \in Readers(data)
  BY <1>1, NameAtType
<1> HIDE DEF n
<1>3. /\ n.offset \in Nat /\ n.qname \in ReadNames /\ n.reads \subseteq 0 .. Len(data) - 1
      /\ n.state = "complete" => MaxHops > 0
  BY <1>2, ReaderFields
<1>4. CASE GivesUp(data, p)
  <2>1. WithQuestion(data, p) = Parsed(FALSE, p.id, p.offset, p.questions, p.reads \cup n.reads)
    BY <1>4, WithQuestionCases DEF n
  <2>2. Parsed(FALSE, p.id, p.offset, p.questions, p.reads \cup n.reads) \in Packets(data)
    BY <1>1, <1>3, PacketIs
  <2> QED
    BY <2>1, <2>2
<1>5. CASE ~GivesUp(data, p)
  <2> DEFINE q == Question(data, n)
             seen == p.reads \cup n.reads \cup n.offset .. n.offset + 3
  <2>1. WithQuestion(data, p) =
          Parsed(p.ok, p.id, n.offset + 4, Append(p.questions, q), seen)
    BY <1>5, WithQuestionCases DEF n
  <2>2. q \in Questions
    <3>1. n.offset + 2 \in Nat
      BY <1>3
    <3>2. Word16(data, n.offset) \in Words /\ Word16(data, n.offset + 2) \in Words
      BY <1>3, <3>1, AtIsOctet
    <3> QED
      BY <1>3, <3>2 DEF Questions, Question
  <2>3. seen \subseteq 0 .. Len(data) - 1
    <3>1. n.offset + 4 <= Len(data) /\ Len(data) \in Nat
      BY <1>3, <1>5 DEF GivesUp, n
    <3>2. \A k \in n.offset .. n.offset + 3 : k \in 0 .. Len(data) - 1
      BY <1>3, <3>1
    <3> QED
      BY <1>1, <1>3, <3>2
  <2>4. Append(p.questions, q) \in Seq(Questions) /\ n.offset + 4 \in Nat
    <3> HIDE DEF q
    <3> QED
      BY <1>1, <1>3, <2>2
  <2> HIDE DEF q, seen
  <2>5. Parsed(p.ok, p.id, n.offset + 4, Append(p.questions, q), seen) \in Packets(data)
    BY <1>1, <2>3, <2>4, PacketIs
  <2> QED
    BY <2>1, <2>5
<1> QED
  BY <1>4, <1>5

\* The packet after its header.
Header(data) == Parsed(Len(data) >= HeaderSize, Word16(data, 0), HeaderSize, <<>>, {})

\* The header is read within the packet.
LEMMA HeaderType ==
  ASSUME NEW data \in Seq(Octets)
  PROVE  Header(data) \in Packets(data)
<1>1. Word16(data, 0) \in Words
  BY AtIsOctet
<1>2. <<>> \in Seq(Questions) /\ HeaderSize \in Nat /\ (Len(data) >= HeaderSize) \in BOOLEAN
  BY DEF HeaderSize
<1> QED
  BY <1>1, <1>2, PacketIs DEF Header

\* The questions that Parse goes through, in a packet that is long enough.
LEMMA ParseRuns ==
  ASSUME NEW data \in Seq(Octets), Len(data) >= HeaderSize
  PROVE  LET n == Word16(data, 4) IN
         \E f \in [0 .. n -> Packets(data)] :
           /\ f[0] = Header(data)
           /\ \A i \in 1 .. n : f[i] = WithQuestion(data, f[i - 1])
           /\ f[n] = Parse(data)
<1> DEFINE n == Word16(data, 4)
           s == [q \in 1 .. n |-> q]
           V == Packets(data)
           base == Header(data)
           step == [p \in V \X (1 .. n) |-> WithQuestion(data, p[1])]
           Body(g) == [t \in SUBSET (DOMAIN s) |->
                        IF t = {} THEN base ELSE WithQuestion(data, g[t \ {Max(t)}])]
           iter == CHOOSE g : g = Body(g)
<1>1. Parse(data) = iter[DOMAIN s]
  BY DEF Parse, FoldLeft, MapThenFoldSet, Header, Parsed
<1>2. n \in Nat /\ DOMAIN s = 1 .. n
  BY AtIsOctet, SMTT(40) DEF Words
<1>3. base \in V
  BY HeaderType
<1> HIDE DEF V, n, base, s
<1>4. step \in [V \X (1 .. n) -> V]
  <2>1. ASSUME NEW v \in V PROVE WithQuestion(data, v) \in V
    BY WithQuestionType DEF V
  <2> QED
    BY <2>1
<1>5. \A v \in V, i \in 1 .. n : step[<<v, i>>] = WithQuestion(data, v)
  OBVIOUS
<1> HIDE DEF step
<1>6. PICK g \in [SUBSET (1 .. n) -> V] : SolvesFold(g, n, base, step)
  BY <1>2, <1>3, <1>4, FoldExists
<1>7. g = Body(g)
  <2>1. ASSUME NEW t \in SUBSET (1 .. n), t # {}
        PROVE  g[t] = WithQuestion(data, g[t \ {Max(t)}])
    <3>1. Max(t) \in 1 .. n /\ t \ {Max(t)} \in SUBSET (1 .. n)
      BY <1>2, <2>1, MaxIn
    <3>2. g[t \ {Max(t)}] \in V
      BY <3>1
    <3> QED
      BY <1>5, <1>6, <2>1, <3>1, <3>2 DEF SolvesFold
  <2> QED
    BY <1>2, <1>6, <2>1 DEF SolvesFold
<1>8. iter = Body(iter)
  BY <1>7
<1> HIDE DEF iter
<1>9. UnfoldsIn(V, iter, n, base, step)
  <2> SUFFICES ASSUME NEW t \in SUBSET (1 .. n)
      PROVE  IF t = {} THEN iter[t] = base
             ELSE iter[t \ {Max(t)}] \in V => iter[t] = step[<<iter[t \ {Max(t)}], Max(t)>>]
    BY DEF UnfoldsIn
  <2>1. t # {} => Max(t) \in 1 .. n
    BY <1>2, MaxIn
  <2>2. iter[t] = IF t = {} THEN base ELSE WithQuestion(data, iter[t \ {Max(t)}])
    BY <1>2, <1>8
  <2> QED
    BY <1>5, <2>1, <2>2
<1>10. PICK f : RunsThrough(V, f, iter, n, base, step)
  BY <1>2, <1>3, <1>4, <1>9, FoldRuns
<1>11. \A i \in 1 .. n : f[i] = WithQuestion(data, f[i - 1])
  <2> SUFFICES ASSUME NEW i \in 1 .. n PROVE f[i] = WithQuestion(data, f[i - 1])
    OBVIOUS
  <2>1. i - 1 \in 0 .. n
    BY <1>2
  <2> QED
    BY <1>5, <1>10, <2>1 DEF RunsThrough
<1>12. \E h \in [0 .. n -> V] :
         /\ h[0] = base
         /\ \A i \in 1 .. n : h[i] = WithQuestion(data, h[i - 1])
         /\ h[n] = Parse(data)
  BY <1>1, <1>2, <1>10, <1>11 DEF RunsThrough
<1> QED
  BY <1>12 DEF V, n, base

\* parse reads within the packet, whatever bytes it has.
LEMMA ParseType ==
  ASSUME NEW data \in Seq(Octets)
  PROVE  Parse(data) \in Packets(data)
<1>1. CASE Len(data) >= HeaderSize
  <2> DEFINE n == Word16(data, 4)
  <2>1. n \in Nat
    BY AtIsOctet, SMTT(40) DEF Words
  <2>2. PICK f \in [0 .. n -> Packets(data)] : f[n] = Parse(data)
    BY <1>1, ParseRuns
  <2> HIDE DEF n
  <2> QED
    BY <2>1, <2>2
<1>2. CASE ~(Len(data) >= HeaderSize)
  <2>1. Parse(data) = Header(data)
    BY <1>2 DEF Parse, Header, Parsed
  <2> QED
    BY <2>1, HeaderType
<1> QED
  BY <1>1, <1>2

-----------------------------------------------------------------------------
(* Encoding a name                                                          *)

Cuts == [out : Seq(Octets), label : Seq(Octets)]

\* A label with its length behind what was put out.
PutLabel(acc) == acc.out \o <<Len(acc.label) % 256>> \o acc.label

\* What Encoded does with one character.
CutOne(acc, c) ==
  IF c = Dot THEN [out |-> PutLabel(acc), label |-> <<>>]
  ELSE [acc EXCEPT !.label = Append(@, c)]

\* What is put out for place k of a name, 0 being the one before it: there, and
\* for a dot, the number of characters up to the next one.
IsLabelAt(q, k, m) ==
  /\ m \in Nat /\ k + m <= Len(q)
  /\ \A i \in k + 1 .. k + m : q[i] # Dot
  /\ k + m = Len(q) \/ q[k + m + 1] = Dot

Spells(q, k, byte) == IF k = 0 \/ q[k] = Dot THEN IsLabelAt(q, k, byte) ELSE byte = q[k]

\* After the first i characters of a name, the label in the works is what comes
\* after the last dot, and the rest is put out.
CutAt(q, s, out, label) ==
  /\ s \in Nat /\ Len(out) = s
  /\ s = 0 \/ q[s] = Dot
  /\ \A j \in 1 .. Len(label) : label[j] = q[s + j] /\ q[s + j] # Dot
  /\ \A k \in 0 .. s - 1 : Spells(q, k, out[k + 1])

IsCut(q, i, acc) ==
  /\ acc \in Cuts /\ Len(acc.out) + Len(acc.label) = i
  /\ CutAt(q, Len(acc.out), acc.out, acc.label)

\* A name that was read is bytes.
LEMMA NamesAreOctets == \A q \in ReadNames : q \in Seq(Octets) /\ q \in Seq(NameBytes) /\ Short(q)
<1>1. NameBytes \subseteq Octets
  BY DEF NameBytes
<1>2. \A q \in Seq(NameBytes) : q \in Seq(Octets)
  BY <1>1
<1> QED
  BY <1>2 DEF ReadNames

\* A label of less than 256 bytes is put out whole, behind its length.
LEMMA PutLabelIs ==
  ASSUME NEW acc \in Cuts, Len(acc.label) <= 255
  PROVE  /\ PutLabel(acc) \in Seq(Octets)
         /\ Len(PutLabel(acc)) = Len(acc.out) + 1 + Len(acc.label)
         /\ \A i \in 1 .. Len(acc.out) : PutLabel(acc)[i] = acc.out[i]
         /\ PutLabel(acc)[Len(acc.out) + 1] = Len(acc.label)
         /\ \A j \in 1 .. Len(acc.label) : PutLabel(acc)[Len(acc.out) + 1 + j] = acc.label[j]
<1> DEFINE m == Len(acc.label)
           o == Len(acc.out)
           a == acc.out \o <<m % 256>>
<1>1. acc.out \in Seq(Octets) /\ acc.label \in Seq(Octets) /\ m \in Nat /\ o \in Nat
  BY DEF Cuts
<1>2. m % 256 = m /\ m \in Octets
  <2>1. m \in Nat /\ m <= 255
    BY <1>1
  <2>2. \A x \in Nat : x <= 255 => x % 256 = x /\ x \in Octets
    BY DEF Octets
  <2> HIDE DEF m
  <2> QED
    BY <2>1, <2>2
<1>4. <<m>> \in Seq(Octets) /\ Len(<<m>>) = 1 /\ <<m>>[1] = m
  BY <1>2
<1>5. /\ a \in Seq(Octets) /\ Len(a) = o + 1
      /\ \A i \in 1 .. o : a[i] = acc.out[i]
      /\ a[o + 1] = m
  <2>1. a = acc.out \o <<m>>
    BY <1>2
  <2> HIDE DEF a, m
  <2>2. 1 \in 1 .. Len(<<m>>)
    BY <1>4
  <2> QED
    BY <1>1, <1>4, <2>1, <2>2, Behind
<1>6. PutLabel(acc) = a \o acc.label
  BY DEF PutLabel
<1> HIDE DEF a, m, o
<1>7. /\ a \o acc.label \in Seq(Octets) /\ Len(a \o acc.label) = o + 1 + m
      /\ \A i \in 1 .. o + 1 : (a \o acc.label)[i] = a[i]
      /\ \A j \in 1 .. m : (a \o acc.label)[o + 1 + j] = acc.label[j]
  <2> DEFINE t == acc.label
  <2>1. a \in Seq(Octets) /\ t \in Seq(Octets) /\ Len(a) = o + 1 /\ Len(t) = m
    BY <1>1, <1>5 DEF m
  <2> HIDE DEF t
  <2>2. /\ a \o t \in Seq(Octets) /\ Len(a \o t) = Len(a) + Len(t)
        /\ \A i \in 1 .. Len(a) : (a \o t)[i] = a[i]
        /\ \A j \in 1 .. Len(t) : (a \o t)[Len(a) + j] = t[j]
    BY <2>1, Behind, SMTT(40)
  <2> QED
    BY <2>1, <2>2 DEF t
<1>8. \A i \in 1 .. o : i \in 1 .. o + 1
  BY <1>1
<1>9. o + 1 \in 1 .. o + 1
  BY <1>1
<1> QED
  BY <1>5, <1>6, <1>7, <1>8, <1>9 DEF m, o

\* A label in the works is a short one.
LEMMA CutIsShort ==
  ASSUME NEW q \in ReadNames, NEW i \in 0 .. Len(q), NEW acc, IsCut(q, i, acc)
  PROVE  Len(acc.label) <= 191
<1> DEFINE m == Len(acc.label)
           s == Len(acc.out)
<1>1. m \in Nat /\ s \in Nat /\ s + m = i /\ Len(q) \in Nat
  <2>1. q \in Seq(Octets)
    BY NamesAreOctets
  <2>2. acc.label \in Seq(Octets) /\ s \in Nat /\ s + m = i
    BY DEF IsCut, CutAt, Cuts
  <2>3. m \in Nat /\ Len(q) \in Nat
    BY <2>1, <2>2
  <2> QED
    BY <2>2, <2>3
<1>2. \A j \in 1 .. m : q[s + j] # Dot
  BY DEF IsCut, CutAt
<1>3. SUFFICES ASSUME m >= 192 PROVE FALSE
  BY <1>1
<1> HIDE DEF m
<1>4. s + 1 \in 1 .. Len(q) - 191
  BY <1>1, <1>3
<1>5. PICK k \in s + 1 .. s + 1 + 191 : q[k] = Dot
  BY <1>4, NamesAreOctets, ZenonT(40) DEF Short
<1>6. k - s \in 1 .. m /\ s + (k - s) = k
  BY <1>1, <1>3, <1>5
<1> QED
  BY <1>2, <1>5, <1>6

\* At a dot or at the end, the label in the works is all up to there.
LEMMA PutSpells ==
  ASSUME NEW q \in ReadNames, NEW i \in 0 .. Len(q), NEW acc, IsCut(q, i, acc),
         i = Len(q) \/ q[i + 1] = Dot
  PROVE  /\ PutLabel(acc) \in Seq(Octets) /\ Len(PutLabel(acc)) = i + 1
         /\ \A k \in 0 .. i : Spells(q, k, PutLabel(acc)[k + 1])
<1> DEFINE m == Len(acc.label)
           s == Len(acc.out)
           p == PutLabel(acc)
<1>1. /\ acc \in Cuts /\ m \in Nat /\ s \in Nat /\ s + m = i /\ Len(q) \in Nat /\ Len(acc.out) = s
      /\ s = 0 \/ q[s] = Dot
      /\ \A j \in 1 .. m : acc.label[j] = q[s + j] /\ q[s + j] # Dot
      /\ \A k \in 0 .. s - 1 : Spells(q, k, acc.out[k + 1])
  <2>1. q \in Seq(Octets)
    BY NamesAreOctets
  <2>2. acc.label \in Seq(Octets)
    BY DEF IsCut, CutAt, Cuts
  <2>3. m \in Nat /\ Len(q) \in Nat
    BY <2>1, <2>2
  <2> QED
    BY <2>3 DEF IsCut, CutAt
<1>2. m <= 255
  <2>1. m <= 191
    BY CutIsShort
  <2> QED
    BY <1>1, <2>1
<1>3. /\ p \in Seq(Octets) /\ Len(p) = s + 1 + m
      /\ \A j \in 1 .. s : p[j] = acc.out[j]
      /\ p[s + 1] = m
      /\ \A j \in 1 .. m : p[s + 1 + j] = acc.label[j]
  BY <1>1, <1>2, PutLabelIs
<1> HIDE DEF m, p, s
<1>4. s \in Nat /\ s + m = i /\ Len(p) = i + 1
  <2>1. s \in Nat /\ m \in Nat /\ s + m = i
    BY <1>1
  <2>2. Len(p) = s + 1 + m
    BY <1>3
  <2> QED
    BY <2>1, <2>2
<1>5. ASSUME NEW k \in 0 .. i PROVE Spells(q, k, p[k + 1])
  <2>1. CASE k < s
    <3>1. k \in 0 .. s - 1 /\ k + 1 \in 1 .. s
      BY <1>4, <2>1
    <3> QED
      BY <1>1, <1>3, <3>1 DEF s, m
  <2>2. CASE k = s
    <3>1. \A j \in s + 1 .. s + m : q[j] # Dot
      <4> SUFFICES ASSUME NEW j \in s + 1 .. s + m PROVE q[j] # Dot
        OBVIOUS
      <4>1. j - s \in 1 .. m /\ s + (j - s) = j
        BY <1>1, <1>4
      <4> QED
        BY <1>1, <4>1 DEF s, m
    <3>2. s + m <= Len(q) /\ (s + m = Len(q) \/ q[s + m + 1] = Dot)
      BY <1>4
    <3>3. IsLabelAt(q, s, m)
      BY <1>1, <3>1, <3>2 DEF IsLabelAt
    <3> QED
      BY <1>1, <1>3, <2>2, <3>3 DEF Spells, s, m
  <2>3. CASE k > s
    <3>1. k - s \in 1 .. m /\ s + (k - s) = k /\ s + 1 + (k - s) = k + 1 /\ k # 0
      BY <1>1, <1>4, <2>3
    <3> DEFINE j == k - s
    <3>2. j \in 1 .. m /\ s + j = k /\ s + 1 + j = k + 1 /\ k # 0
      BY <3>1
    <3> HIDE DEF j
    <3>3. p[s + 1 + j] = acc.label[j]
      BY <1>3, <3>2
    <3>4. acc.label[j] = q[s + j] /\ q[s + j] # Dot
      BY <1>1, <3>2 DEF s, m
    <3>5. p[k + 1] = q[k] /\ q[k] # Dot
      BY <3>2, <3>3, <3>4
    <3> QED
      BY <3>1, <3>5 DEF Spells
  <2> QED
    BY <1>4, <2>1, <2>2, <2>3
<1> QED
  BY <1>3, <1>4, <1>5 DEF p

\* Labels are put out as bytes.
LEMMA CutOneType ==
  ASSUME NEW acc \in Cuts, NEW c \in Octets
  PROVE  CutOne(acc, c) \in Cuts
<1> DEFINE l == acc.label
           o == acc.out
           m == Len(l) % 256
<1>1. l \in Seq(Octets) /\ o \in Seq(Octets)
  BY DEF Cuts
<1>2. m \in Octets
  <2>1. \A x \in Nat : x % 256 \in Octets
    BY DEF Octets
  <2>2. Len(l) \in Nat
    BY <1>1
  <2> HIDE DEF l
  <2> QED
    BY <2>1, <2>2
<1>3. PutLabel(acc) = (o \o <<m>>) \o l
  BY DEF PutLabel
<1>4. acc = [out |-> o, label |-> l]
  BY DEF Cuts
<1> HIDE DEF l, o, m
<1>5. (o \o <<m>>) \o l \in Seq(Octets)
  BY <1>1, <1>2
<1>6. CASE c = Dot
  <2>1. CutOne(acc, c) = [out |-> PutLabel(acc), label |-> <<>>]
    BY <1>6 DEF CutOne
  <2> QED
    BY <1>3, <1>5, <2>1 DEF Cuts
<1>7. CASE c # Dot
  <2>1. CutOne(acc, c) = [out |-> o, label |-> Append(l, c)]
    BY <1>4, <1>7 DEF CutOne
  <2>2. Append(l, c) \in Seq(Octets)
    BY <1>1
  <2> QED
    BY <1>1, <2>1, <2>2 DEF Cuts
<1> QED
  BY <1>6, <1>7

NoCut == [out |-> <<>>, label |-> <<>>]

\* What is put out when the last character is past.
Ends(acc) == (IF acc.label = <<>> THEN acc.out ELSE PutLabel(acc)) \o <<0>>

\* The characters that Encoded goes through.
LEMMA EncodedRuns ==
  ASSUME NEW q \in Seq(Octets)
  PROVE  \E f \in [0 .. Len(q) -> Cuts] :
           /\ f[0] = NoCut
           /\ \A i \in 1 .. Len(q) : f[i] = CutOne(f[i - 1], q[i])
           /\ Encoded(q) = Ends(f[Len(q)])
<1> DEFINE n == Len(q)
           V == Cuts
           base == NoCut
           step == [p \in V \X (1 .. n) |-> CutOne(p[1], q[p[2]])]
           Body(g) == [t \in SUBSET (DOMAIN q) |->
                        IF t = {} THEN base ELSE CutOne(g[t \ {Max(t)}], q[Max(t)])]
           iter == CHOOSE g : g = Body(g)
<1>1. Encoded(q) = Ends(iter[DOMAIN q])
  BY DEF Encoded, FoldLeft, MapThenFoldSet, NoCut, Ends, CutOne, PutLabel
<1>2. n \in Nat /\ DOMAIN q = 1 .. n /\ \A i \in 1 .. n : q[i] \in Octets
  OBVIOUS
<1>3. base \in V
  BY DEF NoCut, Cuts
<1> HIDE DEF V, n, base
<1>4. step \in [V \X (1 .. n) -> V]
  <2>1. ASSUME NEW v \in V, NEW i \in 1 .. n PROVE CutOne(v, q[i]) \in V
    BY <1>2, CutOneType DEF V
  <2> QED
    BY <2>1
<1>5. \A v \in V, i \in 1 .. n : step[<<v, i>>] = CutOne(v, q[i])
  OBVIOUS
<1> HIDE DEF step
<1>6. PICK g \in [SUBSET (1 .. n) -> V] : SolvesFold(g, n, base, step)
  BY <1>2, <1>3, <1>4, FoldExists
<1>7. g = Body(g)
  <2>1. ASSUME NEW t \in SUBSET (1 .. n), t # {}
        PROVE  g[t] = CutOne(g[t \ {Max(t)}], q[Max(t)])
    <3>1. Max(t) \in 1 .. n /\ t \ {Max(t)} \in SUBSET (1 .. n)
      BY <1>2, <2>1, MaxIn
    <3>2. g[t \ {Max(t)}] \in V
      BY <3>1
    <3> QED
      BY <1>5, <1>6, <2>1, <3>1, <3>2 DEF SolvesFold
  <2> QED
    BY <1>2, <1>6, <2>1 DEF SolvesFold
<1>8. iter = Body(iter)
  BY <1>7
<1> HIDE DEF iter
<1>9. UnfoldsIn(V, iter, n, base, step)
  <2> SUFFICES ASSUME NEW t \in SUBSET (1 .. n)
      PROVE  IF t = {} THEN iter[t] = base
             ELSE iter[t \ {Max(t)}] \in V => iter[t] = step[<<iter[t \ {Max(t)}], Max(t)>>]
    BY DEF UnfoldsIn
  <2>1. t # {} => Max(t) \in 1 .. n
    BY <1>2, MaxIn
  <2>2. iter[t] = IF t = {} THEN base ELSE CutOne(iter[t \ {Max(t)}], q[Max(t)])
    BY <1>2, <1>8
  <2> QED
    BY <1>5, <2>1, <2>2
<1>10. PICK f : RunsThrough(V, f, iter, n, base, step)
  BY <1>2, <1>3, <1>4, <1>9, FoldRuns
<1>11. \A i \in 1 .. n : f[i] = CutOne(f[i - 1], q[i])
  <2> SUFFICES ASSUME NEW i \in 1 .. n PROVE f[i] = CutOne(f[i - 1], q[i])
    OBVIOUS
  <2>1. i - 1 \in 0 .. n
    BY <1>2
  <2> QED
    BY <1>5, <1>10, <2>1 DEF RunsThrough
<1>12. \E h \in [0 .. n -> V] :
         /\ h[0] = base
         /\ \A i \in 1 .. n : h[i] = CutOne(h[i - 1], q[i])
         /\ Encoded(q) = Ends(h[n])
  BY <1>1, <1>2, <1>10, <1>11 DEF RunsThrough
<1> QED
  BY <1>12 DEF V, n, base

\* After every character, the name is cut up to there.
LEMMA CutGrows ==
  ASSUME NEW q \in ReadNames, NEW i \in 0 .. Len(q) - 1, NEW acc, IsCut(q, i, acc)
  PROVE  IsCut(q, i + 1, CutOne(acc, q[i + 1]))
<1> DEFINE c == q[i + 1]
           next == CutOne(acc, c)
           l == acc.label
           o == acc.out
<1>1. q \in Seq(Octets)
  BY NamesAreOctets
<1>2. Len(q) \in Nat /\ i + 1 \in 1 .. Len(q) /\ i \in 0 .. Len(q) /\ c \in Octets
  BY <1>1
<1>3. acc \in Cuts /\ next \in Cuts
  BY <1>2, CutOneType DEF IsCut
<1>4. l \in Seq(Octets) /\ o \in Seq(Octets) /\ acc = [out |-> o, label |-> l]
  BY <1>3 DEF Cuts
<1>5. CASE c = Dot
  <2>1. next = [out |-> PutLabel(acc), label |-> <<>>]
    BY <1>5 DEF CutOne
  <2>2. next.out = PutLabel(acc) /\ next.label = <<>> /\ Len(next.label) = 0
    BY <2>1
  <2>3. /\ Len(PutLabel(acc)) = i + 1
        /\ \A k \in 0 .. i : Spells(q, k, PutLabel(acc)[k + 1])
    BY <1>2, <1>5, PutSpells
  <2> HIDE DEF next
  <2>4. CutAt(q, i + 1, PutLabel(acc), <<>>)
    <3>1. i + 1 - 1 = i /\ i + 1 \in Nat /\ 1 .. 0 = {}
      BY <1>2
    <3> QED
      BY <1>2, <1>5, <2>2, <2>3, <3>1 DEF CutAt, c
  <2>5. Len(next.out) + Len(next.label) = i + 1 /\ Len(next.out) = i + 1
    BY <1>2, <2>2, <2>3
  <2>6. IsCut(q, i + 1, next)
    BY <1>3, <2>2, <2>4, <2>5 DEF IsCut
  <2> QED
    BY <2>6 DEF next, c
<1>6. CASE c # Dot
  <2>1. next = [out |-> o, label |-> Append(l, c)]
    BY <1>4, <1>6 DEF CutOne
  <2>2. next.out = o /\ next.label = Append(l, c)
    BY <2>1
  <2>3. /\ Len(Append(l, c)) = Len(l) + 1 /\ Len(l) \in Nat
        /\ \A j \in 1 .. Len(l) : Append(l, c)[j] = l[j]
        /\ Append(l, c)[Len(l) + 1] = c
    BY <1>2, <1>4
  <2> DEFINE s == Len(o)
  <2>4. /\ s \in Nat /\ s + Len(l) = i
        /\ s = 0 \/ q[s] = Dot
        /\ \A j \in 1 .. Len(l) : l[j] = q[s + j] /\ q[s + j] # Dot
        /\ \A k \in 0 .. s - 1 : Spells(q, k, o[k + 1])
    BY DEF IsCut, CutAt
  <2> HIDE DEF next, o
  <2>5. Len(next.out) = s /\ s + Len(next.label) = i + 1
    BY <1>2, <2>2, <2>3, <2>4, SMTT(40)
  <2>6. ASSUME NEW j \in 1 .. Len(next.label) PROVE next.label[j] = q[s + j] /\ q[s + j] # Dot
    <3>1. CASE j = Len(l) + 1
      <4>1. s + j = i + 1
        <5> HIDE DEF s, l
        <5>1. Len(l) \in Nat /\ s \in Nat /\ s + Len(l) = i
          BY <2>3, <2>4
        <5> QED
          BY <3>1, <5>1
      <4> QED
        BY <1>6, <2>2, <2>3, <3>1, <4>1
    <3>2. CASE j # Len(l) + 1
      <4>1. j \in 1 .. Len(l)
        BY <2>2, <2>3, <3>2
      <4> QED
        BY <2>2, <2>3, <2>4, <4>1
    <3> QED
      BY <3>1, <3>2
  <2>7. CutAt(q, s, next.out, next.label)
    <3> HIDE DEF l, c
    <3>1. Len(next.out) = s
      BY <2>5
    <3> HIDE DEF s
    <3> QED
      BY <2>2, <2>4, <2>6, <3>1 DEF CutAt
  <2>8. IsCut(q, i + 1, next)
    BY <1>3, <2>5, <2>7 DEF IsCut
  <2> QED
    BY <2>8 DEF next, c
<1> QED
  BY <1>5, <1>6 DEF next, c

\* The label in the works at the end is not empty, if the name does not end in a
\* dot.
LEMMA EncodedSpells ==
  ASSUME NEW q \in ReadNames, Len(q) = 0 \/ q[Len(q)] # Dot
  PROVE  /\ Encoded(q) \in Seq(Octets)
         /\ Len(q) = 0 => Len(Encoded(q)) = 1 /\ Encoded(q)[1] = 0
         /\ Len(q) # 0 =>
              /\ Len(Encoded(q)) = Len(q) + 2
              /\ \A k \in 0 .. Len(q) : Spells(q, k, Encoded(q)[k + 1])
              /\ Encoded(q)[Len(q) + 2] = 0
<1> DEFINE n == Len(q)
           e == Encoded(q)
<1>1. q \in Seq(Octets) /\ n \in Nat
  BY NamesAreOctets
<1>2. PICK f \in [0 .. n -> Cuts] :
        /\ f[0] = NoCut
        /\ \A i \in 1 .. n : f[i] = CutOne(f[i - 1], q[i])
        /\ e = Ends(f[n])
  BY <1>1, EncodedRuns
<1> HIDE DEF e, n
<1>3. IsCut(q, n, f[n])
  <2> DEFINE T == {i \in 0 .. n : IsCut(q, i, f[i])}
  <2>1. 0 \in T
    <3>1. NoCut.label = <<>> /\ NoCut.out = <<>> /\ Len(<<>>) = 0
      BY DEF NoCut
    <3>2. NoCut \in Cuts
      BY DEF NoCut, Cuts
    <3>3. Len(NoCut.label) = 0 /\ Len(NoCut.out) = 0 /\ 0 + 0 = 0 /\ 1 .. 0 = {} /\ 0 .. 0 - 1 = {}
      BY <3>1
    <3>7. CutAt(q, 0, NoCut.out, NoCut.label)
      BY <3>1, <3>3 DEF CutAt
    <3>4. IsCut(q, 0, NoCut)
      BY <3>2, <3>3, <3>7 DEF IsCut
    <3>5. 0 \in 0 .. n
      BY <1>1
    <3> QED
      BY <1>2, <3>4, <3>5
  <2>2. ASSUME NEW i \in 0 .. n - 1, i \in T PROVE i + 1 \in T
    <3>1. i + 1 \in 1 .. n /\ i + 1 - 1 = i /\ i + 1 \in 0 .. n
      BY <1>1
    <3>2. f[i + 1] = CutOne(f[i], q[i + 1])
      BY <1>2, <3>1
    <3>3. IsCut(q, i + 1, CutOne(f[i], q[i + 1]))
      BY <2>2, CutGrows DEF n
    <3> QED
      BY <3>1, <3>2, <3>3
  <2> HIDE DEF T
  <2>3. 0 .. n \subseteq T
    BY <1>1, <2>1, <2>2, NumbersUpTo
  <2>4. n \in T
    BY <1>1, <2>3
  <2> QED
    BY <2>4 DEF T
<1>4. <<0>> \in Seq(Octets) /\ Len(<<0>>) = 1 /\ <<0>>[1] = 0 /\ 1 \in 1 .. Len(<<0>>)
  BY DEF Octets
<1>5. \A s \in Seq(Octets) :
        /\ s \o <<0>> \in Seq(Octets) /\ Len(s \o <<0>>) = Len(s) + 1
        /\ \A i \in 1 .. Len(s) : (s \o <<0>>)[i] = s[i]
        /\ (s \o <<0>>)[Len(s) + 1] = 0
  <2> SUFFICES ASSUME NEW s \in Seq(Octets)
      PROVE  /\ s \o <<0>> \in Seq(Octets) /\ Len(s \o <<0>>) = Len(s) + 1
             /\ \A i \in 1 .. Len(s) : (s \o <<0>>)[i] = s[i]
             /\ (s \o <<0>>)[Len(s) + 1] = 0
    OBVIOUS
  <2> QED
    BY <1>4, Behind
<1>6. f[n] \in Cuts
  BY <1>1, <1>2
<1> DEFINE l == f[n].label
           o == f[n].out
<1>7. /\ l \in Seq(Octets) /\ o \in Seq(Octets) /\ Len(l) \in Nat /\ Len(o) \in Nat /\ Len(o) + Len(l) = n
      /\ Len(o) = 0 \/ q[Len(o)] = Dot
  <2>1. l \in Seq(Octets) /\ o \in Seq(Octets)
    BY <1>6 DEF Cuts
  <2>4. CutAt(q, Len(o), o, l) /\ Len(o) + Len(l) = n
    BY <1>3 DEF IsCut
  <2>2. Len(o) \in Nat /\ (Len(o) = 0 \/ q[Len(o)] = Dot)
    <3> HIDE DEF l, o
    <3> QED
      BY <2>4 DEF CutAt
  <2>3. Len(l) \in Nat
    BY <2>1
  <2> QED
    BY <2>1, <2>2, <2>3, <2>4
<1>8. l = <<>> <=> Len(l) = 0
  BY <1>7
<1>9. e = (IF l = <<>> THEN o ELSE PutLabel(f[n])) \o <<0>>
  BY <1>2 DEF Ends
<1>10. CASE n = 0
  <2>1. Len(o) \in Nat
    BY <1>7
  <2>2. Len(l) = 0 /\ Len(o) = 0
    <3> HIDE DEF l, o
    <3> QED
      BY <1>7, <1>10
  <2>3. e = o \o <<0>> /\ o \in Seq(Octets)
    BY <1>7, <1>8, <1>9, <2>2
  <2> HIDE DEF l, o
  <2>5. Len(o) + 1 = 1
    BY <2>2
  <2>6. (o \o <<0>>) \in Seq(Octets) /\ Len(o \o <<0>>) = Len(o) + 1 /\ (o \o <<0>>)[Len(o) + 1] = 0
    BY <1>5, <2>3
  <2>4. e \in Seq(Octets) /\ Len(e) = 1 /\ e[1] = 0
    BY <2>3, <2>5, <2>6
  <2> QED
    BY <1>10, <2>4 DEF e, n
<1>11. CASE n # 0
  <2>1. Len(l) # 0
    <3>1. Len(q) # 0 /\ q[Len(q)] # Dot
      BY <1>11 DEF n
    <3>2. n = Len(q)
      BY DEF n
    <3>3. Len(l) = 0 => Len(o) = n
      BY <1>1, <1>7
    <3> QED
      BY <1>7, <1>11, <3>1, <3>2, <3>3
  <2>2. e = PutLabel(f[n]) \o <<0>>
    BY <1>8, <1>9, <2>1
  <2>3. n \in 0 .. Len(q) /\ n = Len(q)
    BY <1>1 DEF n
  <2>4. /\ PutLabel(f[n]) \in Seq(Octets) /\ Len(PutLabel(f[n])) = n + 1
        /\ \A k \in 0 .. n : Spells(q, k, PutLabel(f[n])[k + 1])
    BY <1>3, <2>3, PutSpells
  <2> DEFINE p == PutLabel(f[n])
  <2> HIDE DEF p, l, o
  <2>5. e \in Seq(Octets) /\ Len(e) = n + 2 /\ e[n + 2] = 0 /\ \A i \in 1 .. n + 1 : e[i] = p[i]
    BY <1>1, <1>5, <2>2, <2>4, SMTT(40) DEF p
  <2>6. \A k \in 0 .. n : k + 1 \in 1 .. n + 1
    BY <1>1
  <2>7. \A k \in 0 .. n : Spells(q, k, e[k + 1])
    BY <2>4, <2>5, <2>6 DEF p
  <2> QED
    BY <1>11, <2>5, <2>7 DEF e, n
<1> QED
  BY <1>10, <1>11

-----------------------------------------------------------------------------
(* Reading the name that was put out                                        *)

\* Where the zero that ends a name is, and where its labels do.
Zero(q) == IF Len(q) = 0 THEN 0 ELSE Len(q) + 1
Bounds(q) == IF Len(q) = 0 THEN {} ELSE {i \in 1 .. Len(q) : q[i] = Dot} \cup {Len(q) + 1}
BoundsTo(q, k) == Bounds(q) \cap 1 .. k

Prefix(q, k) == [j \in 1 .. k |-> q[j]]

\* The dots stand between labels.
DotsApart(q) == \A i \in 1 .. Len(q) : q[i] = Dot => i > 1 /\ i < Len(q) /\ q[i + 1] # Dot

\* A name is in a packet as Encoded puts it out.
Spelled(data, at, q) ==
  /\ at + Zero(q) < Len(data)
  /\ At(data, at + Zero(q)) = 0
  /\ Len(q) # 0 => \A k \in 0 .. Len(q) : Spells(q, k, At(data, at + k))

\* A name has finitely many labels.
LEMMA BoundsFinite ==
  ASSUME NEW q \in ReadNames, NEW k \in Nat
  PROVE  IsFiniteSet(Bounds(q)) /\ IsFiniteSet(BoundsTo(q, k))
<1>1. Len(q) \in Nat
  BY NamesAreOctets
<1>2. IsFiniteSet(1 .. Len(q) + 1)
  BY <1>1, FS_Interval
<1>3. Bounds(q) \subseteq 1 .. Len(q) + 1
  BY <1>1 DEF Bounds
<1>4. BoundsTo(q, k) \subseteq Bounds(q)
  BY DEF BoundsTo
<1>5. IsFiniteSet(Bounds(q))
  BY <1>2, <1>3, FS_Subset
<1> QED
  BY <1>4, <1>5, FS_Subset

\* A label that stands in the packet is a short one, and not empty.
LEMMA LabelHere ==
  ASSUME NEW q \in ReadNames, DotsApart(q), NEW k \in 0 .. Len(q), Len(q) # 0,
         k = 0 \/ q[k] = Dot,
         NEW m, IsLabelAt(q, k, m)
  PROVE  m \in 1 .. 191 /\ k + m <= Len(q)
<1>1. Len(q) \in Nat /\ m \in Nat /\ k \in Nat /\ k + m <= Len(q)
  BY NamesAreOctets DEF IsLabelAt
<1>2. m # 0
  <2>1. SUFFICES ASSUME m = 0 PROVE FALSE
    OBVIOUS
  <2>2. k + 0 = k /\ k + 0 + 1 = k + 1
    BY <1>1
  <2>3. k = Len(q) \/ q[k + 1] = Dot
    BY <2>1, <2>2 DEF IsLabelAt
  <2>4. CASE k = 0
    <3>1. q[1] = Dot /\ 1 \in 1 .. Len(q)
      BY <1>1, <2>3, <2>4
    <3>2. 1 > 1
      BY <3>1 DEF DotsApart
    <3> QED
      BY <3>2
  <2>5. CASE k # 0
    <3>1. k \in 1 .. Len(q) /\ q[k] = Dot
      BY <1>1, <2>5
    <3>2. k < Len(q) /\ q[k + 1] # Dot
      BY <3>1 DEF DotsApart
    <3> QED
      BY <1>1, <2>3, <3>2
  <2> QED
    BY <2>4, <2>5
<1>3. m <= 191
  <2>1. SUFFICES ASSUME m >= 192 PROVE FALSE
    BY <1>1
  <2>2. k + 1 \in 1 .. Len(q) - 191
    BY <1>1, <2>1
  <2>3. PICK j \in k + 1 .. k + 1 + 191 : q[j] = Dot
    BY <2>2, NamesAreOctets DEF Short
  <2>4. j \in k + 1 .. k + m
    BY <1>1, <2>1
  <2> QED
    BY <2>3, <2>4 DEF IsLabelAt
<1> QED
  BY <1>1, <1>2, <1>3

\* The label read behind what was read before makes the name as far as it goes.
LEMMA PrefixGrows ==
  ASSUME NEW data \in Seq(Octets), NEW at \in Nat, NEW q \in ReadNames, DotsApart(q),
         NEW k \in 0 .. Len(q), Len(q) # 0, k = 0 \/ q[k] = Dot,
         Spelled(data, at, q), NEW m \in 1 .. 191, IsLabelAt(q, k, m)
  PROVE  WithLabel(Prefix(q, k - 1), data, at + k + 1, m) = Prefix(q, k + m)
<1> DEFINE s == Before(Prefix(q, k - 1))
           t == LabelOf(data, at + k + 1, m)
           w == s \o t
<1>1. /\ Len(q) \in Nat /\ m \in Nat /\ k \in Nat /\ k + m <= Len(q)
      /\ q \in Seq(NameBytes) /\ \A i \in 1 .. Len(q) : q[i] \in NameBytes
  BY NamesAreOctets DEF IsLabelAt
<1>2. WithLabel(Prefix(q, k - 1), data, at + k + 1, m) = w
  BY DEF WithLabel, Before, LabelOf
<1>3. s \in Seq(NameBytes) /\ Len(s) = k /\ \A i \in 1 .. k : s[i] = q[i]
  <2>1. CASE k = 0
    <3>1. Prefix(q, k - 1) = <<>>
      BY <2>1 DEF Prefix
    <3>2. s = <<>>
      BY <3>1 DEF Before
    <3> HIDE DEF s
    <3>3. Len(s) = 0 /\ s \in Seq(NameBytes) /\ 1 .. 0 = {}
      BY <3>2
    <3> QED
      BY <2>1, <3>3
  <2>2. CASE k # 0
    <3> DEFINE p == Prefix(q, k - 1)
    <3>1. k \in 1 .. Len(q) /\ q[k] = Dot
      BY <1>1, <2>2
    <3>2. k > 1
      BY <3>1 DEF DotsApart
    <3>3. k - 1 \in Nat /\ k - 1 # 0 /\ k - 1 + 1 = k
      BY <3>1, <3>2
    <3>4. \A i \in 1 .. k - 1 : i \in 1 .. Len(q)
      BY <1>1, <3>1
    <3>5. p \in Seq(NameBytes) /\ Len(p) = k - 1 /\ \A i \in 1 .. k - 1 : p[i] = q[i]
      BY <1>1, <3>3, <3>4 DEF Prefix
    <3> HIDE DEF p
    <3>6. /\ Before(p) \in Seq(NameBytes) /\ Len(Before(p)) = k
          /\ \A i \in 1 .. k - 1 : Before(p)[i] = p[i]
          /\ Before(p)[k] = Dot
      <4>1. /\ Before(p) \in Seq(NameBytes)
            /\ Len(Before(p)) = IF Len(p) = 0 THEN 0 ELSE Len(p) + 1
            /\ \A i \in 1 .. Len(p) : Before(p)[i] = p[i]
            /\ Len(p) # 0 => Before(p)[Len(p) + 1] = Dot
        BY <3>5, BeforeLabel
      <4> QED
        BY <3>3, <3>5, <4>1
    <3>7. \A i \in 1 .. k : Before(p)[i] = q[i]
      <4> SUFFICES ASSUME NEW i \in 1 .. k PROVE Before(p)[i] = q[i]
        OBVIOUS
      <4>1. i = k \/ i \in 1 .. k - 1
        BY <1>1
      <4> QED
        BY <3>1, <3>5, <3>6, <4>1
    <3> QED
      BY <3>6, <3>7 DEF p
  <2> QED
    BY <2>1, <2>2
<1>4. t \in Seq(NameBytes) /\ Len(t) = m /\ \A j \in 1 .. m : t[j] = q[k + j]
  <2>1. at + k + 1 \in Nat
    BY <1>1
  <2>2. /\ t \in Seq(NameBytes) /\ Len(t) = m
        /\ \A j \in 1 .. m : t[j] = ToLower(At(data, at + k + 1 + j - 1))
    BY <1>1, <2>1, LabelIsName, ZenonT(40)
  <2> HIDE DEF t
  <2>3. ASSUME NEW j \in 1 .. m PROVE t[j] = q[k + j]
    <3> DEFINE i == k + j
    <3>1. /\ i \in 1 .. Len(q) /\ i \in k + 1 .. k + m /\ i \in 0 .. Len(q) /\ i # 0
          /\ at + k + 1 + j - 1 = at + i
      BY <1>1
    <3> HIDE DEF i
    <3>2. q[i] # Dot
      BY <3>1 DEF IsLabelAt
    <3>3. At(data, at + i) = q[i]
      BY <3>1, <3>2 DEF Spelled, Spells
    <3>4. \A b \in NameBytes : ToLower(b) = b
      BY DEF NameBytes, ToLower
    <3>5. ToLower(q[i]) = q[i]
      BY <1>1, <3>1, <3>4
    <3>6. t[j] = ToLower(At(data, at + i))
      BY <2>2, <3>1
    <3> QED
      BY <3>3, <3>5, <3>6 DEF i
  <2> QED
    BY <2>2, <2>3
<1> HIDE DEF s, t
<1>5. /\ w \in Seq(NameBytes) /\ Len(w) = k + m
      /\ \A i \in 1 .. k : w[i] = s[i]
      /\ \A j \in 1 .. m : w[k + j] = t[j]
  <2>1. /\ s \o t \in Seq(NameBytes) /\ Len(s \o t) = Len(s) + Len(t)
        /\ \A i \in 1 .. Len(s) : (s \o t)[i] = s[i]
        /\ \A j \in 1 .. Len(t) : (s \o t)[Len(s) + j] = t[j]
    BY <1>3, <1>4, Behind
  <2> QED
    BY <1>3, <1>4, <2>1
<1> HIDE DEF w
<1>6. ASSUME NEW i \in 1 .. k + m PROVE w[i] = q[i]
  <2>1. CASE i <= k
    <3>1. i \in 1 .. k
      BY <1>1, <2>1
    <3> QED
      BY <1>3, <1>5, <3>1
  <2>2. CASE i > k
    <3> DEFINE j == i - k
    <3>1. j \in 1 .. m /\ k + j = i
      BY <1>1, <2>2
    <3> HIDE DEF j
    <3> QED
      BY <1>4, <1>5, <3>1
  <2> QED
    BY <1>1, <2>1, <2>2
<1>7. w = [i \in 1 .. k + m |-> w[i]]
  <2>1. DOMAIN w = 1 .. k + m
    BY <1>1, <1>5
  <2> QED
    BY <1>5, <2>1
<1>8. w = Prefix(q, k + m)
  BY <1>6, <1>7 DEF Prefix
<1> QED
  BY <1>2, <1>8

\* A reader that took off from n0 has read a name up to one of its bounds.
Along(q, at, n0, k, n) ==
  /\ k \in 0 .. Zero(q) /\ (k = 0 \/ k \in Bounds(q))
  /\ n.state = "reading" /\ n.curr = at + k /\ n.jumped = n0.jumped
  /\ n.qname = Prefix(q, k - 1)
  /\ n.hops = n0.hops + Cardinality(BoundsTo(q, k))
  /\ n.offset = After(n0, n.curr)

\* It reads on to the next bound.
LEMMA AlongOn ==
  ASSUME NEW data \in Seq(Octets), NEW at \in Nat, NEW q \in ReadNames, DotsApart(q),
         Spelled(data, at, q), NEW n0 \in Readers(data),
         NEW n \in Readers(data), NEW k, Along(q, at, n0, k, n), k # Zero(q), n.hops < MaxHops
  PROVE  \E j : /\ Along(q, at, n0, j, Hop(data, n))
                /\ Cardinality(BoundsTo(q, j)) = Cardinality(BoundsTo(q, k)) + 1
<1> DEFINE m == At(data, n.curr)
           j == k + 1 + m
           qname == WithLabel(n.qname, data, n.curr + 1, m)
           next == n.curr + 1 + m
           h == Hop(data, n)
<1>1. Len(q) \in Nat /\ Len(data) \in Nat
  BY NamesAreOctets
<1>2. Len(q) # 0 /\ k \in 0 .. Len(q) /\ (k = 0 \/ q[k] = Dot) /\ Zero(q) = Len(q) + 1
  <2>1. k \in 0 .. Zero(q) /\ (k = 0 \/ k \in Bounds(q))
    BY DEF Along
  <2>2. Len(q) # 0
    BY <2>1 DEF Zero
  <2>3. k # Len(q) + 1 /\ Zero(q) = Len(q) + 1
    BY <2>2 DEF Zero
  <2>4. k \in 0 .. Len(q)
    BY <1>1, <2>1, <2>3
  <2>5. k = 0 \/ q[k] = Dot
    BY <2>1, <2>2, <2>3 DEF Bounds
  <2> QED
    BY <2>2, <2>3, <2>4, <2>5
<1>3. n.curr = at + k /\ n.state = "reading" /\ n.curr \in Nat /\ n.hops \in Nat
  BY ReaderFields DEF Along
<1>4. IsLabelAt(q, k, m)
  BY <1>2, <1>3 DEF Spelled, Spells
<1> HIDE DEF m
<1>5. m \in 1 .. 191 /\ k + m <= Len(q)
  BY <1>2, <1>4, LabelHere
<1>6. at + Len(q) + 1 < Len(data)
  BY <1>1, <1>2 DEF Spelled
<1>7. GoesOn(data, n) /\ n.curr + m < Len(data)
  BY <1>1, <1>2, <1>3, <1>5, <1>6 DEF GoesOn
<1>8. h = Take(n, qname, next)
  BY <1>5, <1>7, HopCases DEF m
<1>9. qname = Prefix(q, k + m)
  <2>1. n.qname = Prefix(q, k - 1) /\ n.curr + 1 = at + k + 1
    BY <1>2, <1>3 DEF Along
  <2>2. WithLabel(Prefix(q, k - 1), data, at + k + 1, m) = Prefix(q, k + m)
    BY <1>2, <1>4, <1>5, PrefixGrows, ZenonT(40)
  <2> QED
    BY <2>1, <2>2
<1>10. /\ j \in 1 .. Zero(q) /\ j \in Bounds(q) /\ j - 1 = k + m
       /\ BoundsTo(q, j) = BoundsTo(q, k) \cup {j}
  <2>1. j \in 1 .. Len(q) + 1 /\ j - 1 = k + m /\ j = k + m + 1 /\ k < j
    BY <1>1, <1>2, <1>5
  <2>2. j = Len(q) + 1 \/ q[j] = Dot
    <3>1. k + m = Len(q) \/ q[k + m + 1] = Dot
      BY <1>4 DEF IsLabelAt
    <3> QED
      BY <2>1, <3>1
  <2>3. \A i \in k + 1 .. k + m : q[i] # Dot
    BY <1>4 DEF IsLabelAt
  <2> HIDE DEF j
  <2>4. j \in Bounds(q)
    BY <1>1, <1>2, <2>1, <2>2 DEF Bounds
  <2>5. ASSUME NEW i \in BoundsTo(q, j), i # j PROVE i \in BoundsTo(q, k)
    <3>1. i \in Bounds(q) /\ i \in 1 .. j
      BY <2>5 DEF BoundsTo
    <3>2. i \notin k + 1 .. k + m
      <4>1. SUFFICES ASSUME i \in k + 1 .. k + m PROVE FALSE
        OBVIOUS
      <4>2. i <= Len(q) /\ q[i] # Dot
        BY <1>2, <1>5, <2>3, <4>1
      <4>3. i = Len(q) + 1
        BY <1>2, <3>1, <4>2 DEF Bounds
      <4> QED
        BY <1>1, <4>2, <4>3
    <3>3. i \in 1 .. k
      BY <1>2, <1>5, <2>1, <2>5, <3>1, <3>2
    <3> QED
      BY <3>1, <3>3 DEF BoundsTo
  <2>6. BoundsTo(q, k) \subseteq BoundsTo(q, j) /\ j \in BoundsTo(q, j)
    <3>1. \A i \in 1 .. k : i \in 1 .. j
      BY <1>2, <2>1
    <3>2. j \in 1 .. j
      BY <2>1
    <3> QED
      BY <2>4, <3>1, <3>2 DEF BoundsTo
  <2>7. BoundsTo(q, j) = BoundsTo(q, k) \cup {j}
    BY <2>5, <2>6
  <2> QED
    BY <1>2, <2>1, <2>4, <2>7
<1>11. Cardinality(BoundsTo(q, j)) = Cardinality(BoundsTo(q, k)) + 1
  <2>1. j \notin BoundsTo(q, k)
    BY <1>2, <1>5 DEF BoundsTo
  <2>2. k \in Nat
    BY <1>2
  <2>3. IsFiniteSet(BoundsTo(q, k))
    BY <2>2, BoundsFinite
  <2> HIDE DEF j
  <2> QED
    BY <1>10, <2>1, <2>3, FS_AddElement
<1>12. Cardinality(BoundsTo(q, k)) \in Nat
  <2>1. k \in Nat
    BY <1>2
  <2> QED
    BY <2>1, BoundsFinite, FS_CardinalityType
<1> DEFINE reads == n.reads \cup n.curr .. next - 1
<1>13. h = Reader(n.state, next, After(n, next), n.hops + 1, n.jumped, qname, reads)
  <2>1. \A a, b : Take(n, a, b) = Reader(n.state, b, After(n, b), n.hops + 1, n.jumped,
                                        a, n.reads \cup n.curr .. b - 1)
    BY ReaderMoves
  <2> HIDE DEF next, qname
  <2>2. Take(n, qname, next) = Reader(n.state, next, After(n, next), n.hops + 1, n.jumped,
                                      qname, n.reads \cup n.curr .. next - 1)
    BY <2>1
  <2> QED
    BY <1>8, <2>2
<1> HIDE DEF h
<1>14. /\ h.state = "reading" /\ h.curr = next /\ h.offset = After(n, next) /\ h.hops = n.hops + 1
       /\ h.jumped = n.jumped /\ h.qname = qname
  <2> HIDE DEF next, qname, reads
  <2> QED
    BY <1>3, <1>13 DEF Reader
<1>15. next = at + j
  BY <1>2, <1>3, <1>5
<1>16. h.offset = After(n0, h.curr)
  <2>1. n.jumped = n0.jumped /\ n.offset = After(n0, n.curr)
    BY DEF Along
  <2> HIDE DEF next
  <2> QED
    BY <1>14, <2>1 DEF After
<1>17. h.hops = n0.hops + Cardinality(BoundsTo(q, j))
  <2>1. n.hops = n0.hops + Cardinality(BoundsTo(q, k)) /\ n0.hops \in Nat
    BY ReaderFields DEF Along
  <2> HIDE DEF j
  <2> QED
    BY <1>11, <1>12, <1>14, <2>1
<1>18. h.qname = Prefix(q, j - 1)
  BY <1>9, <1>10, <1>14
<1>19. Along(q, at, n0, j, h)
  <2>1. n.jumped = n0.jumped
    BY DEF Along
  <2>2. j \in 0 .. Zero(q)
    BY <1>10
  <2> HIDE DEF j, next
  <2> QED
    BY <1>10, <1>14, <1>15, <1>16, <1>17, <1>18, <2>1, <2>2 DEF Along
<1> HIDE DEF j
<1>20. \E i : Along(q, at, n0, i, h) /\ Cardinality(BoundsTo(q, i)) = Cardinality(BoundsTo(q, k)) + 1
  BY <1>11, <1>19
<1> QED
  BY <1>20 DEF h

Rounds(data, f) ==
  /\ f \in [0 .. MaxHops + 1 -> Readers(data)]
  /\ \A i \in 1 .. MaxHops + 1 : f[i] = Hop(data, f[i - 1])

StartsAt(at, b, n) ==
  n.state = "reading" /\ n.curr = at /\ n.hops = b /\ n.qname = <<>> /\ (~n.jumped => n.offset = at)

Arrives(at, q, n0, n) ==
  n.state = "complete" /\ n.offset = After(n0, at + Zero(q) + 1)

\* From the place of the name, the rounds of NameAt come to its end; a reader
\* that a pointer led there may be out of hops when it is there.
LEMMA NameFollowed ==
  ASSUME NEW data \in Seq(Octets), NEW at \in Nat, NEW q \in ReadNames, DotsApart(q),
         Spelled(data, at, q), Cardinality(Bounds(q)) < MaxHops,
         NEW b \in {0, 1}, NEW f, Rounds(data, f), StartsAt(at, b, f[b])
  PROVE  f[MaxHops + 1].qname = q /\ (b = 0 => Arrives(at, q, f[b], f[MaxHops + 1]))
<1> DEFINE D == Cardinality(Bounds(q))
           H == MaxHops
           n0 == f[b]
           Here(i, k) == Along(q, at, n0, k, f[b + i]) /\ Cardinality(BoundsTo(q, k)) = i
           T == {i \in 0 .. D : \E k : Here(i, k)}
<1>1. D \in Nat /\ H \in Nat /\ D < H /\ b \in Nat /\ b <= 1 /\ Len(q) \in Nat
  <2>1. 0 \in Nat
    OBVIOUS
  <2>2. IsFiniteSet(Bounds(q))
    BY <2>1, BoundsFinite
  <2>3. D \in Nat
    BY <2>2, FS_CardinalityType
  <2> QED
    BY <2>3, MaxHopsAssumption, NamesAreOctets
<1>2. /\ \A i \in 0 .. H + 1 : f[i] \in Readers(data)
      /\ \A i \in 1 .. H + 1 : f[i] = Hop(data, f[i - 1])
  BY DEF Rounds
<1>3. /\ n0 \in Readers(data) /\ n0.state = "reading" /\ n0.curr = at /\ n0.hops = b
      /\ n0.qname = <<>> /\ (~n0.jumped => n0.offset = at)
  <2>1. b \in 0 .. H + 1
    BY <1>1
  <2> QED
    BY <1>2, <2>1 DEF StartsAt
<1>4. Bounds(q) \subseteq 1 .. Zero(q) /\ Zero(q) \in Nat
  BY <1>1 DEF Bounds, Zero
<1>5. 0 \in T
  <2>1. BoundsTo(q, 0) = {}
    BY DEF BoundsTo
  <2>2. Cardinality(BoundsTo(q, 0)) = 0
    BY <2>1, FS_EmptySet
  <2>3. Prefix(q, 0 - 1) = <<>>
    BY DEF Prefix
  <2>4. b + 0 = b /\ at + 0 = at /\ 0 \in 0 .. Zero(q) /\ 0 \in 0 .. D
    BY <1>1, <1>4
  <2>5. n0.offset = After(n0, n0.curr)
    BY <1>3 DEF After
  <2>6. Along(q, at, n0, 0, n0)
    <3>1. n0.hops = n0.hops + Cardinality(BoundsTo(q, 0))
      BY <1>3, <2>2, <2>4
    <3> QED
      BY <1>3, <2>3, <2>4, <2>5, <3>1 DEF Along
  <2>7. Here(0, 0)
    BY <2>2, <2>4, <2>6
  <2> HIDE DEF Here
  <2> QED
    BY <2>4, <2>7
<1> HIDE DEF n0
<1>6. ASSUME NEW i \in 0 .. D - 1, i \in T PROVE i + 1 \in T
  <2> DEFINE n == f[b + i]
  <2>1. PICK k : Here(i, k)
    BY <1>6
  <2>2. k # Zero(q)
    <3>1. SUFFICES ASSUME k = Zero(q) PROVE FALSE
      OBVIOUS
    <3>2. BoundsTo(q, k) = Bounds(q)
      BY <1>4, <3>1 DEF BoundsTo
    <3> QED
      BY <1>1, <2>1, <3>2
  <2>3. b + i \in 0 .. H + 1 /\ b + i + 1 \in 1 .. H + 1 /\ b + i + 1 - 1 = b + i /\ b + (i + 1) = b + i + 1
        /\ i + 1 \in 0 .. D
    BY <1>1
  <2>4. n \in Readers(data) /\ f[b + i + 1] = Hop(data, n)
    BY <1>2, <2>3
  <2>5. n.hops < MaxHops
    <3>1. n.hops = n0.hops + i
      BY <2>1 DEF Along
    <3> QED
      BY <1>1, <1>3, <3>1
  <2> HIDE DEF n
  <2>6. Along(q, at, n0, k, n) /\ Cardinality(BoundsTo(q, k)) = i
    BY <2>1 DEF n
  <2>7. PICK j : /\ Along(q, at, n0, j, Hop(data, n))
                 /\ Cardinality(BoundsTo(q, j)) = Cardinality(BoundsTo(q, k)) + 1
    BY <1>3, <2>2, <2>4, <2>5, <2>6, AlongOn
  <2>8. Along(q, at, n0, j, f[b + (i + 1)])
    BY <2>3, <2>4, <2>7
  <2>9. Here(i + 1, j)
    BY <2>6, <2>7, <2>8
  <2> HIDE DEF Here
  <2> QED
    BY <2>3, <2>9
<1> HIDE DEF T, D
<1>7. 0 .. D \subseteq T
  BY <1>1, <1>5, <1>6, NumbersUpTo
<1>8. D \in T
  BY <1>1, <1>7
<1>9. PICK k : Here(D, k)
  BY <1>8 DEF T
<1> DEFINE n == f[b + D]
           z == Hop(data, n)
<1>10. k = Zero(q)
  <2>1. k \in 0 .. Zero(q)
    BY <1>9 DEF Along
  <2>2. CASE Len(q) = 0
    BY <2>1, <2>2 DEF Zero
  <2>3. CASE Len(q) # 0
    <3>1. Len(q) + 1 \in Bounds(q) /\ Zero(q) = Len(q) + 1
      BY <2>3 DEF Bounds, Zero
    <3>2. BoundsTo(q, k) \subseteq Bounds(q) /\ k \in Nat
      BY <1>4, <2>1 DEF BoundsTo
    <3>3. IsFiniteSet(Bounds(q)) /\ Cardinality(BoundsTo(q, k)) = Cardinality(Bounds(q))
      BY <1>9, <3>2, BoundsFinite DEF D
    <3>4. BoundsTo(q, k) = Bounds(q)
      BY <3>2, <3>3, FS_Subset
    <3>5. Len(q) + 1 \in 1 .. k
      BY <3>1, <3>4 DEF BoundsTo
    <3> QED
      BY <1>1, <2>1, <3>1, <3>5
  <2> QED
    BY <2>2, <2>3
<1>11. /\ n \in Readers(data) /\ n.state = "reading" /\ n.curr = at + Zero(q) /\ n.hops = b + D
       /\ n.qname = Prefix(q, Zero(q) - 1) /\ n.jumped = n0.jumped /\ n.offset = After(n0, n.curr)
  <2>1. b + D \in 0 .. H + 1
    BY <1>1
  <2>2. n \in Readers(data)
    BY <1>2, <2>1
  <2> QED
    BY <1>3, <1>9, <1>10, <2>2 DEF Along
<1>12. Prefix(q, Zero(q) - 1) = q
  <2>1. CASE Len(q) = 0
    <3>1. q = <<>>
      BY <2>1, NamesAreOctets
    <3>2. Zero(q) = 0
      BY <2>1 DEF Zero
    <3> QED
      BY <3>1, <3>2 DEF Prefix
  <2>2. CASE Len(q) # 0
    <3>1. Zero(q) - 1 = Len(q)
      BY <1>1, <2>2 DEF Zero
    <3>2. q = [j \in 1 .. Len(q) |-> q[j]]
      BY NamesAreOctets
    <3> QED
      BY <3>1, <3>2 DEF Prefix
  <2> QED
    BY <2>1, <2>2
<1> HIDE DEF n
<1>13. At(data, n.curr) = 0 /\ n.curr < Len(data) /\ n.curr \in Nat
  BY <1>1, <1>4, <1>11 DEF Spelled
<1>14. GoesOn(data, n) => z = End(n)
  BY <1>11, <1>13, HopCases
<1>15. ~GoesOn(data, n) => z = n
  BY <1>11, HopCases
<1> DEFINE e == End(n)
<1>16. e.state = "complete" /\ e.qname = n.qname /\ e.offset = After(n, n.curr + 1)
  <2>1. e = Reader("complete", n.curr, After(n, n.curr + 1), n.hops, n.jumped,
                   n.qname, n.reads \cup {n.curr})
    BY <1>11, ReaderMoves
  <2> HIDE DEF e
  <2> QED
    BY <2>1 DEF Reader
<1>17. z.qname = q /\ z \in Readers(data)
  <2>1. z \in Readers(data)
    BY <1>11, HopType
  <2> HIDE DEF z, e
  <2> QED
    BY <1>11, <1>12, <1>14, <1>15, <1>16, <2>1 DEF e
<1>18. Hop(data, z) = z
  <2>1. CASE GoesOn(data, n)
    <3>1. ~GoesOn(data, z)
      BY <1>14, <1>16, <2>1 DEF GoesOn
    <3> HIDE DEF z
    <3> QED
      BY <1>17, <3>1, HopCases
  <2>2. CASE ~GoesOn(data, n)
    BY <1>15, <2>2
  <2> QED
    BY <2>1, <2>2
<1> HIDE DEF z
<1> DEFINE R == H - b - D
           W == {i \in 0 .. R : f[b + D + 1 + i] = z}
<1>19. R \in Nat /\ b + D + 1 + R = H + 1
  BY <1>1
<1>20. 0 \in W
  <2>1. b + D + 1 \in 1 .. H + 1 /\ b + D + 1 - 1 = b + D /\ b + D + 1 + 0 = b + D + 1
    BY <1>1
  <2> DEFINE p == b + D + 1
  <2>3. p \in 1 .. H + 1 /\ p - 1 = b + D
    BY <1>1
  <2> HIDE DEF p
  <2>4. f[p] = Hop(data, f[p - 1])
    BY <1>2, <2>3
  <2>5. f[p] = z
    BY <2>3, <2>4 DEF z, n
  <2>2. f[b + D + 1] = z
    BY <2>5 DEF p
  <2> QED
    BY <1>19, <2>1, <2>2
<1>21. ASSUME NEW i \in 0 .. R - 1, i \in W PROVE i + 1 \in W
  <2> DEFINE p == b + D + 1 + i
             r == p + 1
  <2>1. r \in 1 .. H + 1 /\ r - 1 = p /\ b + D + 1 + (i + 1) = r /\ i + 1 \in 0 .. R
    BY <1>1, <1>19
  <2>2. f[p] = z
    BY <1>21
  <2> HIDE DEF p, r
  <2>5. f[r] = Hop(data, f[r - 1])
    BY <1>2, <2>1
  <2>3. f[r] = z
    BY <1>18, <2>1, <2>2, <2>5
  <2> QED
    BY <2>1, <2>3
<1>22. R \in W
  <2> HIDE DEF W, R
  <2>1. 0 .. R \subseteq W
    BY <1>19, <1>20, <1>21, NumbersUpTo
  <2> QED
    BY <1>19, <2>1
<1>23. f[H + 1] = z
  BY <1>19, <1>22
<1>24. ASSUME b = 0 PROVE z.state = "complete" /\ z.offset = After(n0, at + Zero(q) + 1)
  <2>1. GoesOn(data, n)
    BY <1>1, <1>11, <1>13, <1>24 DEF GoesOn
  <2>2. z = e
    BY <1>14, <2>1
  <2>3. After(n, n.curr + 1) = After(n0, at + Zero(q) + 1)
    BY <1>11 DEF After
  <2> HIDE DEF e
  <2> QED
    BY <1>16, <2>2, <2>3
<1> QED
  BY <1>17, <1>23, <1>24 DEF n0, Arrives

-----------------------------------------------------------------------------
(* The answer                                                               *)

\* One sequence goes on where another one ends.
Extends(t, s) == Len(s) <= Len(t) /\ \A o \in 0 .. Len(s) - 1 : At(t, o) = At(s, o)

\* What is read where one sequence follows another.
LEMMA AtBehind ==
  ASSUME NEW s \in Seq(Octets), NEW t \in Seq(Octets)
  PROVE  /\ s \o t \in Seq(Octets) /\ Len(s \o t) = Len(s) + Len(t)
         /\ Extends(s \o t, s)
         /\ \A o \in 0 .. Len(t) - 1 : At(s \o t, Len(s) + o) = At(t, o)
<1> DEFINE w == s \o t
<1>1. Len(s) \in Nat /\ Len(t) \in Nat
  OBVIOUS
<1>2. /\ w \in Seq(Octets) /\ Len(w) = Len(s) + Len(t)
      /\ \A i \in 1 .. Len(s) : w[i] = s[i]
      /\ \A i \in 1 .. Len(t) : w[Len(s) + i] = t[i]
  BY Behind
<1> HIDE DEF w
<1>3. ASSUME NEW o \in 0 .. Len(s) - 1 PROVE At(w, o) = At(s, o)
  <2>1. o + 1 \in 1 .. Len(s) /\ o < Len(s) /\ o < Len(w)
    BY <1>1, <1>2
  <2> QED
    BY <1>2, <2>1 DEF At
<1>4. ASSUME NEW o \in 0 .. Len(t) - 1 PROVE At(w, Len(s) + o) = At(t, o)
  <2> DEFINE i == o + 1
  <2>1. i \in 1 .. Len(t) /\ o < Len(t) /\ Len(s) + o < Len(w) /\ Len(s) + o + 1 = Len(s) + i
    BY <1>1, <1>2
  <2>2. At(t, o) = t[i]
    BY <2>1 DEF At
  <2>3. At(w, Len(s) + o) = w[Len(s) + i]
    BY <2>1 DEF At
  <2> HIDE DEF i
  <2> QED
    BY <1>2, <2>1, <2>2, <2>3
<1>5. Extends(w, s)
  BY <1>1, <1>2, <1>3 DEF Extends
<1> QED
  BY <1>2, <1>4, <1>5 DEF w

\* The two bytes of a word make the word again.
LEMMA BytesAre ==
  ASSUME NEW w \in Words
  PROVE  Bytes(w) \in Seq(Octets) /\ Len(Bytes(w)) = 2 /\ Word16(Bytes(w), 0) = w
<1> DEFINE x == w \div 256
           y == w % 256
<1>1. x \in Octets /\ y \in Octets /\ 256 * x + y = w
  BY DEF Words, Octets
<1> HIDE DEF x, y
<1>2. Bytes(w) = <<x, y>>
  BY DEF Bytes, x, y
<1>3. <<x, y>> \in Seq(Octets) /\ Len(<<x, y>>) = 2 /\ <<x, y>>[1] = x /\ <<x, y>>[2] = y
  BY <1>1
<1>4. At(<<x, y>>, 0) = x /\ At(<<x, y>>, 1) = y
  BY <1>3 DEF At
<1>5. Word16(<<x, y>>, 0) = w
  BY <1>1, <1>4 DEF Word16
<1> QED
  BY <1>2, <1>3, <1>5

\* A word is kept where a sequence goes on.
LEMMA WordKept ==
  ASSUME NEW s \in Seq(Octets), NEW t \in Seq(Octets), Extends(t, s),
         NEW o \in Nat, o + 2 <= Len(s)
  PROVE  Word16(t, o) = Word16(s, o)
<1>1. o \in 0 .. Len(s) - 1 /\ o + 1 \in 0 .. Len(s) - 1
  OBVIOUS
<1>2. At(t, o) = At(s, o) /\ At(t, o + 1) = At(s, o + 1)
  BY <1>1 DEF Extends
<1> QED
  BY <1>2 DEF Word16

\* A word is where it was put.
LEMMA WordBehind ==
  ASSUME NEW s \in Seq(Octets), NEW w \in Words
  PROVE  /\ s \o Bytes(w) \in Seq(Octets) /\ Len(s \o Bytes(w)) = Len(s) + 2
         /\ Extends(s \o Bytes(w), s)
         /\ Word16(s \o Bytes(w), Len(s)) = w
<1> DEFINE t == Bytes(w)
<1>1. t \in Seq(Octets) /\ Len(t) = 2 /\ Word16(t, 0) = w /\ Len(s) \in Nat
  BY BytesAre
<1> HIDE DEF t
<1>2. /\ s \o t \in Seq(Octets) /\ Len(s \o t) = Len(s) + Len(t) /\ Extends(s \o t, s)
      /\ \A o \in 0 .. Len(t) - 1 : At(s \o t, Len(s) + o) = At(t, o)
  BY <1>1, AtBehind
<1>3. 0 \in 0 .. Len(t) - 1 /\ 1 \in 0 .. Len(t) - 1 /\ Len(s) + 0 = Len(s) /\ 0 + 1 = 1
  BY <1>1
<1>4. At(s \o t, Len(s)) = At(t, 0) /\ At(s \o t, Len(s) + 1) = At(t, 1)
  BY <1>2, <1>3
<1>5. Word16(s \o t, Len(s)) = w
  BY <1>1, <1>3, <1>4 DEF Word16
<1> QED
  BY <1>1, <1>2, <1>5 DEF t

\* A sequence that goes on where another does.
LEMMA ExtendsTwice ==
  ASSUME NEW s \in Seq(Octets), NEW t \in Seq(Octets), NEW u \in Seq(Octets),
         Extends(t, s), Extends(u, t)
  PROVE  Extends(u, s)
<1>1. Len(s) \in Nat /\ Len(t) \in Nat /\ Len(u) \in Nat
  OBVIOUS
<1>2. Len(s) <= Len(t) /\ Len(t) <= Len(u)
  BY DEF Extends
<1>3. \A o \in 0 .. Len(s) - 1 : o \in 0 .. Len(t) - 1
  BY <1>1, <1>2
<1> QED
  BY <1>1, <1>2, <1>3 DEF Extends

\* What of an answer the client reads.
Answers(r, id, q) ==
  LET z == Zero(q.qname) IN
  /\ r \in Seq(Octets) /\ Len(r) >= 29 + z
  /\ Word16(r, 0) = id /\ Word16(r, 4) = 1
  /\ Spelled(r, HeaderSize, q.qname)
  /\ Word16(r, 13 + z) = q.qtype /\ Word16(r, 15 + z) = q.qclass
  /\ At(r, 17 + z) = 192 /\ At(r, 18 + z) = HeaderSize

HeaderRest == <<129, 128, 0, 1, 0, 1, 0, 0, 0, 0>>
Record(type) == <<192, HeaderSize, 0, type, 0, 1, 0, 0, 1, 44>>

\* The parts of an answer that are the same in all.
LEMMA FixedParts ==
  /\ HeaderRest \in Seq(Octets) /\ Len(HeaderRest) = 10
  /\ At(HeaderRest, 2) = 0 /\ At(HeaderRest, 3) = 1
  /\ \A type \in Octets : /\ Record(type) \in Seq(Octets) /\ Len(Record(type)) = 10
                          /\ At(Record(type), 0) = 192 /\ At(Record(type), 1) = HeaderSize
  /\ \A n \in Nat : Zeroes(n) \in Seq(Octets) /\ Len(Zeroes(n)) = n
<1>1. HeaderRest \in Seq(Octets) /\ Len(HeaderRest) = 10 /\ HeaderRest[3] = 0 /\ HeaderRest[4] = 1
  BY DEF HeaderRest, Octets
<1>2. At(HeaderRest, 2) = 0 /\ At(HeaderRest, 3) = 1
  BY <1>1 DEF At
<1>3. ASSUME NEW type \in Octets
      PROVE  /\ Record(type) \in Seq(Octets) /\ Len(Record(type)) = 10
             /\ At(Record(type), 0) = 192 /\ At(Record(type), 1) = HeaderSize
  <2>1. /\ Record(type) \in Seq(Octets) /\ Len(Record(type)) = 10
        /\ Record(type)[1] = 192 /\ Record(type)[2] = HeaderSize
    BY DEF Record, Octets, HeaderSize
  <2> QED
    BY <2>1 DEF At
<1>4. \A n \in Nat : Zeroes(n) \in Seq(Octets) /\ Len(Zeroes(n)) = n
  BY DEF Zeroes, Octets
<1> QED
  BY <1>1, <1>2, <1>3, <1>4

\* A zero behind the name, and its labels, where the name begins.
LEMMA EncodedSpelled ==
  ASSUME NEW q \in ReadNames, Len(q) = 0 \/ q[Len(q)] # Dot,
         NEW s \in Seq(Octets), NEW r \in Seq(Octets), Extends(r, s \o Encoded(q))
  PROVE  Spelled(r, Len(s), q) /\ Encoded(q) \in Seq(Octets) /\ Len(Encoded(q)) = Zero(q) + 1
<1> DEFINE e == Encoded(q)
           t == s \o e
           z == Zero(q)
<1>1. Len(q) \in Nat /\ Len(s) \in Nat
  BY NamesAreOctets
<1>2. /\ e \in Seq(Octets)
      /\ Len(q) = 0 => Len(e) = 1 /\ e[1] = 0
      /\ Len(q) # 0 =>
           /\ Len(e) = Len(q) + 2
           /\ \A k \in 0 .. Len(q) : Spells(q, k, e[k + 1])
           /\ e[Len(q) + 2] = 0
  BY EncodedSpells
<1> HIDE DEF e
<1>3. Len(e) = z + 1 /\ e[z + 1] = 0 /\ z \in Nat
  <2>1. CASE Len(q) = 0
    BY <1>2, <2>1 DEF Zero
  <2>2. CASE Len(q) # 0
    <3>1. z = Len(q) + 1 /\ z + 1 = Len(q) + 2
      BY <1>1, <2>2 DEF Zero
    <3> QED
      BY <1>1, <1>2, <2>2, <3>1
  <2> QED
    BY <2>1, <2>2
<1>4. /\ t \in Seq(Octets) /\ Len(t) = Len(s) + Len(e)
      /\ \A o \in 0 .. Len(e) - 1 : At(t, Len(s) + o) = At(e, o)
  BY <1>2, AtBehind
<1>5. Extends(r, t)
  BY DEF e
<1> HIDE DEF t
<1>6. ASSUME NEW o \in 0 .. z PROVE At(r, Len(s) + o) = e[o + 1]
  <2>1. o \in 0 .. Len(e) - 1 /\ Len(s) + o \in 0 .. Len(t) - 1 /\ o < Len(e)
    BY <1>1, <1>3, <1>4, SMTT(40)
  <2>2. At(r, Len(s) + o) = At(t, Len(s) + o)
    BY <1>5, <2>1 DEF Extends
  <2>3. At(e, o) = e[o + 1]
    BY <2>1 DEF At
  <2> QED
    BY <1>4, <2>1, <2>2, <2>3
<1>7. Len(s) + z < Len(r)
  <2>1. Len(t) <= Len(r) /\ Len(r) \in Nat /\ Len(t) = Len(s) + (z + 1)
    BY <1>3, <1>4, <1>5 DEF Extends
  <2> HIDE DEF z
  <2> QED
    BY <1>1, <1>3, <2>1
<1>8. At(r, Len(s) + z) = 0
  <2>1. z \in 0 .. z
    BY <1>3
  <2> QED
    BY <1>3, <1>6, <2>1
<1>9. ASSUME Len(q) # 0, NEW k \in 0 .. Len(q) PROVE Spells(q, k, At(r, Len(s) + k))
  <2>1. k \in 0 .. z
    BY <1>1, <1>9 DEF Zero
  <2>2. At(r, Len(s) + k) = e[k + 1]
    BY <1>6, <2>1
  <2> QED
    BY <1>2, <1>9, <2>2
<1>10. Spelled(r, Len(s), q)
  BY <1>7, <1>8, <1>9 DEF Spelled
<1> QED
  BY <1>2, <1>3, <1>10 DEF e

\* An answer of build_sinkhole_response is one that a client can read.
LEMMA BuildAnswers ==
  ASSUME NEW p, p.id \in Words, p.questions # <<>>, p.questions[1] \in Questions,
         LET name == p.questions[1].qname IN Len(name) = 0 \/ name[Len(name)] # Dot
  PROVE  Answers(Build(p), p.id, p.questions[1])
<1> DEFINE id == p.id
           q == p.questions[1]
           name == q.qname
           z == Zero(name)
           type == IF q.qtype = 28 THEN 28 ELSE 1
           n == IF q.qtype = 28 THEN 16 ELSE 4
           e == Encoded(name)
           s1 == Bytes(id)
           s2 == s1 \o HeaderRest
           s3 == s2 \o e
           s4 == s3 \o Bytes(q.qtype)
           s5 == s4 \o Bytes(q.qclass)
           s6 == s5 \o Record(type)
           s7 == s6 \o Bytes(n)
           s8 == s7 \o Zeroes(n)
<1>1. Build(p) = s8
  BY Zenon DEF Build, HeaderRest, Record
<1>2. name \in ReadNames /\ q.qtype \in Words /\ q.qclass \in Words
  BY DEF Questions
<1>3. type \in Octets /\ n \in Nat /\ n \in Words /\ n >= 4
  <2>1. type \in Octets
    BY DEF Octets
  <2>2. n \in {4, 16}
    OBVIOUS
  <2>3. \A x \in {4, 16} : x \in Nat /\ x \in Words /\ x >= 4
    BY DEF Words
  <2> HIDE DEF n
  <2> QED
    BY <2>1, <2>2, <2>3
<1>4. Len(name) = 0 \/ name[Len(name)] # Dot
  OBVIOUS
<1>5. id \in Words
  OBVIOUS
<1> HIDE DEF id, q, type, n
<1>6. z \in Nat
  <2>1. Len(name) \in Nat
    BY <1>2, NamesAreOctets
  <2> QED
    BY <2>1 DEF Zero
<1>7. e \in Seq(Octets) /\ Len(e) = z + 1
  <2>1. <<>> \in Seq(Octets) /\ e \in Seq(Octets)
    BY <1>2, <1>4, EncodedSpells
  <2>2. <<>> \o e = e /\ Extends(e, e)
    BY <2>1 DEF Extends
  <2> HIDE DEF name
  <2> QED
    BY <1>2, <1>4, <2>1, <2>2, EncodedSpelled
<1>8. s1 \in Seq(Octets) /\ Len(s1) = 2 /\ Word16(s1, 0) = id
  BY <1>5, BytesAre
<1> HIDE DEF name, z, e, s1
<1>9. /\ s2 \in Seq(Octets) /\ Len(s2) = 12 /\ Extends(s2, s1)
      /\ At(s2, 4) = 0 /\ At(s2, 5) = 1
  <2> DEFINE h == HeaderRest
  <2>1. h \in Seq(Octets) /\ Len(h) = 10 /\ At(h, 2) = 0 /\ At(h, 3) = 1
    BY FixedParts
  <2> HIDE DEF h
  <2>2. /\ s1 \o h \in Seq(Octets) /\ Len(s1 \o h) = Len(s1) + Len(h) /\ Extends(s1 \o h, s1)
        /\ \A o \in 0 .. Len(h) - 1 : At(s1 \o h, Len(s1) + o) = At(h, o)
    BY <1>8, <2>1, AtBehind
  <2>3. 2 \in 0 .. Len(h) - 1 /\ 3 \in 0 .. Len(h) - 1 /\ Len(s1) + 2 = 4 /\ Len(s1) + 3 = 5
        /\ Len(s1) + Len(h) = 12
    BY <1>8, <2>1
  <2>4. At(s1 \o h, 4) = 0 /\ At(s1 \o h, 5) = 1
    BY <2>1, <2>2, <2>3
  <2> QED
    BY <2>2, <2>3, <2>4 DEF h
<1> HIDE DEF s2
<1>10. s3 \in Seq(Octets) /\ Len(s3) = 13 + z /\ Extends(s3, s2)
  <2>1. s3 \in Seq(Octets) /\ Len(s3) = Len(s2) + Len(e) /\ Extends(s3, s2)
    BY <1>7, <1>9, AtBehind
  <2> HIDE DEF s3
  <2> QED
    BY <1>6, <1>7, <1>9, <2>1
<1> HIDE DEF s3
<1>11. s4 \in Seq(Octets) /\ Len(s4) = 15 + z /\ Extends(s4, s3) /\ Word16(s4, 13 + z) = q.qtype
  <2>1. s4 \in Seq(Octets) /\ Len(s4) = Len(s3) + 2 /\ Extends(s4, s3) /\ Word16(s4, Len(s3)) = q.qtype
    BY <1>2, <1>10, WordBehind
  <2> HIDE DEF s4
  <2> QED
    BY <1>6, <1>10, <2>1
<1> HIDE DEF s4
<1>12. s5 \in Seq(Octets) /\ Len(s5) = 17 + z /\ Extends(s5, s4) /\ Word16(s5, 15 + z) = q.qclass
  <2>1. s5 \in Seq(Octets) /\ Len(s5) = Len(s4) + 2 /\ Extends(s5, s4) /\ Word16(s5, Len(s4)) = q.qclass
    BY <1>2, <1>11, WordBehind
  <2> HIDE DEF s5
  <2> QED
    BY <1>6, <1>11, <2>1
<1> HIDE DEF s5
<1>13. /\ s6 \in Seq(Octets) /\ Len(s6) = 27 + z /\ Extends(s6, s5)
       /\ At(s6, 17 + z) = 192 /\ At(s6, 18 + z) = HeaderSize
  <2> DEFINE h == Record(type)
  <2>1. h \in Seq(Octets) /\ Len(h) = 10 /\ At(h, 0) = 192 /\ At(h, 1) = HeaderSize
    BY <1>3, FixedParts
  <2> HIDE DEF h
  <2>2. /\ s5 \o h \in Seq(Octets) /\ Len(s5 \o h) = Len(s5) + Len(h) /\ Extends(s5 \o h, s5)
        /\ \A o \in 0 .. Len(h) - 1 : At(s5 \o h, Len(s5) + o) = At(h, o)
    <3>1. s5 \in Seq(Octets)
      BY <1>12
    <3>2. h \in Seq(Octets)
      BY <2>1
    <3> QED
      BY <3>1, <3>2, AtBehind, Zenon
  <2>3. 0 \in 0 .. Len(h) - 1 /\ 1 \in 0 .. Len(h) - 1 /\ Len(s5) + 0 = 17 + z /\ Len(s5) + 1 = 18 + z
        /\ Len(s5) + Len(h) = 27 + z
    BY <1>6, <1>12, <2>1
  <2>4. At(s5 \o h, 17 + z) = 192 /\ At(s5 \o h, 18 + z) = HeaderSize
    <3>1. At(s5 \o h, Len(s5) + 0) = At(h, 0) /\ At(s5 \o h, Len(s5) + 1) = At(h, 1)
      BY <2>2, <2>3, Zenon
    <3> QED
      BY <2>1, <2>3, <3>1, Zenon
  <2> QED
    BY <2>2, <2>3, <2>4 DEF h
<1> HIDE DEF s6
<1>14. s7 \in Seq(Octets) /\ Len(s7) = 29 + z /\ Extends(s7, s6)
  <2>1. s7 \in Seq(Octets) /\ Len(s7) = Len(s6) + 2 /\ Extends(s7, s6)
    BY <1>3, <1>13, WordBehind
  <2> HIDE DEF s7
  <2> QED
    BY <1>6, <1>13, <2>1
<1> HIDE DEF s7
<1>15. s8 \in Seq(Octets) /\ Len(s8) >= 29 + z /\ Extends(s8, s7)
  <2> DEFINE h == Zeroes(n)
  <2>1. h \in Seq(Octets) /\ Len(h) = n
    BY <1>3, FixedParts
  <2> HIDE DEF h
  <2>2. s7 \o h \in Seq(Octets) /\ Len(s7 \o h) = Len(s7) + Len(h) /\ Extends(s7 \o h, s7)
    BY <1>14, <2>1, AtBehind
  <2>3. Len(s7) + Len(h) >= 29 + z
    BY <1>3, <1>6, <1>14, <2>1
  <2> QED
    BY <2>2, <2>3 DEF h
<1> HIDE DEF s8
<1>16. Extends(s8, s6) /\ Extends(s8, s5) /\ Extends(s8, s4) /\ Extends(s8, s3) /\ Extends(s8, s2)
       /\ Extends(s8, s1)
  <2>1. Extends(s8, s6)
    BY <1>13, <1>14, <1>15, ExtendsTwice
  <2>2. Extends(s8, s5)
    BY <1>12, <1>13, <1>15, <2>1, ExtendsTwice
  <2>3. Extends(s8, s4)
    BY <1>11, <1>12, <1>15, <2>2, ExtendsTwice
  <2>4. Extends(s8, s3)
    BY <1>10, <1>11, <1>15, <2>3, ExtendsTwice
  <2>5. Extends(s8, s2)
    BY <1>9, <1>10, <1>15, <2>4, ExtendsTwice
  <2>6. Extends(s8, s1)
    BY <1>8, <1>9, <1>15, <2>5, ExtendsTwice
  <2> QED
    BY <2>1, <2>2, <2>3, <2>4, <2>5, <2>6
<1>17. Word16(s8, 0) = id /\ Word16(s8, 4) = 1
  <2>1. Word16(s8, 0) = Word16(s1, 0)
    <3>1. 0 \in Nat /\ 0 + 2 <= Len(s1)
      BY <1>8
    <3> QED
      BY <1>8, <1>15, <1>16, <3>1, WordKept, Zenon
  <2>2. Word16(s8, 4) = Word16(s2, 4)
    <3>1. 4 \in Nat /\ 4 + 2 <= Len(s2)
      BY <1>9
    <3> QED
      BY <1>9, <1>15, <1>16, <3>1, WordKept, Zenon
  <2>3. Word16(s2, 4) = 1
    BY <1>9 DEF Word16
  <2> QED
    BY <1>8, <2>1, <2>2, <2>3
<1>18. Word16(s8, 13 + z) = q.qtype /\ Word16(s8, 15 + z) = q.qclass
  <2>1. 13 + z \in Nat /\ 15 + z \in Nat /\ 13 + z + 2 <= Len(s4) /\ 15 + z + 2 <= Len(s5)
    BY <1>6, <1>11, <1>12
  <2>2. Word16(s8, 13 + z) = Word16(s4, 13 + z)
    BY <1>11, <1>15, <1>16, <2>1, WordKept
  <2>3. Word16(s8, 15 + z) = Word16(s5, 15 + z)
    BY <1>12, <1>15, <1>16, <2>1, WordKept
  <2> QED
    BY <1>11, <1>12, <2>2, <2>3
<1>19. At(s8, 17 + z) = 192 /\ At(s8, 18 + z) = HeaderSize
  <2>1. 17 + z \in 0 .. Len(s6) - 1 /\ 18 + z \in 0 .. Len(s6) - 1
    BY <1>6, <1>13
  <2> QED
    BY <1>13, <1>16, <2>1, SMTT(40) DEF Extends
<1>20. Spelled(s8, HeaderSize, name)
  <2>1. Extends(s8, s2 \o Encoded(name))
    BY <1>16 DEF s3, e
  <2>2. Spelled(s8, Len(s2), name)
    BY <1>2, <1>4, <1>9, <1>15, <2>1, EncodedSpelled
  <2> QED
    BY <1>9, <2>2 DEF HeaderSize
<1>21. Answers(s8, id, q)
  BY <1>15, <1>17, <1>18, <1>19, <1>20 DEF Answers, name, z
<1> QED
  BY <1>1, <1>21 DEF id, q

\* A name whose dots separate its labels can be read to its end.
LEMMA SeparateAre ==
  ASSUME NEW q \in ReadNames, DotsSeparate(q), MaxHops > 0
  PROVE  /\ DotsApart(q) /\ (Len(q) = 0 \/ q[Len(q)] # Dot)
         /\ Cardinality(Bounds(q)) < MaxHops
<1> DEFINE dots == {i \in DOMAIN q : q[i] = Dot}
<1>1. Len(q) \in Nat /\ DOMAIN q = 1 .. Len(q) /\ (q = <<>> <=> Len(q) = 0)
  BY NamesAreOctets
<1>2. /\ \A i \in dots : i > 1 /\ i < Len(q) /\ i + 1 \notin dots
      /\ q # <<>> => Cardinality(dots) + 1 < MaxHops
  BY DEF DotsSeparate
<1>3. ASSUME NEW i \in 1 .. Len(q), q[i] = Dot PROVE i > 1 /\ i < Len(q) /\ q[i + 1] # Dot
  <2>1. i \in dots
    BY <1>1, <1>3
  <2>2. i > 1 /\ i < Len(q) /\ i + 1 \notin dots
    BY <1>2, <2>1
  <2>3. i + 1 \in DOMAIN q
    BY <1>1, <2>2
  <2> QED
    BY <2>2, <2>3
<1>4. Len(q) = 0 \/ q[Len(q)] # Dot
  <2>1. SUFFICES ASSUME Len(q) # 0, q[Len(q)] = Dot PROVE FALSE
    OBVIOUS
  <2>2. Len(q) \in 1 .. Len(q)
    BY <1>1, <2>1
  <2>3. Len(q) < Len(q)
    BY <1>3, <2>1, <2>2
  <2> QED
    BY <1>1, <2>3
<1>5. Cardinality(Bounds(q)) < MaxHops
  <2>1. CASE Len(q) = 0
    <3>1. Bounds(q) = {}
      BY <2>1 DEF Bounds
    <3> QED
      BY <3>1, FS_EmptySet
  <2>2. CASE Len(q) # 0
    <3> DEFINE z == Len(q) + 1
    <3>1. Bounds(q) = dots \cup {z}
      BY <1>1, <2>2 DEF Bounds
    <3>2. z \notin dots
      BY <1>1
    <3>3. IsFiniteSet(1 .. Len(q)) /\ dots \subseteq 1 .. Len(q)
      BY <1>1, FS_Interval
    <3>4. IsFiniteSet(dots)
      BY <3>3, FS_Subset
    <3> HIDE DEF dots, z
    <3>5. Cardinality(dots \cup {z}) = Cardinality(dots) + 1
      BY <3>2, <3>4, FS_AddElement
    <3> QED
      BY <1>1, <1>2, <2>2, <3>1, <3>5
  <2> QED
    BY <2>1, <2>2
<1> QED
  BY <1>3, <1>4, <1>5 DEF DotsApart

\* The client reads from an answer what was asked.
LEMMA AnswerReads ==
  ASSUME NEW r, NEW id \in Words, NEW q \in Questions, q.whole, DotsSeparate(q.qname),
         Answers(r, id, q)
  PROVE  LET again == Parse(r) IN
         /\ again.ok /\ again.id = id /\ again.questions = <<q>>
         /\ NameAt(r, again.offset).qname = q.qname
         /\ again.reads \subseteq 0 .. Len(r) - 1
<1> DEFINE name == q.qname
           z == Zero(name)
           n == NameAt(r, HeaderSize)
<1>1. /\ name \in ReadNames /\ MaxHops > 0 /\ q.qtype \in Words /\ q.qclass \in Words
      /\ q = [qname |-> name, whole |-> TRUE, qtype |-> q.qtype, qclass |-> q.qclass]
  BY DEF Questions
<1>2. /\ r \in Seq(Octets) /\ Len(r) >= 29 + z
      /\ Word16(r, 0) = id /\ Word16(r, 4) = 1
      /\ Spelled(r, HeaderSize, name)
      /\ Word16(r, 13 + z) = q.qtype /\ Word16(r, 15 + z) = q.qclass
      /\ At(r, 17 + z) = 192 /\ At(r, 18 + z) = HeaderSize
  BY DEF Answers
<1>3. DotsApart(name) /\ Cardinality(Bounds(name)) < MaxHops
  BY <1>1, SeparateAre
<1>4. z \in Nat /\ Len(r) \in Nat
  <2>1. Len(name) \in Nat
    BY <1>1, NamesAreOctets
  <2> QED
    BY <1>2, <2>1 DEF Zero
<1> HIDE DEF name, z, n
<1>5. HeaderSize \in Nat /\ HeaderSize = 12 /\ MaxHops + 1 \in Nat /\ MaxHops + 1 \in 0 .. MaxHops + 1
  BY MaxHopsAssumption DEF HeaderSize
<1>6. n.state = "complete" /\ n.qname = name /\ n.offset = 13 + z
  <2>1. PICK f \in [0 .. MaxHops + 1 -> Readers(r)] :
          /\ f[0] = Unread(HeaderSize)
          /\ \A i \in 1 .. MaxHops + 1 : f[i] = Hop(r, f[i - 1])
          /\ f[MaxHops + 1] = n
    <3>1. r \in Seq(Octets) /\ HeaderSize \in Nat
      BY <1>2, <1>5
    <3> QED
      BY <3>1, NameRuns, Zenon DEF n
  <2>2. /\ f[0].state = "reading" /\ f[0].curr = HeaderSize /\ f[0].hops = 0 /\ f[0].qname = <<>>
        /\ ~f[0].jumped /\ f[0].offset = HeaderSize
    BY <2>1 DEF Unread, Reader
  <2>3. 0 \in {0, 1}
    OBVIOUS
  <2>4. /\ f[MaxHops + 1].qname = name /\ f[MaxHops + 1].state = "complete"
        /\ f[MaxHops + 1].offset = After(f[0], HeaderSize + Zero(name) + 1)
    <3>1. r \in Seq(Octets) /\ HeaderSize \in Nat /\ Spelled(r, HeaderSize, name)
      BY <1>2, <1>5
    <3>2. name \in ReadNames
      BY <1>1
    <3>3. Cardinality(Bounds(name)) < MaxHops /\ DotsApart(name)
      BY <1>3
    <3> QED
      <4>1. Rounds(r, f) /\ StartsAt(HeaderSize, 0, f[0])
        BY <2>1, <2>2 DEF Rounds, StartsAt
      <4>2. f[MaxHops + 1].qname = name /\ (0 = 0 => Arrives(HeaderSize, name, f[0], f[MaxHops + 1]))
        BY <2>3, <3>1, <3>2, <3>3, <4>1, NameFollowed, Zenon
      <4> QED
        BY <4>2 DEF Arrives
  <2>5. After(f[0], HeaderSize + Zero(name) + 1) = HeaderSize + Zero(name) + 1
    BY <2>2 DEF After
  <2>6. HeaderSize + z + 1 = 13 + z
    BY <1>4, <1>5
  <2> QED
    BY <2>1, <2>4, <2>5, <2>6 DEF z
<1>7. Len(r) >= HeaderSize
  BY <1>2, <1>4, <1>5
<1>8. Header(r) = Parsed(TRUE, id, HeaderSize, <<>>, {})
  BY <1>2, <1>7 DEF Header
<1> DEFINE h == Header(r)
           again == Parse(r)
<1>9. again = WithQuestion(r, h)
  <2>1. PICK f \in [0 .. 1 -> Packets(r)] :
          /\ f[0] = h
          /\ \A i \in 1 .. 1 : f[i] = WithQuestion(r, f[i - 1])
          /\ f[1] = again
    BY <1>2, <1>7, ParseRuns
  <2>2. 1 \in 1 .. 1 /\ 1 - 1 = 0
    OBVIOUS
  <2>3. f[1] = WithQuestion(r, f[0])
    BY <2>1, <2>2
  <2> QED
    BY <2>1, <2>3
<1>10. h \in Packets(r) /\ again \in Packets(r)
  BY <1>2, HeaderType, ParseType
<1>11. h.ok /\ h.ok = TRUE /\ h.id = id /\ h.offset = HeaderSize /\ h.questions = <<>>
  BY <1>8 DEF Parsed
<1> HIDE DEF h, again
<1>12. ~GivesUp(r, h)
  <2>1. n.offset + 4 <= Len(r)
    BY <1>2, <1>4, <1>6
  <2>2. NameAt(r, h.offset) = n
    BY <1>11 DEF n
  <2>3. ~(n.offset + 4 > Len(r))
    BY <1>4, <1>6, <2>1
  <2> QED
    BY <1>6, <1>11, <2>2, <2>3 DEF GivesUp
<1> DEFINE seen == h.reads \cup n.reads \cup n.offset .. n.offset + 3
<1>13. again = Parsed(h.ok, h.id, n.offset + 4, Append(h.questions, Question(r, n)), seen)
  <2>1. NameAt(r, h.offset) = n
    BY <1>11 DEF n
  <2> QED
    BY <1>2, <1>9, <1>10, <1>12, <2>1, WithQuestionCases
<1>14. Question(r, n) = q
  <2>1. n.offset = 13 + z /\ n.offset + 2 = 15 + z
    BY <1>4, <1>6
  <2>2. Word16(r, n.offset) = q.qtype /\ Word16(r, n.offset + 2) = q.qclass
    BY <1>2, <2>1
  <2>3. (n.state = "complete") = TRUE
    BY <1>6
  <2> QED
    BY <1>1, <1>6, <2>2, <2>3 DEF Question
<1>15. again = Parsed(TRUE, id, 17 + z, <<q>>, seen)
  <2>1. Append(h.questions, Question(r, n)) = <<q>>
    BY <1>11, <1>14
  <2>2. n.offset + 4 = 17 + z
    BY <1>4, <1>6
  <2> HIDE DEF seen
  <2> QED
    BY <1>11, <1>13, <2>1, <2>2
<1>16. again.ok /\ again.id = id /\ again.questions = <<q>> /\ again.offset = 17 + z
  <2> HIDE DEF seen
  <2> QED
    BY <1>15 DEF Parsed
<1>17. again.reads \subseteq 0 .. Len(r) - 1
  BY <1>2, <1>10, PacketFields
<1>18. NameAt(r, 17 + z).qname = name
  <2> DEFINE o == 17 + z
             u == Unread(o)
  <2>1. o \in Nat /\ o < Len(r) /\ o + 1 < Len(r) /\ o + 1 = 18 + z
    BY <1>2, <1>4
  <2>2. At(r, o) = 192 /\ At(r, o + 1) = HeaderSize
    BY <1>2, <2>1
  <2> HIDE DEF o
  <2>3. PICK f \in [0 .. MaxHops + 1 -> Readers(r)] :
          /\ f[0] = u
          /\ \A i \in 1 .. MaxHops + 1 : f[i] = Hop(r, f[i - 1])
          /\ f[MaxHops + 1] = NameAt(r, o)
    <3>1. r \in Seq(Octets) /\ o \in Nat
      BY <1>2, <2>1
    <3>2. u = Unread(o)
      BY DEF u
    <3> QED
      BY <3>1, <3>2, NameRuns, Zenon
  <2>4. u \in Readers(r)
    BY <1>2, <2>1, UnreadType
  <2>5. u.state = "reading" /\ u.curr = o /\ u.hops = 0 /\ u.qname = <<>>
    BY DEF Unread, Reader
  <2> HIDE DEF u
  <2>6. GoesOn(r, u)
    BY <1>1, <2>1, <2>5 DEF GoesOn
  <2>7. Hop(r, u) = Jump(u, HeaderSize)
    <3>1. At(r, u.curr) = 192 /\ At(r, u.curr) >= 192 /\ u.curr + 1 < Len(r)
          /\ At(r, u.curr + 1) = HeaderSize
      BY <2>1, <2>2, <2>5
    <3>2. Hop(r, u) = Jump(u, 256 * (At(r, u.curr) - 192) + At(r, u.curr + 1))
      BY <1>2, <2>4, <2>6, <3>1, HopCases
    <3>3. 256 * (192 - 192) + HeaderSize = HeaderSize
      BY <1>5
    <3> QED
      BY <3>1, <3>2, <3>3
  <2>8. Jump(u, HeaderSize) = Reader(u.state, HeaderSize, After(u, u.curr + 2), u.hops + 1, TRUE,
                                     u.qname, u.reads \cup u.curr .. u.curr + 1)
    BY <1>2, <2>4, ReaderMoves, ZenonT(40)
  <2>9. 1 \in 1 .. MaxHops + 1 /\ 1 - 1 = 0
    BY <1>5, MaxHopsAssumption
  <2>10. f[1] = Hop(r, f[1 - 1])
    BY <2>3, <2>9
  <2>11. f[1] = Jump(u, HeaderSize)
    BY <2>3, <2>7, <2>9, <2>10
  <2> DEFINE yes == TRUE
             seen2 == u.reads \cup u.curr .. u.curr + 1
             place == After(u, u.curr + 2)
  <2>12. f[1] = Reader(u.state, HeaderSize, place, u.hops + 1, yes, u.qname, seen2)
    BY <2>8, <2>11
  <2> HIDE DEF yes, seen2, place
  <2>13. f[1].state = "reading" /\ f[1].curr = HeaderSize /\ f[1].hops = 1 /\ f[1].qname = <<>>
         /\ f[1].jumped = yes
    BY <2>5, <2>12 DEF Reader
  <2>14. 1 \in {0, 1} /\ (~f[1].jumped => f[1].offset = HeaderSize)
    BY <2>13 DEF yes
  <2>15. f[MaxHops + 1].qname = name
    <3>1. r \in Seq(Octets) /\ HeaderSize \in Nat /\ Spelled(r, HeaderSize, name)
      BY <1>2, <1>5
    <3>2. name \in ReadNames
      BY <1>1
    <3>3. Cardinality(Bounds(name)) < MaxHops /\ DotsApart(name)
      BY <1>3
    <3> QED
      <4>1. Rounds(r, f) /\ StartsAt(HeaderSize, 1, f[1])
        BY <2>3, <2>13, <2>14 DEF Rounds, StartsAt
      <4>2. 1 \in {0, 1}
        OBVIOUS
      <4>3. f[MaxHops + 1].qname = name /\ (1 = 0 => Arrives(HeaderSize, name, f[1], f[MaxHops + 1]))
        BY <3>1, <3>2, <3>3, <4>1, <4>2, NameFollowed, Zenon
      <4> QED
        BY <4>3
  <2> QED
    BY <2>3, <2>15 DEF o
<1> QED
  BY <1>16, <1>17, <1>18 DEF again, name

\* The packet and the answer are what the codec makes of the datagram.
PacketInv ==
  /\ datagram \in Seq(Octets)
  /\ packet = Parse(datagram)
  /\ response # <<>> => packet.ok /\ response = Build(packet)

\* The server answers a datagram with what parse and build_sinkhole_response
\* make of it.
LEMMA PacketsStay == Spec => []PacketInv
<1>1. Init => PacketInv
  BY DEF Init, PacketInit, PacketInv
<1>2. PacketInv /\ [Next]_vars => PacketInv'
  <2> SUFFICES ASSUME PacketInv, [Next]_vars PROVE PacketInv'
    OBVIOUS
  <2>1. CASE UNCHANGED packetVars
    BY <2>1 DEF PacketInv, packetVars
  <2>2. CASE PacketNext
    <3>1. PICK data \in Datagrams : Receive(data)
      BY <2>2 DEF PacketNext
    <3>2. data \in Seq(Octets)
      BY DatagramsAssumption DEF Octets
    <3> QED
      BY <3>1, <3>2 DEF Receive, PacketInv
  <2> QED
    BY <2>1, <2>2 DEF Next, vars
<1> QED
  BY <1>1, <1>2, PTL DEF Spec

\* parse reads no byte beyond its packet, whatever its pointers lead to, and a
\* question whose name came to its end comes back in an answer that parses to it
\* again, with a record that bears the name: for all datagrams, and however many
\* hops are followed.
THEOREM AnswersStayMatched == Spec => []AnswersMatchQuestions
<1>1. PacketInv => AnswersMatchQuestions
  <2> SUFFICES ASSUME PacketInv PROVE AnswersMatchQuestions
    OBVIOUS
  <2>1. datagram \in Seq(Octets) /\ packet = Parse(datagram)
    BY DEF PacketInv
  <2>2. packet \in Packets(datagram)
    BY <2>1, ParseType
  <2>3. ReadsInBounds
    BY <2>1, <2>2, PacketFields DEF ReadsInBounds
  <2> DEFINE q == packet.questions[1]
             again == Parse(response)
  <2>4. ASSUME response # <<>>, q.whole, DotsSeparate(q.qname)
        PROVE  /\ again.ok /\ again.id = packet.id /\ again.questions = <<q>>
               /\ NameAt(response, again.offset).qname = q.qname
               /\ again.reads \subseteq 0 .. Len(response) - 1
    <3>1. response = Build(packet)
      BY <2>4 DEF PacketInv
    <3>2. packet.questions # <<>>
      BY <2>4, <3>1 DEF Build
    <3>3. packet.id \in Words /\ packet.questions \in Seq(Questions)
      BY <2>1, <2>2, PacketFields
    <3>4. q \in Questions
      <4> DEFINE s == packet.questions
      <4>1. s \in Seq(Questions) /\ s # <<>>
        BY <3>2, <3>3
      <4> HIDE DEF s
      <4>2. 1 \in 1 .. Len(s)
        BY <4>1
      <4>3. s[1] \in Questions
        BY <4>1, <4>2
      <4> QED
        BY <4>3 DEF s
    <3>5. q.qname \in ReadNames /\ MaxHops > 0
      BY <2>4, <3>4 DEF Questions
    <3>6. Len(q.qname) = 0 \/ q.qname[Len(q.qname)] # Dot
      BY <2>4, <3>5, SeparateAre
    <3>7. Answers(Build(packet), packet.id, q)
      BY <3>2, <3>3, <3>4, <3>6, BuildAnswers
    <3>8. Answers(response, packet.id, q)
      BY <3>1, <3>7
    <3> HIDE DEF q
    <3> QED
      BY <2>4, <3>3, <3>4, <3>8, AnswerReads
  <2>5. AnswerEchoes
    BY <2>4, Zenon DEF AnswerEchoes
  <2> QED
    BY <2>3, <2>5 DEF AnswersMatchQuestions
<1>2. Spec => []PacketInv
  BY PacketsStay
<1> QED
  BY <1>1, <1>2, PTL
=============================================================================
