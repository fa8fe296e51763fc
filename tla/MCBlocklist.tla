----------------------------- MODULE MCBlocklist -----------------------------
(***************************************************************************)
(* What stands between a query and the answer to it: a domain tree on      *)
(* names that nest three deep, fork and share no root, a Bloom filter      *)
(* whose two keys share a bit in one of its two shapes, and the packet     *)
(* codec.  They share no state, so a behaviour explores one of them.       *)
(***************************************************************************)
EXTENDS RadixTree, BloomFilter, DnsPacket

VARIABLE part

MCLabels == {"com", "org", "bad", "cdn", "www"}

MCNames ==
  { <<"com">>, <<"com", "bad">>, <<"com", "bad", "cdn">>, <<"com", "bad", "www">>,
    <<"com", "bad", "cdn", "www">>, <<"org", "bad">> }

MCHash1 == [key \in {"k1", "k2"} |-> IF key = "k1" THEN 250 ELSE 131]
MCHash2 == [key \in {"k1", "k2"} |-> IF key = "k1" THEN 9 ELSE 64]

MCShapes == {[bits |-> 64, hashes |-> 2], [bits |-> 128, hashes |-> 3]}

\* Packets of a header, up to five bytes that are or are not a name, and perhaps
\* a type and a class; among them pointers to the name itself, to its second
\* byte, into the header and past the end, labels that are cut off or hold dots,
\* and, with two questions, a second one that begins in the middle.
MCHeader(questions) == <<1, 2, 1, 0, 0, questions, 0, 0, 0, 0, 0, 0>>
MCBytes == {0, 1, 3, 12, 13, 46, 65, 192}
MCNamesUpTo(length) == UNION {[1 .. n -> MCBytes] : n \in 0 .. length}
MCDatagrams ==
  {<<1, 2>>, MCHeader(0)}
  \cup {MCHeader(1) \o name \o <<0, 28, 0, 1>> : name \in MCNamesUpTo(5)}
  \cup {MCHeader(1) \o name : name \in MCNamesUpTo(4)}
  \cup {MCHeader(2) \o name \o <<0, 1, 0, 1>> : name \in MCNamesUpTo(4)}

vars == <<part, treeVars, bloomVars, packetVars>>

Init ==
  /\ part \in {"tree", "bloom", "packet"}
  /\ TreeInit /\ BloomInit /\ PacketInit

Next ==
  /\ UNCHANGED part
  /\ \/ part = "tree" /\ TreeNext /\ UNCHANGED <<bloomVars, packetVars>>
     \/ part = "bloom" /\ BloomNext /\ UNCHANGED <<treeVars, packetVars>>
     \/ part = "packet" /\ PacketNext /\ UNCHANGED <<treeVars, bloomVars>>

Spec == Init /\ [][Next]_vars

\* Whatever a query holds, parsing ends within it, and the answer that is made
\* of a name that came to its end can be matched to the question by the client.
AnswersMatchQuestions == ReadsInBounds /\ AnswerEchoes
=============================================================================
