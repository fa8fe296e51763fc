------------------------------ MODULE RadixTree ------------------------------
(***************************************************************************)
(* DomainRadixTree (core/engine_shared/src/radix_tree.cpp).  A node is the *)
(* path of labels that leads to it from the root, top-level domain first;  *)
(* the root itself, <<>>, is never terminal and is left out.  Splitting a  *)
(* string into labels, with its trimming and lower-casing, is what makes   *)
(* two spellings one name; names are label sequences here.                 *)
(* load_from_file is a sequence of inserts.                                *)
(***************************************************************************)
EXTENDS SequencesExt

CONSTANTS
  Labels,   \* the labels names are made of
  Names     \* the names inserted and queried

\* insert and matches return at once for a name without labels.
ASSUME NamesAssumption == Names \subseteq Seq(Labels) \ {<<>>}

VARIABLES
  nodes,        \* the nodes of the tree
  terminal,     \* those with is_terminal set
  total_rules_

treeVars == <<nodes, terminal, total_rules_>>

TreeInit ==
  /\ nodes = {}
  /\ terminal = {}
  /\ total_rules_ = 0

\* The nodes on the way to path, path included.
Path(path) == Prefixes(path) \ {<<>>}

\* Mutant: the labels are walked from the host name up.
WalkedFromHost(name) ==
  {node \in Path(Reverse(name)) : \A rule \in terminal : ~IsStrictPrefix(rule, node)}

\* The nodes the loop of insert reaches, creating those that are missing: it
\* returns before it takes another label from a terminal node.
Walked(name) == {node \in Path(name) : \A rule \in terminal : ~IsStrictPrefix(rule, node)}

\* Mutant: the node becomes terminal, but keeps the subdomains under it.
InsertKeepsChildren(name) ==
  IF name \in Walked(name) /\ name \notin terminal
  THEN /\ nodes' = nodes \cup Walked(name)
       /\ terminal' = terminal \cup {name}
       /\ total_rules_' = total_rules_ + 1
  ELSE /\ nodes' = nodes \cup Walked(name)
       /\ UNCHANGED <<terminal, total_rules_>>

\* Mutant: inserting a rule that is there already takes it out again.
InsertToggles(name) ==
  IF name \in Walked(name)
  THEN /\ nodes' = {n \in nodes \cup Walked(name) : ~IsStrictPrefix(name, n)}
       /\ terminal' = IF name \in terminal THEN terminal \ {name}
                      ELSE {t \in terminal : ~IsPrefix(name, t)} \cup {name}
       /\ total_rules_' = IF name \in terminal THEN total_rules_ - 1 ELSE total_rules_ + 1
  ELSE /\ nodes' = nodes \cup Walked(name)
       /\ UNCHANGED <<terminal, total_rules_>>

\* Mutant: the count takes off a rule for every node that is dropped.
InsertUncountsNodes(name) ==
  IF name \in Walked(name) /\ name \notin terminal
  THEN /\ nodes' = {n \in nodes \cup Walked(name) : ~IsStrictPrefix(name, n)}
       /\ terminal' = {t \in terminal : ~IsPrefix(name, t)} \cup {name}
       /\ total_rules_' = total_rules_ + 1 - Cardinality(nodes \ nodes')
  ELSE /\ nodes' = nodes \cup Walked(name)
       /\ UNCHANGED <<terminal, total_rules_>>

\* insert(domain): a name whose walk reaches its own node becomes terminal and
\* loses the subtree under it.
Insert(name) ==
  IF name \in Walked(name) /\ name \notin terminal
  THEN /\ nodes' = {n \in nodes \cup Walked(name) : ~IsStrictPrefix(name, n)}
       /\ terminal' = {t \in terminal : ~IsPrefix(name, t)} \cup {name}
       /\ total_rules_' = total_rules_ + 1
  ELSE /\ nodes' = nodes \cup Walked(name)
       /\ UNCHANGED <<terminal, total_rules_>>

TreeClear == nodes' = {} /\ terminal' = {} /\ total_rules_' = 0

\* matches(domain): follow the labels down while there are nodes; true at the
\* first terminal one.
Matches(name) ==
  \E node \in Path(name) : node \in terminal /\ Path(node) \subseteq nodes

TreeNext == TreeClear \/ \E name \in Names : Insert(name)

TreeSpec == TreeInit /\ [][TreeNext]_treeVars

-----------------------------------------------------------------------------

TreeTypeOK ==
  /\ nodes \subseteq UNION {Path(name) : name \in Names}
  /\ terminal \subseteq Names
  /\ total_rules_ \in Nat

\* The tree is one that insert is meant to keep: every node is reached from the
\* root and leads to a rule, and no rule lies under a broader one.
TreeShape ==
  /\ terminal \subseteq nodes
  /\ \A node \in nodes : Path(node) \subseteq nodes
  /\ \A node \in nodes : \E rule \in terminal : IsPrefix(node, rule)
  /\ \A broad, narrow \in terminal : ~IsStrictPrefix(broad, narrow)

\* size() never reports fewer rules than the tree holds.  (It may report more:
\* rules dropped under a broader one stay counted.)
SizeCoversRules == Cardinality(terminal) <= total_rules_

\* The tree implements the blocklist: matches answers as if every rule ever
\* inserted were still there, although narrower ones are skipped or dropped.
Blocked == {name \in Names : Matches(name)}
Rules == INSTANCE DomainRules WITH blocked <- Blocked
ImplementsDomainRules == Rules!Spec
=============================================================================
