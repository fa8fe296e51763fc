----------------------------- MODULE DomainRules -----------------------------
(***************************************************************************)
(* What a domain blocklist promises (radix_tree.hpp): a rule blocks the    *)
(* domain it names and every subdomain, whatever the order the rules were  *)
(* added in, until the list is cleared.  A name is its sequence of labels  *)
(* from the top-level domain down, so that a parent is a prefix.           *)
(***************************************************************************)
EXTENDS SequencesExt

CONSTANT Names    \* the names rules and queries are about

VARIABLE blocked  \* the names a query is blocked for

Covered(rule) == {name \in Names : IsPrefix(rule, name)}

Init == blocked = {}

Add(rule) == blocked' = blocked \cup Covered(rule)

Clear == blocked' = {}

Next == Clear \/ \E rule \in Names : Add(rule)

Spec == Init /\ [][Next]_blocked
=============================================================================
