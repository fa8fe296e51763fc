----------------------------- MODULE MCDnsServer -----------------------------
(* Two clean queries, one that is blocked and one that does not parse: an    *)
(* answer can come late, for another client, or out of order.                *)
EXTENDS DnsServer

MCQueries == {"clean1", "clean2", "adult", "noise"}

MCKind == [q \in MCQueries |-> CASE q = "adult" -> "blocked"
                                 [] q = "noise" -> "garbage"
                                 [] OTHER -> "clean"]
=============================================================================
