--------------------------- MODULE MCIncidentFeed ---------------------------
(***************************************************************************)
(* IncidentFeed for TLC: incidents, transactions and consoles are          *)
(* interchangeable, and only safety is checked.                            *)
(***************************************************************************)
EXTENDS IncidentFeed, TLC

Symmetry ==
  Permutations(Incidents) \union Permutations(Transactions)
    \union Permutations(Consoles)

=============================================================================
