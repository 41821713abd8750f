---------------------------- MODULE MCPartyRegistry ----------------------------
(* An owner and one guest, two requests at a time beside the task.          *)
EXTENDS PartyRegistry, TLC

Symmetry == Permutations(Request) \cup Permutations(Gate)

=============================================================================
