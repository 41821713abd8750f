--------------------------- MODULE MCPartyMachine ---------------------------
(***************************************************************************)
(* A small party: the host and one guest, on one tab each.                 *)
(***************************************************************************)
EXTENDS PartyMachine

CONSTANTS host, guest, tab1, tab2

MCUser == {host, guest}
MCDevice == {tab1, tab2}
TwoSeats == {<<host, tab1>>, <<guest, tab1>>}

=============================================================================
