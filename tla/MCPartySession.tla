---------------------------- MODULE MCPartySession ----------------------------
(* One client and its party.                                                *)
EXTENDS PartySession
=============================================================================
