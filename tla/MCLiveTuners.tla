----------------------------- MODULE MCLiveTuners -----------------------------
(* Two channels that two sources carry, of one connection each: the second  *)
(* channel opened feeds from the second source, and a failover of the first *)
(* exceeds it.                                                              *)
EXTENDS LiveTuners, TLC

CONSTANTS cable, iptv

MCStreams == [c \in Channel |-> <<cable, iptv>>]
MCMaxStreams == (cable :> 1) @@ (iptv :> 1)
Symmetry == Permutations(Open) \cup Permutations(Channel)
=============================================================================
