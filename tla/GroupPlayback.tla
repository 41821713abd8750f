--------------------------- MODULE GroupPlayback ---------------------------
(***************************************************************************)
(* What a watch party promises its members about playback, without saying  *)
(* how it waits for them: the group obeys the last play, pause or end, and *)
(* stays where the last move put it.                                       *)
(*                                                                         *)
(* `wish` is what the group was last asked for, `mode` where it stands,    *)
(* `item` and `pos` what it plays and where its anchor is.  While it waits *)
(* for its members the wish may change and the anchor may be moved, never  *)
(* both at once; released, the group plays from that anchor exactly when   *)
(* the wish is to play.                                                    *)
(***************************************************************************)
EXTENDS Integers

VARIABLES mode, wish, item, pos

vars == <<mode, wish, item, pos>>

Init ==
    /\ mode \in {"lobby", "paused"}
    /\ wish = FALSE

Stays == UNCHANGED <<item, pos>>

(* What played goes on being what plays, no earlier than its anchor. *)
PlayedOn == item' = item /\ pos' >= pos

(* The start plays, once the members have loaded, when the host is in. *)
Start ==
    /\ mode = "lobby"
    /\ \/ mode' = "waiting" /\ wish' = TRUE
       \/ mode' = "idle" /\ wish' = FALSE
    /\ pos' = 0

AskPlay ==
    /\ mode \in {"idle", "paused", "waiting"}
    /\ mode' = "waiting"
    /\ wish' = TRUE
    /\ Stays

AskPause ==
    /\ \/ mode = "playing" /\ mode' = "paused" /\ PlayedOn
       \/ mode = "waiting" /\ mode' = "waiting" /\ Stays
    /\ wish' = FALSE

(* A seek, an item change, a step along the programme. *)
Move ==
    /\ mode # "lobby"
    /\ mode' = "waiting"
    /\ UNCHANGED wish

Release ==
    /\ mode = "waiting"
    /\ mode' = IF wish THEN "playing" ELSE "paused"
    /\ UNCHANGED wish
    /\ Stays

(* The item ended, or nothing is left: the next one waits for a new play. *)
End ==
    /\ mode \in {"playing", "paused", "waiting"}
    /\ mode' = "idle"
    /\ wish' = FALSE
    /\ PlayedOn

EndAndMove ==
    /\ mode \in {"playing", "paused"}
    /\ mode' = "waiting"
    /\ wish' = FALSE
    /\ pos' = 0

Next == Start \/ AskPlay \/ AskPause \/ Move \/ Release \/ End \/ EndAndMove

Spec == Init /\ [][Next]_vars

=============================================================================
