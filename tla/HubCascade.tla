----------------------------- MODULE HubCascade -----------------------------
(***************************************************************************)
(* `dispatch` and `close_locked` of events/hub.rs as they are written, one *)
(* calling the other, as the reference for EventHub's Closing: on every    *)
(* small hub the recursion ends with the streams that Closing names, and   *)
(* with the frames that Section counts.                                    *)
(***************************************************************************)
EXTENDS EventHub

(* R has the streams left in the map, and their queues. *)
RECURSIVE Dispatches(_, _, _), ClosesLocked(_, _, _)

(* One frame for those of C that are left; those without room are closed.   *)
Dispatches(S, R, C) ==
    LET to == C \cap R.left
        full == {c \in to : R.queue[c] = ConnQueueMax}
    IN ClosesLocked(S, [R EXCEPT !.queue = [c \in DOMAIN S |->
                           IF c \in to \ full THEN @[c] + 1 ELSE @[c]]], full)

(* One after the other; one that a close before it closed is passed.        *)
ClosesLocked(S, R, C) ==
    IF C = {} THEN R
    ELSE LET c == CHOOSE x \in C : \A y \in C : x <= y
             gone == [R EXCEPT !.left = @ \ {c}]
         IN ClosesLocked(S,
                IF c \notin R.left THEN R
                ELSE IF S[c].target = None THEN gone
                ELSE Dispatches(S, gone, {d \in gone.left : S[d].user = S[c].user}),
                C \ {c})

(* Three streams, of any users, each a target or not, with room for no      *)
(* frame, one or two.                                                       *)
Hubs == [1 .. 3 -> [user : User, target : {None, CHOOSE t \in Target : TRUE},
                    registered : {TRUE}, queue : ConnQueueMax - 2 .. ConnQueueMax]]

(* K is closed, then a frame goes to C.  The order of a map is that of the  *)
(* numbers here, and every order is that of another hub.                    *)
CascadeEndsAtClosing(S, K, C) ==
    LET all == [left |-> DOMAIN S, queue |-> [c \in DOMAIN S |-> S[c].queue]]
        R == Dispatches(S, ClosesLocked(S, all, K), C)
        sent == [c \in DOMAIN S |-> IF c \in C THEN 1 ELSE 0]
        gone == Closing(S, K, sent)
    IN /\ R.left = DOMAIN S \ gone
       /\ \A c \in R.left : R.queue[c] = S[c].queue + sent[c] + Announced(S, gone, c)

ASSUME CascadeIsClosing ==
    \A S \in Hubs : LET all == SUBSET DOMAIN S IN
        /\ \A K \in all : CascadeEndsAtClosing(S, K, {})
        /\ \A C \in all : CascadeEndsAtClosing(S, {}, C)
        /\ \A K \in all, u \in User : CascadeEndsAtClosing(S, K, OfUser(S, {u}))

=============================================================================
