----------------------------- MODULE MCEventHub -----------------------------
(* Ann's devices are shown to Bob, who has none of his own.  Ann has a      *)
(* screen that is a target, a tab that is not, and a polled target.         *)
EXTENDS HubCascade
CONSTANTS ann, bob, tv, phone, s1
MCHousehold == [u \in User |-> IF u = ann THEN {bob} ELSE {}]
MCAsked == {[user |-> ann, session |-> s1, target |-> tv],
            [user |-> ann, session |-> s1, target |-> None],
            [user |-> bob, session |-> None, target |-> None]}
MCDevice == {<<ann, phone>>}
=============================================================================
