-------------------------- MODULE TokenHistoryProofs --------------------------
(***************************************************************************)
(* What becomes of the tokens nobody heard of, and of those issued late,   *)
(* for every number of tabs, tokens, sessions, requests and faults.        *)
(*                                                                         *)
(* Two layers on the invariant of TokenRotationProofs.  `LostInv`: a token *)
(* whose answer is lost, or still under way, is a secret of the server.    *)
(* No tab, storage or request names it, so it is never used, so the token  *)
(* it came from is never taken for stolen.  `LateInv`: a token issued once *)
(* its session was revoked stays live and unused, as any request that      *)
(* presents it began after the revocation and found the session dead.      *)
(***************************************************************************)
EXTENDS TokenRotationProofs

(* The browser holds the token, or a request presents it. *)
Named(j) ==
    \/ store # None /\ store.token = j
    \/ \E t \in Tab : \/ tab[t].token = j
                      \/ tab[t].known # None /\ tab[t].known.token = j
    \/ \E r \in 1 .. Len(requests) : /\ requests[r].step # "over"
                                     /\ requests[r].token = j

Unseen(j) ==
    /\ j \in Issued /\ ~rows[j].used
    /\ rows[j].parent \notin reused /\ ~Named(j)

LostInv ==
    /\ \A i \in reused : i \in Issued /\ rows[i].revoked # "no"
    /\ \A j \in lost : Unseen(j)
    /\ \A r \in 1 .. Len(requests) : requests[r].answer # None =>
         /\ requests[r].step = "answered"
         /\ Unseen(requests[r].answer) /\ requests[r].answer \notin lost
         /\ \A x \in 1 .. Len(requests) :
              requests[x].answer = requests[r].answer => x = r

LateInv ==
    /\ \A i \in late : /\ i \in Issued /\ SessionOf(i) \in ended
                       /\ rows[i].revoked = "no" /\ ~rows[i].used
    /\ \A r \in 1 .. Len(requests) :
         requests[r].step = "asking" /\ requests[r].token \in late => requests[r].dead

HInv == LostInv /\ LateInv

-----------------------------------------------------------------------------
(* Steps that issue nothing and take nothing for stolen.                    *)

(* The rows keep what the layers read of them. *)
Remembers ==
    /\ Len(rows) <= Len(rows')
    /\ \A i \in Issued : /\ rows'[i].session = rows[i].session
                         /\ rows'[i].parent = rows[i].parent
                         /\ rows'[i].used = rows[i].used
                         /\ rows[i].revoked # "no" => rows'[i].revoked # "no"
    /\ \A i \in late : rows'[i].revoked = "no"
    /\ ended \subseteq ended' /\ UNCHANGED <<late, reused>>

(* A request x that is as it was, has nothing to tell, or is over.  *)
Harmless(x) ==
    \/ x \in 1 .. Len(requests) /\ requests'[x] = requests[x]
    \/ /\ requests'[x].answer = None
       /\ requests'[x].step = "asking" /\ requests'[x].token \in late
            => requests'[x].dead

(* A tab heard the token: its request is closed. *)
Heeds(j) ==
    /\ j \notin lost'
    /\ \E x \in 1 .. Len(requests) : requests[x].answer = j /\ requests'[x].answer = None

LEMMA HistoryKept ==
    ASSUME Ties, Ties', HInv, Remembers,
           \A x \in 1 .. Len(requests') : Harmless(x),
           \A j \in Issued : Named(j)' => Named(j) \/ Heeds(j),
           \A j \in lost' : j \in lost \/ \E x \in 1 .. Len(requests) :
                              /\ requests[x].answer = j /\ j # None
                              /\ requests'[x].answer = None,
           Len(requests) <= Len(requests')
    PROVE  HInv'
  <1>1. Issued \subseteq Issued'
    BY DEF Remembers, Issued, Ties, RowsTied
  <1>2. ASSUME NEW j \in Issued, Unseen(j), ~Heeds(j) PROVE Unseen(j)'
    BY <1>1, <1>2 DEF Unseen, Remembers
  <1>3. ASSUME NEW x \in 1 .. Len(requests'), requests'[x].answer # None
        PROVE  /\ x \in 1 .. Len(requests) /\ requests'[x] = requests[x]
               /\ requests[x].answer # None
               /\ Unseen(requests[x].answer) /\ requests[x].answer \notin lost
               /\ \A y \in 1 .. Len(requests) :
                    requests[y].answer = requests[x].answer => y = x
    <2>1. x \in 1 .. Len(requests) /\ requests'[x] = requests[x]
      BY <1>3 DEF Harmless
    <2> QED
      BY <1>3, <2>1 DEF HInv, LostInv
  <1>4. ASSUME NEW x \in 1 .. Len(requests'), requests'[x].answer # None
        PROVE  ~Heeds(requests[x].answer)
    BY <1>3, <1>4 DEF Heeds
  <1>5. ASSUME NEW j \in lost' PROVE Unseen(j)'
    <2>1. Unseen(j)
      BY <1>5 DEF HInv, LostInv
    <2>2. ~Heeds(j)
      BY <1>5 DEF Heeds
    <2> QED
      BY <1>2, <2>1, <2>2 DEF Unseen
  <1>6. ASSUME NEW x \in 1 .. Len(requests'), requests'[x].answer # None
        PROVE  /\ requests'[x].step = "answered"
               /\ Unseen(requests[x].answer)' /\ requests'[x].answer \notin lost'
               /\ requests[x].answer = requests'[x].answer
    <2> DEFINE j == requests[x].answer
    <2>1. Unseen(j) /\ requests'[x] = requests[x] /\ x \in 1 .. Len(requests)
      BY <1>3, <1>6
    <2>2. Unseen(j)'
      <3>1. PICK k : k = j
        OBVIOUS
      <3>2. Unseen(k) /\ ~Heeds(k) /\ k \in Issued
        BY <1>4, <1>6, <2>1, <3>1 DEF Unseen
      <3>3. Unseen(k)'
        BY <1>2, <3>2
      <3> QED
        BY <2>1, <3>1, <3>3 DEF Unseen
    <2>3. j \notin lost'
      BY <1>3, <1>6, <2>1
    <2> QED
      BY <1>6, <2>1, <2>2, <2>3 DEF HInv, LostInv
  <1>7. LostInv'
    <2>1. \A i \in reused' : i \in Issued' /\ rows'[i].revoked # "no"
      BY <1>1 DEF Remembers, HInv, LostInv
    <2> QED
      BY <1>3, <1>5, <1>6, <2>1 DEF LostInv
  <1>8. LateInv'
    <2>1. \A i \in late' : /\ i \in Issued' /\ SessionOf(i)' \in ended'
                           /\ rows'[i].revoked = "no" /\ ~rows'[i].used
      BY <1>1 DEF Remembers, HInv, LateInv, SessionOf
    <2>2. \A x \in 1 .. Len(requests') :
             requests'[x].step = "asking" /\ requests'[x].token \in late'
               => requests'[x].dead
      BY DEF Remembers, HInv, LateInv, Harmless
    <2> QED
      BY <2>1, <2>2 DEF LateInv
  <1> QED
    BY <1>7, <1>8 DEF HInv

-----------------------------------------------------------------------------
(* The steps of the server.                                                 *)

LEMMA SameNames ==
    ASSUME Ties, UNCHANGED browserVars, NEW j \in Issued,
           \A x \in 1 .. Len(requests') :
             requests'[x].step # "over" /\ requests'[x].token = j =>
               /\ x \in 1 .. Len(requests) /\ requests[x].step # "over"
               /\ requests[x].token = j
    PROVE  Named(j)' => Named(j)
  BY DEF Named, browserVars

(* No row, name or history changes but by a request's own state. *)
LEMMA RequestMoves ==
    ASSUME Ties, Ties', HInv, UNCHANGED <<rows, ended, late, reused, lost>>,
           UNCHANGED browserVars, Len(requests') = Len(requests),
           NEW r \in 1 .. Len(requests), requests[r].step # "over",
           \A x \in 1 .. Len(requests) : x # r => requests'[x] = requests[x],
           requests'[r].answer = None,
           requests'[r].step # "over" => requests'[r].token = requests[r].token,
           requests'[r].step = "asking" /\ requests'[r].token \in late
             => requests'[r].dead
    PROVE  HInv'
  <1>1. Remembers
    BY DEF Remembers, HInv, LateInv, Ties, RowsTied
  <1>2. \A x \in 1 .. Len(requests') : Harmless(x)
    BY DEF Harmless
  <1>3. \A j \in Issued : Named(j)' => Named(j)
    BY SameNames
  <1> QED
    BY <1>1, <1>2, <1>3, HistoryKept DEF Ties, RequestsTied

LEMMA RefreshAsksHistory ==
    ASSUME Ties, Ties', HInv, NEW r \in DOMAIN requests, RefreshAsks(r)
    PROVE  HInv'
  <1> DEFINE dead == SessionOf(requests[r].token) \in ended
  <1>1. /\ requests \in Seq(Request) /\ r \in 1 .. Len(requests)
        /\ requests[r] \in Request /\ requests[r].step = "sent"
    BY LenProperties DEF Ties, RequestsTied, RefreshAsks
  <1>2. PICK d \in BOOLEAN : d = dead
    <2>1. CASE dead
      BY <2>1, Zenon
    <2>2. CASE ~dead
      <3>1. FALSE = dead
        BY <2>2
      <3> QED
        BY <3>1, Zenon
    <2> QED
      BY <2>1, <2>2
  <1>3. PICK q : q = [requests[r] EXCEPT !.step = "asking", !.dead = d]
    OBVIOUS
  <1>4. /\ q \in Request /\ q.step = "asking" /\ q.token = requests[r].token
        /\ q.answer = requests[r].answer /\ q.dead = d
    BY <1>1, <1>3, Zenon DEF Request
  <1>5. requests' = [requests EXCEPT ![r] = q]
    BY <1>2, <1>3 DEF RefreshAsks
  <1>6. /\ Len(requests') = Len(requests)
        /\ \A x \in 1 .. Len(requests) :
             requests'[x] = IF x = r THEN q ELSE requests[x]
    BY <1>1, <1>4, <1>5, ExceptSeq
  <1>7. requests[r].answer = None
    BY <1>1 DEF HInv, LostInv
  <1>8. q.token \in late => q.dead
    BY <1>2, <1>4 DEF HInv, LateInv
  <1>9. UNCHANGED <<rows, ended, late, reused, lost>> /\ UNCHANGED browserVars
    BY DEF RefreshAsks, history
  <1> QED
    BY <1>1, <1>4, <1>6, <1>7, <1>8, <1>9, RequestMoves

(* Who listens is told, and a request is otherwise over. *)
LEMMA AnswerIs ==
    ASSUME Ties, NEW r \in 1 .. Len(requests), NEW i \in Token \cup {None},
           Answer(r, i)
    PROVE  /\ requests'[r].answer = IF Heard(r) THEN i ELSE None
           /\ Heard(r) => requests'[r].step = "answered"
  <1> DEFINE heard == [requests[r] EXCEPT !.step = "answered", !.answer = i]
             q == IF Heard(r) THEN heard ELSE Over
  <1>1. requests \in Seq(Request) /\ requests[r] \in Request
    BY DEF Ties, RequestsTied
  <1>2. heard \in Request /\ heard.answer = i /\ heard.step = "answered"
    BY <1>1 DEF Request
  <1>3. requests' = [requests EXCEPT ![r] = q]
    BY DEF Answer
  <1> HIDE DEF heard
  <1>4. q \in Request
    BY <1>2, OverSound
  <1>5. requests'[r] = q
    BY <1>1, <1>3, <1>4, ExceptSeq
  <1> QED
    BY <1>2, <1>5 DEF Over

LEMMA RefusalHistory ==
    ASSUME Ties, Ties', HInv, NEW r \in 1 .. Len(requests),
           requests[r].step \in {"asking", "revoking"}, Answer(r, None),
           UNCHANGED <<rows, ended, late, reused, lost>>, UNCHANGED browserVars
    PROVE  HInv'
  <1>1. /\ Len(requests') = Len(requests)
        /\ \A x \in 1 .. Len(requests) : x # r => requests'[x] = requests[x]
        /\ \/ requests'[r].step = "over"
           \/ /\ requests'[r].step = "answered"
              /\ requests'[r].token = requests[r].token
    BY AnswerTells
  <1>2. requests'[r].answer = None
    BY AnswerIs
  <1>3. /\ requests[r].step # "over" /\ requests'[r].step # "asking"
        /\ requests'[r].step # "over" => requests'[r].token = requests[r].token
    BY <1>1
  <1> QED
    BY <1>1, <1>2, <1>3, RequestMoves

LEMMA ReuseAnsweredHistory ==
    ASSUME Ties, Ties', HInv, NEW r \in DOMAIN requests, ReuseAnswered(r)
    PROVE  HInv'
  <1>1. r \in 1 .. Len(requests)
    BY LenProperties DEF Ties, RequestsTied
  <1> QED
    BY <1>1, RefusalHistory DEF ReuseAnswered, history

(* A token taken for stolen: all that came from it was used. *)
LEMMA ReuseHistory ==
    ASSUME Ties, Ties', HInv, NEW r \in 1 .. Len(requests),
           requests[r].step = "asking", ~Refused(r),
           rows[requests[r].token].revoked # "no",
           requests' = [requests EXCEPT ![r].step = "revoking"],
           reused' \in {reused, reused \cup {requests[r].token}},
           UNCHANGED <<rows, ended, lost, late>>, UNCHANGED browserVars
    PROVE  HInv'
  <1>1. PICK i : i = requests[r].token
    OBVIOUS
  <1>2. /\ requests \in Seq(Request) /\ requests[r] \in Request /\ i \in Issued
        /\ rows \in Seq(Row) /\ DOMAIN rows = Issued
    BY <1>1, LenProperties DEF Ties, RequestsTied, RequestSound, RowsTied, Issued
  <1>3. rows[i].revoked = "old" /\ \A j \in Issued : rows[j].parent = i => rows[j].used
    <2>1. rows[i] \in Row /\ rows[i].revoked # "no"
      BY <1>1, <1>2 DEF Issued
    <2>2. rows[i].revoked \in {"grace", "old"}
      BY <2>1 DEF Row
    <2>3. ~LostPair(i)
      BY <1>1 DEF Refused
    <2> QED
      BY <1>2, <2>2, <2>3 DEF LostPair, Successors
  <1>4. PICK q : q = [requests[r] EXCEPT !.step = "revoking"]
    OBVIOUS
  <1>5. /\ q \in Request /\ q.step = "revoking" /\ q.token = i
        /\ q.answer = requests[r].answer
    BY <1>1, <1>2, <1>4, Zenon DEF Request
  <1>6. requests' = [requests EXCEPT ![r] = q]
    BY <1>4
  <1>7. /\ Len(requests') = Len(requests)
        /\ \A x \in 1 .. Len(requests) :
             requests'[x] = IF x = r THEN q ELSE requests[x]
    BY <1>2, <1>5, <1>6, ExceptSeq
  <1>8. requests[r].answer = None
    BY DEF HInv, LostInv
  <1>9. \A j \in Issued : Named(j)' => Named(j)
    BY <1>1, <1>7, <1>5, SameNames
  <1>10. ASSUME NEW j, Unseen(j) PROVE Unseen(j)'
    <2>1. rows[j].parent # i
      BY <1>3, <1>10 DEF Unseen
    <2> QED
      BY <1>1, <1>9, <1>10, <2>1 DEF Unseen, Issued
  <1>11. \A x \in 1 .. Len(requests') :
           requests'[x].answer # None => x # r /\ requests'[x] = requests[x]
    BY <1>5, <1>7, <1>8
  <1>12. LostInv'
    <2>1. \A k \in reused' : k \in Issued' /\ rows'[k].revoked # "no"
      BY <1>1, <1>2 DEF HInv, LostInv, Issued
    <2>2. \A j \in lost' : Unseen(j)'
      BY <1>10 DEF HInv, LostInv
    <2>3. ASSUME NEW x \in 1 .. Len(requests'), requests'[x].answer # None
          PROVE  /\ requests'[x].step = "answered"
                 /\ Unseen(requests[x].answer)' /\ requests'[x].answer \notin lost'
                 /\ \A y \in 1 .. Len(requests') :
                      requests'[y].answer = requests'[x].answer => y = x
      <3>1. requests'[x] = requests[x] /\ x \in 1 .. Len(requests)
        BY <1>7, <1>11, <2>3
      <3>2. PICK a : a = requests[x].answer
        OBVIOUS
      <3>3. Unseen(a) /\ a # None /\ a \notin lost /\ requests[x].step = "answered"
        BY <2>3, <3>1, <3>2 DEF HInv, LostInv
      <3>4. Unseen(a)'
        BY <1>10, <3>3
      <3>5. \A y \in 1 .. Len(requests') : requests'[y].answer = a => y = x
        BY <1>7, <1>11, <3>1, <3>2, <3>3 DEF HInv, LostInv
      <3> QED
        BY <3>1, <3>2, <3>3, <3>4, <3>5 DEF Unseen
    <2> QED
      BY <2>1, <2>2, <2>3 DEF LostInv
  <1>13. LateInv'
    BY <1>5, <1>7 DEF HInv, LateInv, Issued, SessionOf
  <1> QED
    BY <1>12, <1>13 DEF HInv


(* What a rotation makes of the rows. *)
LEMMA RotateRemembers ==
    ASSUME Ties, NEW r \in 1 .. Len(requests), requests[r].step = "asking", Rotate(r)
    PROVE  \A j \in Issued : /\ rows'[j].parent = rows[j].parent
                             /\ j # requests[r].token => rows'[j] = rows[j]
  <1> DEFINE i == requests[r].token
             old == [rows[i] EXCEPT !.revoked = "grace", !.used = TRUE]
             new == [session |-> SessionOf(i), parent |-> i,
                     used |-> FALSE, revoked |-> "no"]
             q == [rows EXCEPT ![i] = old]
  <1>1. rows \in Seq(Row) /\ Len(rows) \in Nat /\ i \in Issued
    BY DEF Ties, RowsTied, RequestsTied, RequestSound
  <1>2. rows[i] \in Row
    BY <1>1 DEF Issued
  <1>3. old \in Row /\ old.parent = rows[i].parent
    BY <1>2 DEF Row
  <1>4. i \in Token /\ SessionOf(i) \in Session
    <2>1. Len(rows) <= MaxToken
      BY DEF Ties, RowsTied
    <2> QED
      BY <1>1, <1>2, <2>1, RotationAssumption DEF Row, SessionOf, Issued, Token
  <1>5. new \in Row
    BY <1>4 DEF Row
  <1>6. rows' = Append(q, new)
    BY DEF Rotate
  <1> HIDE DEF old, new
  <1>7. /\ q \in Seq(Row) /\ Len(q) = Len(rows)
        /\ \A j \in Issued : q[j] = IF j = i THEN old ELSE rows[j]
    BY <1>1, <1>3, ExceptSeq DEF Issued
  <1> HIDE DEF q
  <1>8. \A j \in Issued : rows'[j] = q[j]
    BY <1>1, <1>5, <1>6, <1>7, AppendProperties DEF Issued
  <1> QED
    BY <1>3, <1>7, <1>8

(* The new token is told to the tab that listens, or is lost; it is late if *)
(* its session was revoked since the request began.                         *)
LEMMA RotateHistory ==
    ASSUME Ties, Ties', HInv, NEW r \in 1 .. Len(requests),
           requests[r].step = "asking", ~Refused(r), Rotate(r),
           UNCHANGED <<sessions, ended, reused>>, UNCHANGED browserVars
    PROVE  HInv'
  <1>1. PICK n : n = Len(rows) + 1
    OBVIOUS
  <1>2. PICK i : i = requests[r].token
    OBVIOUS
  <1>3. /\ Len(rows') = n /\ n \in Token
        /\ rows'[n] = [session |-> SessionOf(i), parent |-> i,
                       used |-> FALSE, revoked |-> "no"]
        /\ rows[i].revoked = "no" /\ i \in Issued
    BY <1>1, <1>2, RotateGrows
  <1>4. \A j \in Issued : /\ rows'[j].parent = rows[j].parent
                          /\ rows'[j].session = rows[j].session
                          /\ j # i => rows'[j] = rows[j]
                          /\ j = i => rows'[j].revoked = "grace"
    BY <1>2, RotateGrows, RotateRemembers
  <1>5. /\ n \notin Issued /\ Issued' = Issued \cup {n} /\ n # None
        /\ n \in Token \cup {None}
    <2>1. Len(rows) \in Nat
      BY DEF Ties, RowsTied
    <2> QED
      BY <1>1, <1>3, <2>1, RotationAssumption DEF Issued
  <1>6. /\ Answer(r, n)
        /\ lost' = IF Heard(r) THEN lost ELSE lost \cup {n}
        /\ late' = IF SessionOf(i) \in ended THEN late \cup {n} ELSE late
    BY <1>1, <1>2 DEF Rotate, Issues
  <1>7. /\ Len(requests') = Len(requests)
        /\ \A x \in 1 .. Len(requests) : x # r => requests'[x] = requests[x]
        /\ \/ requests'[r].step = "over"
           \/ requests'[r].step = "answered" /\ requests'[r].token = i
    BY <1>2, <1>5, <1>6, AnswerTells
  <1>8. /\ requests'[r].answer = IF Heard(r) THEN n ELSE None
        /\ Heard(r) => requests'[r].step = "answered"
    BY <1>5, <1>6, AnswerIs
  <1>9. \A j \in Issued : Named(j)' => Named(j)
    BY <1>2, <1>7, SameNames
  <1>10. ASSUME NEW j, Unseen(j) PROVE Unseen(j)'
    <2>1. j # i
      BY <1>2, <1>10 DEF Unseen, Named
    <2> QED
      BY <1>4, <1>5, <1>9, <1>10, <2>1 DEF Unseen
  <1>11. ~Named(n)'
    <2>1. ~Named(n)
      <3>1. store # None => store.token # n
        BY <1>5 DEF Ties, BrowserTied
      <3>2. ASSUME NEW t \in Tab
            PROVE  tab[t].token # n /\ (tab[t].known # None => tab[t].known.token # n)
        BY <1>5, TabFacts DEF TabSound
      <3>3. ASSUME NEW x \in 1 .. Len(requests), requests[x].step # "over"
            PROVE  requests[x].token # n
        BY <1>5, <3>3 DEF Ties, RequestsTied, RequestSound
      <3> QED
        BY <3>1, <3>2, <3>3 DEF Named
    <2> QED
      BY <1>3, <1>5, <1>7, <2>1 DEF Named, browserVars
  <1>12. Unseen(n)'
    BY <1>3, <1>5, <1>11 DEF Unseen, HInv, LostInv
  <1>13. \A x \in 1 .. Len(requests) : requests[x].answer # None =>
           x # r /\ requests[x].answer # n
    BY <1>5 DEF HInv, LostInv, Unseen
  <1>14. \A j \in lost \cup late : j \in Issued /\ j # n
    BY <1>5 DEF HInv, LostInv, LateInv, Unseen
  <1>15. LostInv'
    <2>1. \A k \in reused' : k \in Issued' /\ rows'[k].revoked # "no"
      BY <1>3, <1>4, <1>5 DEF HInv, LostInv
    <2>2. \A j \in lost' : Unseen(j)'
      BY <1>6, <1>10, <1>12 DEF HInv, LostInv
    <2>3. ASSUME NEW x \in 1 .. Len(requests'), requests'[x].answer # None
          PROVE  /\ requests'[x].step = "answered"
                 /\ Unseen(requests[x].answer)' /\ requests'[x].answer \notin lost'
                 /\ \A y \in 1 .. Len(requests') :
                      requests'[y].answer = requests'[x].answer => y = x
      <3>1. CASE x = r
        <4>1. Heard(r) /\ requests'[r].answer = n
          BY <1>8, <2>3, <3>1
        <4>2. requests'[r].step = "answered"
          BY <1>8, <4>1
        <4>3. n \notin lost'
          BY <1>6, <1>14, <4>1
        <4>4. \A y \in 1 .. Len(requests') : requests'[y].answer = n => y = r
          BY <1>5, <1>7, <1>13
        <4> QED
          BY <1>12, <3>1, <4>1, <4>2, <4>3, <4>4 DEF Unseen
      <3>2. CASE x # r
        <4>1. requests'[x] = requests[x] /\ x \in 1 .. Len(requests)
          BY <1>7, <3>2
        <4>2. PICK a : a = requests[x].answer
          OBVIOUS
        <4>3. Unseen(a) /\ a # None /\ a \notin lost /\ requests[x].step = "answered"
          BY <2>3, <4>1, <4>2 DEF HInv, LostInv
        <4>4. Unseen(a)'
          BY <1>10, <4>3
        <4>5. a # n /\ a \notin lost'
          BY <1>6, <1>13, <2>3, <4>1, <4>2, <4>3
        <4>6. \A y \in 1 .. Len(requests') : requests'[y].answer = a => y = x
          BY <1>7, <1>8, <4>1, <4>2, <4>3, <4>5 DEF HInv, LostInv
        <4> QED
          BY <4>1, <4>2, <4>3, <4>4, <4>5, <4>6 DEF Unseen
      <3> QED
        BY <3>1, <3>2
    <2> QED
      BY <2>1, <2>2, <2>3 DEF LostInv
  <1>16. LateInv'
    <2>1. i \notin late
      BY <1>2 DEF Refused, HInv, LateInv
    <2>2. ASSUME NEW j \in late' PROVE
            /\ j \in Issued' /\ SessionOf(j)' \in ended'
            /\ rows'[j].revoked = "no" /\ ~rows'[j].used
      BY <1>3, <1>4, <1>5, <1>6, <2>1 DEF HInv, LateInv, SessionOf
    <2>3. ASSUME NEW x \in 1 .. Len(requests'), requests'[x].step = "asking",
                 requests'[x].token \in late'
          PROVE  requests'[x].dead
      <3>1. x # r /\ requests'[x] = requests[x]
        BY <1>7, <2>3
      <3>2. requests[x].token \in Issued
        BY <1>7, <2>3, <3>1 DEF Ties, RequestsTied, RequestSound
      <3> QED
        BY <1>5, <1>6, <1>7, <2>3, <3>1, <3>2 DEF HInv, LateInv
    <2> QED
      BY <2>2, <2>3 DEF LateInv
  <1> QED
    BY <1>15, <1>16 DEF HInv

LEMMA RefreshDecidesHistory ==
    ASSUME Ties, Ties', HInv, NEW r \in DOMAIN requests, RefreshDecides(r)
    PROVE  HInv'
  <1>1. r \in 1 .. Len(requests) /\ requests[r].step = "asking"
    BY LenProperties DEF Ties, RequestsTied, RefreshDecides
  <1>2. UNCHANGED browserVars /\ UNCHANGED <<sessions, ended>>
    BY DEF RefreshDecides
  <1>3. CASE Answer(r, None) /\ UNCHANGED <<rows, lost, late, reused>>
    BY <1>1, <1>2, <1>3, RefusalHistory
  <1>4. CASE ~Refused(r) /\ Rotate(r) /\ UNCHANGED reused
    BY <1>1, <1>2, <1>4, RotateHistory
  <1>5. CASE /\ ~Refused(r) /\ rows[requests[r].token].revoked # "no"
             /\ requests' = [requests EXCEPT ![r].step = "revoking"]
             /\ reused' \in {reused, reused \cup {requests[r].token}}
             /\ UNCHANGED <<rows, lost, late>>
    BY <1>1, <1>2, <1>5, ReuseHistory
  <1> QED
    BY <1>3, <1>4, <1>5 DEF RefreshDecides


LEMMA RevokeStartsHistory ==
    ASSUME Ties, Ties', HInv, NEW s \in Session, RevokeStarts(s)
    PROVE  HInv'
  <1>1. UNCHANGED <<rows, ended, requests, late, reused, lost>> /\ UNCHANGED browserVars
    BY DEF RevokeStarts, history
  <1>2. Remembers
    BY <1>1 DEF Remembers, HInv, LateInv, Ties, RowsTied
  <1>3. \A x \in 1 .. Len(requests') : Harmless(x)
    BY <1>1 DEF Harmless
  <1>4. \A j \in Issued : Named(j)' => Named(j)
    BY <1>1, SameNames
  <1> QED
    BY <1>1, <1>2, <1>3, <1>4, HistoryKept DEF Ties, RequestsTied

(* A step that only marks rows as revoked, and none that came late. *)
LEMMA RowsMarked ==
    ASSUME Ties, Ties', HInv, Remembers, UNCHANGED <<requests, lost>>,
           UNCHANGED browserVars
    PROVE  HInv'
  <1>1. \A x \in 1 .. Len(requests') : Harmless(x)
    BY DEF Harmless
  <1>2. \A j \in Issued : Named(j)' => Named(j)
    BY SameNames
  <1> QED
    BY <1>1, <1>2, HistoryKept DEF Ties, RequestsTied

LEMMA RevokeEndsHistory ==
    ASSUME Ties, Ties', HInv, NEW s \in Session, RevokeEnds(s)
    PROVE  HInv'
  <1>1. /\ Len(rows') = Len(rows)
        /\ \A i \in Issued :
             /\ rows'[i].session = rows[i].session
             /\ rows'[i] = rows[i] \/ SessionOf(i) = s
    BY RevokeEndsRows
  <1>2. \A i \in Issued :
          /\ rows'[i].parent = rows[i].parent /\ rows'[i].used = rows[i].used
          /\ rows[i].revoked # "no" => rows'[i] = rows[i]
    <2>1. ASSUME NEW i \in Issued
          PROVE  /\ rows'[i].parent = rows[i].parent /\ rows'[i].used = rows[i].used
                 /\ rows[i].revoked # "no" => rows'[i] = rows[i]
      <3>1. DOMAIN rows = Issued /\ rows[i] \in Row
        BY <2>1, LenProperties DEF Issued, Ties, RowsTied
      <3>2. rows'[i] \in {rows[i], [rows[i] EXCEPT !.revoked = "grace"]}
        BY <3>1 DEF RevokeEnds
      <3>3. rows[i].revoked # "no" => rows'[i] = rows[i]
        BY <3>1 DEF RevokeEnds
      <3> QED
        BY <3>1, <3>2, <3>3 DEF Row
    <2> QED
      BY <2>1
  <1>3. s \notin ended /\ ended' = ended \cup {s}
    BY DEF RevokeEnds, Ties, RevokesTied
  <1>4. \A i \in late : rows'[i].revoked = "no"
    BY <1>1, <1>3 DEF HInv, LateInv
  <1>5. UNCHANGED <<requests, late, reused, lost>> /\ UNCHANGED browserVars
    BY DEF RevokeEnds, history
  <1>6. Remembers
    BY <1>1, <1>2, <1>3, <1>4, <1>5 DEF Remembers, Ties, RowsTied
  <1> QED
    BY <1>5, <1>6, RowsMarked

LEMMA GraceEndsHistory ==
    ASSUME Ties, Ties', HInv, NEW i \in DOMAIN rows, GraceEnds(i)
    PROVE  HInv'
  <1>1. rows \in Seq(Row) /\ Len(rows) \in Nat /\ DOMAIN rows = Issued
    BY LenProperties DEF Ties, RowsTied, Issued
  <1>2. PICK old : old = [rows[i] EXCEPT !.revoked = "old"]
    OBVIOUS
  <1>3. rows' = [rows EXCEPT ![i] = old] /\ rows[i].revoked = "grace"
    BY <1>2 DEF GraceEnds
  <1>4. /\ old.parent = rows[i].parent /\ old.used = rows[i].used
        /\ old.session = rows[i].session /\ old.revoked = "old" /\ old \in Row
    <2>1. rows[i] \in Row
      BY <1>1 DEF Issued
    <2> QED
      BY <1>2, <2>1 DEF Row
  <1>5. /\ Len(rows') = Len(rows)
        /\ \A j \in Issued : rows'[j] = IF j = i THEN old ELSE rows[j]
    BY <1>1, <1>3, <1>4, ExceptSeq DEF Issued
  <1>6. UNCHANGED <<ended, requests, late, reused, lost>> /\ UNCHANGED browserVars
    BY DEF GraceEnds, history
  <1>7. \A j \in late : rows'[j].revoked = "no"
    BY <1>3, <1>5 DEF HInv, LateInv
  <1>8. Remembers
    BY <1>1, <1>3, <1>4, <1>5, <1>6, <1>7 DEF Remembers
  <1> QED
    BY <1>6, <1>8, RowsMarked

-----------------------------------------------------------------------------
(* The steps of a tab.                                                      *)

(* What a tab does to the requests: nothing, a new one for a token it has,  *)
(* or the end of its own.                                                   *)
Sends ==
    /\ Len(requests') = Len(requests) + 1
    /\ \A x \in 1 .. Len(requests) : requests'[x] = requests[x]
    /\ LET q == requests'[Len(requests) + 1]
       IN q.step = "sent" /\ q.answer = None /\ Named(q.token)

Ends(c) ==
    /\ c \in 1 .. Len(requests) /\ Len(requests') = Len(requests)
    /\ \A x \in 1 .. Len(requests) : requests'[x] = IF x = c THEN Over ELSE requests[x]

(* A name that the tab leaves was there, or is the answer it just heard. *)
Known(j) == Named(j) \/ Heeds(j)

LEMMA TabHistory ==
    ASSUME Ties, Ties', HInv, UNCHANGED <<rows, ended, late, reused>>,
           NEW t \in Tab, NEW m \in Memory, tab' = [tab EXCEPT ![t] = m],
           requests' = requests \/ Sends \/ (\E c : Ends(c)),
           \A j \in Issued : /\ store' # None /\ store'.token = j => Known(j)
                             /\ m.token = j => Known(j)
                             /\ m.known # None /\ m.known.token = j => Known(j),
           \A j \in lost' : j \in lost \/ \E x \in 1 .. Len(requests) :
                              /\ requests[x].answer = j /\ j # None
                              /\ requests'[x].answer = None
    PROVE  HInv'
  <1>1. Remembers
    BY DEF Remembers, HInv, LateInv, Ties, RowsTied
  <1>2. Len(requests) \in Nat
    BY DEF Ties, RequestsTied
  <1>3. \A x \in 1 .. Len(requests') : Harmless(x)
    BY <1>2 DEF Harmless, Sends, Ends, Over
  <1>4. ASSUME NEW j \in Issued, Named(j)' PROVE Named(j) \/ Heeds(j)
    <2>1. CASE store' # None /\ store'.token = j
      BY <2>1 DEF Known
    <2>2. ASSUME NEW u \in Tab, \/ tab'[u].token = j
                                \/ tab'[u].known # None /\ tab'[u].known.token = j
          PROVE  Named(j) \/ Heeds(j)
      <3>1. CASE u = t
        BY <2>2, <3>1, TabFacts DEF Known
      <3>2. CASE u # t
        <4>1. tab'[u] = tab[u]
          BY <3>2, TabFacts
        <4> QED
          BY <2>2, <4>1 DEF Named
      <3> QED
        BY <3>1, <3>2
    <2>3. ASSUME NEW x \in 1 .. Len(requests'), requests'[x].step # "over",
                 requests'[x].token = j
          PROVE  Named(j) \/ Heeds(j)
      <3>1. CASE x \in 1 .. Len(requests) /\ requests'[x] = requests[x]
        BY <2>3, <3>1 DEF Named
      <3>2. CASE Sends /\ x = Len(requests) + 1
        BY <2>3, <3>2 DEF Sends
      <3> QED
        BY <1>2, <2>3, <3>1, <3>2 DEF Sends, Ends, Over
    <2> QED
      BY <1>4, <2>1, <2>2, <2>3 DEF Named
  <1> QED
    BY <1>1, <1>2, <1>3, <1>4, HistoryKept DEF Sends, Ends


(* A tab that hears nothing: it has what it had, or what is stored. *)
LEMMA QuietHistory ==
    ASSUME Ties, Ties', HInv, UNCHANGED <<rows, ended, late, reused>>,
           NEW t \in Tab, NEW m \in Memory, tab' = [tab EXCEPT ![t] = m],
           requests' = requests \/ Sends \/ (\E c : Ends(c)),
           store' \in {None, store},
           \/ m.token \in {None, tab[t].token}
           \/ store # None /\ m.token = store.token,
           m.known \in {None, store, tab[t].known},
           \A j \in lost' : j \in lost \/ \E x \in 1 .. Len(requests) :
                              /\ requests[x].answer = j /\ j # None
                              /\ requests'[x].answer = None
    PROVE  HInv'
  <1>1. ASSUME NEW j \in Issued
        PROVE  /\ store' # None /\ store'.token = j => Known(j)
               /\ m.token = j => Known(j)
               /\ m.known # None /\ m.known.token = j => Known(j)
    <2>1. j # None
      BY RotationAssumption DEF Issued, Ties, RowsTied
    <2>2. store # None /\ store.token = j => Known(j)
      BY DEF Known, Named
    <2>3. tab[t].token = j => Known(j)
      BY DEF Known, Named
    <2>4. tab[t].known # None /\ tab[t].known.token = j => Known(j)
      BY DEF Known, Named
    <2> QED
      BY <2>1, <2>2, <2>3, <2>4
  <1> QED
    BY <1>1, TabHistory

LEMMA CloseEnds ==
    ASSUME Ties, NEW t \in Tab, holder = t, Closes(t),
           UNCHANGED <<rows, sessions, ended>>
    PROVE  Ends(tab[t].at)
  <1>1. Grows
    BY GrowsWithoutRows DEF Ties
  <1>2. requests' = [requests EXCEPT ![tab[t].at] = Over]
    BY DEF Closes
  <1> QED
    BY <1>1, <1>2, ClosesKeeps DEF Ends

LEMMA RefreshesHistory ==
    ASSUME Ties, Ties', HInv, NEW t \in Tab, Refreshes(t)
    PROVE  HInv'
  <1>1. PICK m \in Memory :
          /\ tab' = [tab EXCEPT ![t] = m]
          /\ m.token = tab[t].token /\ m.known = tab[t].known
    BY RefreshesReturns
  <1>2. /\ UNCHANGED <<rows, ended, late, reused, lost, requests, store>>
    BY DEF Refreshes, serverVars, history
  <1> QED
    BY <1>1, <1>2, QuietHistory

LEMMA AcquiresHistory ==
    ASSUME Ties, Ties', HInv, NEW t \in Tab, Acquires(t)
    PROVE  HInv'
  <1> DEFINE stored == active /\ store # None
             newer == stored /\ (store.version > tab[t].version \/ tab[t].token = None)
  <1>1. PICK m \in Memory :
          /\ tab' = [tab EXCEPT ![t] = m]
          /\ m.known \in {None, store}
          /\ \/ /\ stored /\ m.token = store.token
                /\ UNCHANGED requests
             \/ /\ m.token = tab[t].token /\ UNCHANGED requests
             \/ /\ m.token = tab[t].token
                /\ \E i \in Token :
                     /\ \/ newer /\ i = store.token
                        \/ ~newer /\ i = tab[t].token
                     /\ requests' = Append(requests,
                           [step |-> "sent", token |-> i, dead |-> FALSE,
                            answer |-> None])
    BY AcquiresReturns
  <1>2. UNCHANGED <<rows, ended, late, reused, lost, store>>
    BY DEF Acquires, history
  <1>3. ASSUME NEW i \in Token,
               \/ newer /\ i = store.token
               \/ ~newer /\ i = tab[t].token,
               requests' = Append(requests, [step |-> "sent", token |-> i,
                                             dead |-> FALSE, answer |-> None])
        PROVE  Sends
    <2>1. PICK q : q = [step |-> "sent", token |-> i, dead |-> FALSE, answer |-> None]
      OBVIOUS
    <2>2. q \in Request /\ q.step = "sent" /\ q.token = i /\ q.answer = None
      BY <2>1 DEF Request
    <2>3. requests \in Seq(Request)
      BY DEF Ties, RequestsTied
    <2>4. /\ Len(requests') = Len(requests) + 1
          /\ \A x \in 1 .. Len(requests) : requests'[x] = requests[x]
          /\ requests'[Len(requests) + 1] = q
      BY <1>3, <2>1, <2>2, <2>3, AppendProperties
    <2>5. Named(i)
      BY <1>3 DEF Named
    <2> QED
      BY <2>2, <2>4, <2>5 DEF Sends
  <1>4. requests' = requests \/ Sends
    BY <1>1, <1>3
  <1>5. m.token = tab[t].token \/ (store # None /\ m.token = store.token)
    BY <1>1
  <1> QED
    BY <1>1, <1>2, <1>4, <1>5, QuietHistory

LEMMA IsRefusedHistory ==
    ASSUME Ties, Ties', HInv, NEW t \in Tab, IsRefused(t)
    PROVE  HInv'
  <1>1. holder = t /\ store' \in {None, store}
    BY IsRefusedReturns
  <1>2. PICK m \in Memory :
          /\ tab' = [tab EXCEPT ![t] = m]
          /\ m.known \in {None, store, tab[t].known}
          /\ \/ m.token = tab[t].token
             \/ store # None /\ m.token = store.token
          /\ Closes(t) \/ UNCHANGED requests
    BY IsRefusedReturns
  <1>3. UNCHANGED <<rows, sessions, ended, late, reused, lost>>
    BY DEF IsRefused, history
  <1>4. requests' = requests \/ \E c : Ends(c)
    BY <1>1, <1>2, <1>3, CloseEnds
  <1> QED
    BY <1>1, <1>2, <1>3, <1>4, QuietHistory

LEMMA DropsHistory ==
    ASSUME Ties, Ties', HInv, NEW t \in Tab, Drops(t)
    PROVE  HInv'
  <1>1. tab[t] \in Memory /\ holder = t /\ Closes(t)
    BY TabFacts DEF Drops, TabSound
  <1>2. PICK k : k = Rest(tab[t])
    OBVIOUS
  <1>3. k \in Memory /\ k.known = tab[t].known /\ Dropped(t, k)
    BY <1>1, <1>2, RestReturns DEF Drops
  <1>4. store' \in {None, store}
    BY <1>3, DroppedReturns
  <1>5. PICK m \in Memory :
          /\ tab' = [tab EXCEPT ![t] = m]
          /\ m.token = None /\ m.known \in {None, k.known}
    BY <1>3, DroppedReturns
  <1>6. UNCHANGED <<rows, sessions, ended, late, reused, lost>>
    BY DEF Drops, history
  <1>7. \E c : Ends(c)
    BY <1>1, <1>6, CloseEnds
  <1> QED
    BY <1>3, <1>4, <1>5, <1>6, <1>7, QuietHistory


(* The token of an answer that arrives is the tab's from now on. *)
LEMMA RotatedHistory ==
    ASSUME Ties, Ties', HInv, NEW t \in Tab, NEW saved \in BOOLEAN, Rotated(t, saved)
    PROVE  HInv'
  <1>1. PICK n : n = Request_(t).answer
    OBVIOUS
  <1>2. /\ holder = t /\ n \in Issued
        /\ store' = IF tab[t].target /\ saved THEN Updated(n) ELSE store
    BY <1>1, RotatedReturns
  <1>3. PICK m \in Memory :
          /\ tab' = [tab EXCEPT ![t] = m]
          /\ m.known = tab[t].known \/ (m.known # None => m.known.token = n)
          /\ m.token = IF tab[t].moved THEN tab[t].token ELSE n
    BY <1>1, RotatedReturns
  <1>4. UNCHANGED <<rows, sessions, ended, late, reused, lost>> /\ Closes(t)
    BY DEF Rotated
  <1>5. Ends(tab[t].at)
    BY <1>2, <1>4, CloseEnds
  <1>6. n # None
    BY <1>2, RotationAssumption DEF Issued, Ties, RowsTied
  <1>7. n \notin lost'
    BY <1>1, <1>4, <1>5, <1>6 DEF HInv, LostInv, Ends, Request_
  <1>8. Known(n)
    BY <1>1, <1>5, <1>7 DEF Known, Heeds, Ends, Request_, Over
  <1>9. ASSUME NEW j \in Issued
        PROVE  /\ store' # None /\ store'.token = j => Known(j)
               /\ m.token = j => Known(j)
               /\ m.known # None /\ m.known.token = j => Known(j)
    <2>1. store # None /\ store.token = j => Known(j)
      BY DEF Known, Named
    <2>2. tab[t].token = j => Known(j)
      BY DEF Known, Named
    <2>3. tab[t].known # None /\ tab[t].known.token = j => Known(j)
      BY DEF Known, Named
    <2>4. Updated(n) = None \/ Updated(n).token = n
      BY DEF Updated
    <2> QED
      BY <1>2, <1>3, <1>8, <2>1, <2>2, <2>3, <2>4
  <1> QED
    BY <1>3, <1>4, <1>5, <1>9, TabHistory

LEMMA LogsOutHistory ==
    ASSUME Ties, Ties', HInv, NEW t \in Tab, NEW heard \in BOOLEAN, LogsOut(t, heard)
    PROVE  HInv'
  <1>1. PICK m \in Memory :
          /\ tab' = [tab EXCEPT ![t] = m]
          /\ m.token = tab[t].token /\ m.known = tab[t].known
    BY LogsOutReturns
  <1>2. UNCHANGED <<rows, ended, late, reused, lost, requests, store>>
    BY DEF LogsOut
  <1> QED
    BY <1>1, <1>2, QuietHistory

LEMMA SetsActiveHistory ==
    ASSUME Ties, Ties', HInv, NEW t \in Tab, SetsActive(t)
    PROVE  HInv'
  <1>1. PICK m \in Memory :
          /\ tab' = [tab EXCEPT ![t] = m]
          /\ m.token = tab[t].token /\ m.known = store
    BY SetsActiveReturns
  <1>2. UNCHANGED <<rows, ended, late, reused, lost, requests, store>>
    BY DEF SetsActive, serverVars, history
  <1> QED
    BY <1>1, <1>2, QuietHistory

LEMMA LeavesHistory ==
    ASSUME Ties, Ties', HInv, NEW t \in Tab, Leaves(t)
    PROVE  HInv'
  <1>1. store' \in {None, store}
    BY LeavesReturns
  <1>2. PICK m \in Memory :
          /\ tab' = [tab EXCEPT ![t] = m]
          /\ m.token = None /\ m.known \in {None, tab[t].known}
    BY LeavesReturns
  <1>3. UNCHANGED <<rows, ended, late, reused, lost, requests>>
    BY DEF Leaves, serverVars, history
  <1> QED
    BY <1>1, <1>2, <1>3, QuietHistory

LEMMA IgnoresHistory ==
    ASSUME Ties, Ties', HInv, NEW t \in Tab, Ignores(t)
    PROVE  HInv'
  <1>1. tab[t] \in Memory /\ tab' = [tab EXCEPT ![t] = tab[t]]
    BY TabFacts DEF Ignores
  <1>2. UNCHANGED <<rows, ended, late, reused, lost, requests, store>>
    BY DEF Ignores, serverVars, history
  <1> QED
    BY <1>1, <1>2, QuietHistory

(* The tokens lost with a request are those of its answer, if it has one. *)
LEMMA LosesHistory ==
    ASSUME Ties, Ties', HInv, NEW t \in Tab, Loses(t)
    PROVE  HInv'
  <1>1. /\ tab[t] \in Memory /\ holder = t /\ tab[t].step = "sent"
        /\ tab[t].at \in 1 .. Len(requests) /\ holder' = None
    BY TabFacts DEF Loses, TabSound
  <1>2. PICK m \in Memory : tab' = [tab EXCEPT ![t] = m] /\ m = Rest(tab[t])
    BY <1>1, RestReturns DEF Loses
  <1>3. m.token = tab[t].token /\ m.known = tab[t].known
    BY <1>1, <1>2, RestReturns
  <1>4. /\ UNCHANGED <<rows, sessions, ended, late, reused, store>>
        /\ lost' = lost \cup UnheardToken(t)
    BY DEF Loses
  <1>5. CASE requests[tab[t].at].step \in {"sent", "answered"}
    <2>1. requests' = [requests EXCEPT ![tab[t].at] = Over]
      BY <1>5 DEF Loses
    <2>2. Ends(tab[t].at)
      BY <1>1, <2>1, CloseEnds, <1>4 DEF Closes
    <2>3. \A j \in lost' : j \in lost \/ \E x \in 1 .. Len(requests) :
                              /\ requests[x].answer = j /\ j # None
                              /\ requests'[x].answer = None
      BY <1>1, <1>4, <2>2 DEF UnheardToken, Ends, Over, Request_
    <2> QED
      BY <1>2, <1>3, <1>4, <2>2, <2>3, QuietHistory
  <1>6. CASE requests[tab[t].at].step \notin {"sent", "answered"}
    <2>1. requests' = [requests EXCEPT ![tab[t].at] = requests[tab[t].at]]
      BY <1>6 DEF Loses
    <2>2. requests' = requests
      BY <2>1, TabFacts
    <2>3. lost' = lost
      BY <1>4, <1>6 DEF UnheardToken, Request_
    <2> QED
      BY <1>2, <1>3, <1>4, <2>2, <2>3, QuietHistory
  <1> QED
    BY <1>5, <1>6

LEMMA ReloadsHistory ==
    ASSUME Ties, Ties', HInv, NEW t \in Tab, Reloads(t)
    PROVE  HInv'
  <1>1. PICK m \in Memory :
          /\ tab' = [tab EXCEPT ![t] = m] /\ m.known \in {None, store}
          /\ \/ m.token = None
             \/ store # None /\ m.token = store.token
    BY ReloadsReturns
  <1>2. /\ UNCHANGED <<rows, sessions, ended, late, reused, store>>
        /\ lost' = lost \cup UnheardToken(t)
        /\ requests' = IF tab[t].at # 0 /\ Request_(t).step = "answered"
                         THEN [requests EXCEPT ![tab[t].at] = Over] ELSE requests
    BY DEF Reloads
  <1>3. CASE tab[t].at # 0 /\ Request_(t).step = "answered"
    <2>1. requests' = [requests EXCEPT ![tab[t].at] = Over] /\ holder = t
      BY <1>2, <1>3, TabFacts DEF TabSound
    <2>2. Grows
      BY <1>2, GrowsWithoutRows DEF Ties
    <2>3. Ends(tab[t].at)
      BY <2>1, <2>2, ClosesKeeps DEF Ends
    <2>4. \A j \in lost' : j \in lost \/ \E x \in 1 .. Len(requests) :
                              /\ requests[x].answer = j /\ j # None
                              /\ requests'[x].answer = None
      BY <1>2, <2>3 DEF UnheardToken, Ends, Over, Request_
    <2> QED
      BY <1>1, <1>2, <2>3, <2>4, QuietHistory
  <1>4. CASE ~(tab[t].at # 0 /\ Request_(t).step = "answered")
    <2>1. tab[t].step = "sent" => tab[t].at # 0
      BY TabFacts DEF TabSound
    <2>2. UnheardToken(t) = {} /\ requests' = requests
      BY <1>2, <1>4, <2>1 DEF UnheardToken
    <2> QED
      BY <1>1, <1>2, <2>2, QuietHistory
  <1> QED
    BY <1>3, <1>4


LEMMA SignsInHistory ==
    ASSUME Ties, Ties', HInv, NEW t \in Tab, SignsIn(t)
    PROVE  HInv'
  <1>1. PICK n : n = Len(rows) + 1
    OBVIOUS
  <1>2. /\ Len(rows') = n /\ \A i \in Issued : rows'[i] = rows[i]
        /\ store'.token = n
    BY <1>1, SignsInReturns
  <1>3. PICK m \in Memory :
          tab' = [tab EXCEPT ![t] = m] /\ m.token = n /\ m.known = tab[t].known
    BY <1>1, SignsInReturns
  <1>4. UNCHANGED <<ended, late, reused, lost, requests>>
    BY DEF SignsIn
  <1>5. Len(rows) \in Nat /\ Len(requests) \in Nat /\ n \notin Issued
    BY <1>1, TabFacts DEF Issued
  <1>6. Remembers
    BY <1>1, <1>2, <1>4, <1>5 DEF Remembers, HInv, LateInv
  <1>7. \A x \in 1 .. Len(requests') : Harmless(x)
    BY <1>4 DEF Harmless
  <1>8. ASSUME NEW j \in Issued, Named(j)' PROVE Named(j)
    <2>1. \A u \in Tab : tab'[u] = IF u = t THEN m ELSE tab[u]
      BY <1>3, TabFacts
    <2>2. j # n
      BY <1>5
    <2> QED
      BY <1>2, <1>3, <1>4, <1>8, <2>1, <2>2 DEF Named
  <1> QED
    BY <1>4, <1>5, <1>6, <1>7, <1>8, HistoryKept

-----------------------------------------------------------------------------
(* The theorems.                                                            *)

LEMMA InitHistory == Init => HInv
  <1> SUFFICES ASSUME Init PROVE HInv
    OBVIOUS
  <1>1. Len(requests) = 0
    BY DEF Init
  <1> QED
    BY <1>1 DEF Init, HInv, LostInv, LateInv

LEMMA StepHistory == Ties /\ HInv /\ [Next]_vars => HInv'
  <1> SUFFICES ASSUME Ties, HInv, [Next]_vars PROVE HInv'
    OBVIOUS
  <1>1. Ties'
    BY StepTies
  <1>2. ASSUME NEW r \in DOMAIN requests,
               RefreshAsks(r) \/ RefreshDecides(r) \/ ReuseAnswered(r)
        PROVE  HInv'
    BY <1>1, <1>2, RefreshAsksHistory, RefreshDecidesHistory, ReuseAnsweredHistory
  <1>3. ASSUME NEW s \in Session, RevokeStarts(s) \/ RevokeEnds(s)
        PROVE  HInv'
    BY <1>1, <1>3, RevokeStartsHistory, RevokeEndsHistory
  <1>4. ASSUME NEW i \in DOMAIN rows, GraceEnds(i)
        PROVE  HInv'
    BY <1>1, <1>4, GraceEndsHistory
  <1>5. ASSUME NEW t \in Tab,
               Refreshes(t) \/ Acquires(t) \/ IsRefused(t) \/ Drops(t) \/ Loses(t)
        PROVE  HInv'
    BY <1>1, <1>5, RefreshesHistory, AcquiresHistory, IsRefusedHistory, DropsHistory,
       LosesHistory
  <1>6. ASSUME NEW t \in Tab, NEW ok \in BOOLEAN, Rotated(t, ok) \/ LogsOut(t, ok)
        PROVE  HInv'
    BY <1>1, <1>6, RotatedHistory, LogsOutHistory
  <1>7. ASSUME NEW t \in Tab,
               Reloads(t) \/ Ignores(t) \/ Leaves(t) \/ SignsIn(t) \/ SetsActive(t)
        PROVE  HInv'
    BY <1>1, <1>7, ReloadsHistory, IgnoresHistory, LeavesHistory, SignsInHistory,
       SetsActiveHistory
  <1>8. UNCHANGED vars => HInv'
    BY DEF vars, serverVars, browserVars, history, HInv, LostInv, LateInv, Unseen,
           Named, Issued, SessionOf
  <1> QED
    BY <1>2, <1>3, <1>4, <1>5, <1>6, <1>7, <1>8 DEF Next

LEMMA HistoryInvariant == Spec => [](IInv /\ HInv)
  <1>1. Init => HInv
    BY InitHistory
  <1>2. IInv /\ HInv /\ [Next]_vars => HInv'
    BY StepHistory DEF IInv
  <1> QED
    BY <1>1, <1>2, Invariant, PTL DEF Spec

(* Every variable of the server, the tabs and the storage keeps its type,   *)
(* whatever the interleaving.                                               *)
THEOREM TypeCorrect == Spec => []TypeOK
  <1>1. IInv /\ HInv => TypeOK
    <2> SUFFICES ASSUME IInv, HInv PROVE TypeOK
      OBVIOUS
    <2>1. DOMAIN rows = Issued
      BY LenProperties DEF IInv, Ties, RowsTied, Issued
    <2>2. lost \cup late \cup reused \subseteq DOMAIN rows
      BY <2>1 DEF HInv, LostInv, LateInv, Unseen
    <2> QED
      BY <2>2 DEF IInv, Ties, RowsTied, RequestsTied, RevokesTied, BrowserTied,
                  HistoryTied, TypeOK
  <1> QED
    BY <1>1, HistoryInvariant, PTL

(* `refresh` never takes for stolen the token whose rotation went unheard:  *)
(* its successor stays unused, as nobody has it to present.                 *)
THEOREM LostAnswersAreForgiven == Spec => []LostAnswerIsForgiven
  <1>1. IInv /\ HInv => LostAnswerIsForgiven
    BY DEF HInv, LostInv, Unseen, LostAnswerIsForgiven
  <1> QED
    BY <1>1, HistoryInvariant, PTL

(* A `refresh` that races the revocation of its session issues at most one  *)
(* token after it, and that token is never rotated: whoever presents it     *)
(* asks after the revocation.                                               *)
THEOREM LateTokensEnd == Spec => []LateTokenIsLast
  <1>1. IInv /\ HInv => LateTokenIsLast
    <2> SUFFICES ASSUME IInv, HInv, NEW i \in late
                 PROVE  /\ ~rows[i].used
                        /\ \A j \in late : SessionOf(i) = SessionOf(j) => i = j
      BY DEF LateTokenIsLast
    <2>1. DOMAIN rows = Issued
      BY LenProperties DEF IInv, Ties, RowsTied, Issued
    <2>2. \A j \in late : j \in LiveTokens(SessionOf(j)) /\ j \in Issued
      BY <2>1 DEF HInv, LateInv, LiveTokens
    <2>3. SessionOf(i) \in 1 .. sessions
      BY <2>2 DEF IInv, Ties, RowsTied, SessionOf
    <2> QED
      BY <2>2, <2>3 DEF HInv, LateInv, IInv, OneToken
  <1> QED
    BY <1>1, HistoryInvariant, PTL


===============================================================================
