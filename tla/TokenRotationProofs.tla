------------------------- MODULE TokenRotationProofs -------------------------
(***************************************************************************)
(* What holds of the rotation of refresh tokens for every number of tabs,  *)
(* tokens, sessions, requests and faults.                                  *)
(*                                                                         *)
(* The invariant has three layers.  `Ties`: whatever a row, a request, a   *)
(* tab or the storage names exists, and at most one tab, the holder of the *)
(* lock, has a request in flight.  `OneToken`: the server's side, which    *)
(* needs nothing of the browser.  The browser's: `Newest` says that while  *)
(* the last sign-in is kept (alive, no pair lost, no sign-in across it)    *)
(* the storage has its newest pair, every tab is at that pair or at a      *)
(* lower version, and the request in flight presents exactly the stored    *)
(* token; `Trail` says that a clean live session is the last sign-in, and  *)
(* with it what the runs check.                                            *)
(***************************************************************************)
EXTENDS TokenRotation, TLAPS, SequenceTheorems, FiniteSetTheorems

Issued == 1 .. Len(rows)

RowsTied ==
    /\ rows \in Seq(Row) /\ Len(rows) <= MaxToken /\ sessions \in 0 .. MaxSession
    /\ \A i \in Issued : rows[i].session \in 1 .. sessions

(* An answer is of the session asked for, and a request is only found dead *)
(* when its session is.                                                    *)
RequestSound(q) ==
    q.step # "over" =>
      /\ q.token \in Issued
      /\ q.answer # None => /\ q.answer \in Issued
                            /\ SessionOf(q.answer) = SessionOf(q.token)
      /\ q.dead => SessionOf(q.token) \in ended

RequestsTied ==
    /\ requests \in Seq(Request)
    /\ \A r \in 1 .. Len(requests) : RequestSound(requests[r])

RevokesTied ==
    /\ revoke \in [Session -> Revoke] /\ ended \subseteq Session
    /\ \A s \in Session :
         /\ revoke[s].step # "no" => s <= sessions
         /\ \A i \in revoke[s].saw : i \in Issued /\ SessionOf(i) = s
         /\ s \in ended => revoke[s].step = "done"

(* The holder of the lock is the tab with a request in flight. *)
TabSound(t) ==
    /\ tab[t].token # None => tab[t].token \in Issued
    /\ tab[t].known # None => tab[t].known.token \in Issued
    /\ tab[t].step \in {"sent", "dropping"} <=> holder = t
    /\ tab[t].at # 0 <=> holder = t
    /\ holder = t => /\ tab[t].at \in 1 .. Len(requests)
                     /\ requests[tab[t].at].step # "over"
    /\ tab[t].step = "dropping" => requests[tab[t].at].step = "answered"
    /\ tab[t].step = "idle" => ~tab[t].moved
    /\ sessions = 0 => /\ tab[t].step = "idle" /\ ~tab[t].leaving
                       /\ ~tab[t].signing

BrowserTied ==
    /\ store \in Stored \cup {None} /\ active \in BOOLEAN
    /\ store # None => store.token \in Issued
    /\ notice \subseteq Tab /\ holder \in Tab \cup {None}
    /\ tab \in [Tab -> Memory]
    /\ \A t \in Tab : TabSound(t)

HistoryTied == lossy \cup crossed \subseteq Session

Ties == RowsTied /\ RequestsTied /\ RevokesTied /\ BrowserTied /\ HistoryTied

(* The layer of the server. *)
OneToken ==
    /\ \A s \in Live : LiveTokens(s) # {}
    /\ \A s \in 1 .. sessions : \A i, j \in LiveTokens(s) : i = j

(* A token of the browser is of the last sign-in, or two sign-ins crossed. *)
OfLast(i) == SessionOf(i) = sessions \/ {SessionOf(i), sessions} \subseteq crossed

FromLast ==
    /\ store # None => OfLast(store.token)
    /\ \A t \in Tab : /\ tab[t].token # None => OfLast(tab[t].token)
                      /\ holder = t => OfLast(Request_(t).token)

(* A request whose tab no longer listens makes its session lossy. *)
IsHeard ==
    \A r \in 1 .. Len(requests) :
      requests[r].step # "over" /\ SessionOf(requests[r].token) \notin lossy
        => \E t \in Tab : holder = t /\ tab[t].at = r

(* The last sign-in is alive, no pair was lost and no sign-in crossed it. *)
Kept == sessions \in Live \ (lossy \cup crossed)

(* What a tab is while the last sign-in is kept. *)
InStep(t) ==
    /\ ~tab[t].leaving /\ ~tab[t].moved /\ tab[t].step # "dropping"
    /\ tab[t].token # None => /\ tab[t].version <= store.version
                              /\ tab[t].version = store.version
                                   => tab[t].token = store.token
    /\ tab[t].signing => /\ tab[t].step = "idle" /\ tab[t].token = store.token
                         /\ ~active
                         /\ \A u \in Tab \ {t} : /\ tab[u].step = "idle"
                                                  /\ tab[u].token = None
                                                  /\ ~tab[u].signing
    /\ tab[t].token # None /\ ~tab[t].signing => active

(* The request in flight presents the stored token, which is the live one  *)
(* until the answer carries the next.                                      *)
InFlight(t) ==
    /\ tab[t].target /\ tab[t].key
    /\ Request_(t).token = store.token
    /\ \/ /\ Request_(t).step \in {"sent", "asking"}
          /\ rows[store.token].revoked = "no"
       \/ /\ Request_(t).step = "answered" /\ Request_(t).answer # None
          /\ rows[Request_(t).answer].revoked = "no"

Newest ==
    Kept =>
      /\ store # None /\ SessionOf(store.token) = sessions
      /\ holder = None => rows[store.token].revoked = "no"
      /\ \A t \in Tab : InStep(t) /\ (holder = t => InFlight(t))

(* Tokens whose reuse is no false alarm. *)
Excused(R) == \A i \in R : i \in Issued /\ SessionOf(i) \in lossy \cup crossed

Trail == FromLast /\ IsHeard /\ OnlyDeadIsDropped /\ Excused(reused)

IInv == Ties /\ OneToken /\ Trail /\ Newest

-----------------------------------------------------------------------------
(* What a step may do to what is issued.                                    *)

(* Rows are added, never taken nor moved to another session, and what      *)
(* ended stays ended.                                                      *)
Grows ==
    /\ RowsTied' /\ Len(rows) <= Len(rows')
    /\ \A i \in Issued : rows'[i].session = rows[i].session
    /\ sessions <= sessions' /\ ended \subseteq ended'

LEMMA GrowsWithoutRows ==
    ASSUME RowsTied, UNCHANGED <<rows, sessions>>, ended \subseteq ended'
    PROVE  Grows
  BY DEF RowsTied, Grows, Issued, Row

-----------------------------------------------------------------------------
(* What the operators make of a tab's memory.                               *)

LEMMA MemoryFields ==
    ASSUME NEW m \in Memory
    PROVE  /\ m.token \in Token \cup {None} /\ m.version \in Nat
           /\ m.key \in BOOLEAN /\ m.known \in Stored \cup {None}
           /\ m.step \in {"idle", "waiting", "sent", "dropping"}
           /\ m.start \in Nat /\ m.sent \in Nat /\ m.at \in 0 .. MaxRequest
           /\ m.target \in BOOLEAN /\ m.moved \in BOOLEAN
           /\ m.leaving \in BOOLEAN /\ m.signing \in BOOLEAN
  BY DEF Memory

LEMMA SignedOutSound == SignedOut \in Memory
  BY RotationAssumption DEF SignedOut, Memory

LEMMA RestReturns ==
    ASSUME NEW m \in Memory
    PROVE  /\ Rest(m) \in Memory
           /\ Rest(m).step = "idle" /\ Rest(m).at = 0 /\ ~Rest(m).moved
           /\ Rest(m).token = m.token /\ Rest(m).version = m.version
           /\ Rest(m).key = m.key /\ Rest(m).known = m.known
           /\ Rest(m).leaving = m.leaving /\ Rest(m).signing = m.signing
  <1>1. 0 \in 0 .. MaxRequest /\ 0 \in Nat
    BY RotationAssumption
  <1>2. Rest(m) \in Memory
    BY <1>1, Zenon DEF Memory, Rest
  <1> QED
    BY <1>2 DEF Rest, Memory

LEMMA LoadedReturns ==
    ASSUME BrowserTied, NEW m \in Memory
    PROVE  /\ Loaded(m) \in Memory
           /\ Loaded(m).known = (IF active THEN store ELSE None)
           /\ Loaded(m).key = (active /\ store # None)
           /\ Loaded(m).token = m.token /\ Loaded(m).version = m.version
           /\ Loaded(m).step = m.step /\ Loaded(m).at = m.at
           /\ Loaded(m).start = m.start /\ Loaded(m).sent = m.sent
           /\ Loaded(m).target = m.target /\ Loaded(m).moved = m.moved
           /\ Loaded(m).leaving = m.leaving /\ Loaded(m).signing = m.signing
  <1> DEFINE known == IF active THEN store ELSE None
             key == active /\ store # None
  <1>1. known \in Stored \cup {None} /\ key \in BOOLEAN
    BY DEF BrowserTied
  <1>2. Loaded(m) = [m EXCEPT !.known = known, !.key = key]
    BY DEF Loaded
  <1> HIDE DEF known, key
  <1>3. Loaded(m) \in Memory
    BY <1>1, <1>2, Zenon DEF Memory
  <1>4. /\ Loaded(m).known = known /\ Loaded(m).key = key
        /\ Loaded(m).token = m.token /\ Loaded(m).version = m.version
        /\ Loaded(m).step = m.step /\ Loaded(m).at = m.at
        /\ Loaded(m).start = m.start /\ Loaded(m).sent = m.sent
        /\ Loaded(m).target = m.target /\ Loaded(m).moved = m.moved
        /\ Loaded(m).leaving = m.leaving /\ Loaded(m).signing = m.signing
    BY <1>2, Zenon DEF Memory
  <1> QED
    BY <1>3, <1>4 DEF known, key

LEMMA AdoptReturns ==
    ASSUME NEW m \in Memory, m.known \in Stored
    PROVE  /\ Adopt(m) \in Memory
           /\ Adopt(m).step = "idle" /\ Adopt(m).at = 0 /\ ~Adopt(m).moved
           /\ Adopt(m).token = m.known.token /\ Adopt(m).version = m.known.version
           /\ Adopt(m).key = m.key /\ Adopt(m).known = m.known
           /\ Adopt(m).leaving = m.leaving /\ Adopt(m).signing = m.signing
  <1>1. m.known.token \in Token /\ m.known.version \in Nat
    BY DEF Stored
  <1>2. Rest(m) \in Memory
    BY RestReturns
  <1>3. Adopt(m) \in Memory
    BY <1>1, <1>2, Zenon DEF Memory, Adopt
  <1> QED
    BY <1>2, <1>3, RestReturns, Zenon DEF Adopt, Memory

LEMMA ClearedReturns ==
    ASSUME NEW m \in Memory
    PROVE  /\ Cleared(m) \in Memory
           /\ Cleared(m).token = None /\ Cleared(m).version = 0
           /\ Cleared(m).moved = (m.step # "idle")
           /\ Cleared(m).step = m.step /\ Cleared(m).at = m.at
           /\ Cleared(m).key = m.key /\ Cleared(m).known = m.known
           /\ Cleared(m).leaving = m.leaving /\ Cleared(m).signing = m.signing
  <1> DEFINE moved == m.step # "idle"
  <1>1. moved \in BOOLEAN /\ 0 \in Nat
    OBVIOUS
  <1>2. Cleared(m) = [m EXCEPT !.token = None, !.version = 0, !.moved = moved]
    BY DEF Cleared
  <1> HIDE DEF moved
  <1>3. Cleared(m) \in Memory
    BY <1>1, <1>2, Zenon DEF Memory
  <1>4. /\ Cleared(m).token = None /\ Cleared(m).version = 0
        /\ Cleared(m).moved = moved
        /\ Cleared(m).step = m.step /\ Cleared(m).at = m.at
        /\ Cleared(m).key = m.key /\ Cleared(m).known = m.known
        /\ Cleared(m).leaving = m.leaving /\ Cleared(m).signing = m.signing
    BY <1>2, Zenon DEF Memory
  <1> QED
    BY <1>3, <1>4 DEF moved

-----------------------------------------------------------------------------
(* What a step leaves as it is.                                             *)

LEMMA SoundGrows ==
    ASSUME Ties, Grows, NEW q \in Request, RequestSound(q)
    PROVE  RequestSound(q)'
  <1>1. Issued \subseteq Issued'
    BY DEF Grows, RowsTied, Issued, Ties
  <1>2. \A i \in Issued : SessionOf(i)' = SessionOf(i)
    BY DEF Grows, SessionOf
  <1> QED
    BY <1>1, <1>2 DEF RequestSound, Grows

LEMMA RequestsGrow ==
    ASSUME Ties, Grows, UNCHANGED requests
    PROVE  RequestsTied'
  BY SoundGrows DEF Ties, RequestsTied

LEMMA RevokesGrow ==
    ASSUME Ties, Grows, UNCHANGED <<revoke, ended>>
    PROVE  RevokesTied'
  <1>1. Issued \subseteq Issued'
    BY DEF Grows, RowsTied, Issued, Ties
  <1>2. \A i \in Issued : SessionOf(i)' = SessionOf(i)
    BY DEF Grows, SessionOf
  <1>3. \A s \in Session : s \in Nat
    BY RotationAssumption DEF Session
  <1> QED
    BY <1>1, <1>2, <1>3 DEF RevokesTied, Grows, Ties, RowsTied

(* A step of the server: the tab in flight is still waiting for it. *)
LEMMA ServerKeepsBrowser ==
    ASSUME Ties, Grows, UNCHANGED browserVars,
           Len(requests') = Len(requests),
           \A t \in Tab : holder = t =>
             /\ requests'[tab[t].at].step # "over"
             /\ requests[tab[t].at].step = "answered" =>
                  requests'[tab[t].at].step = "answered"
    PROVE  BrowserTied'
  <1>1. Issued \subseteq Issued'
    BY DEF Grows, RowsTied, Issued, Ties
  <1>2. ASSUME NEW t \in Tab PROVE TabSound(t)'
    <2>1. TabSound(t)
      BY DEF Ties, BrowserTied
    <2>2. sessions' = 0 => sessions = 0
      BY DEF Grows, RowsTied, Ties
    <2> QED
      BY <1>1, <2>1, <2>2 DEF TabSound, browserVars
  <1>3. store' # None => store'.token \in Issued'
    BY <1>1 DEF browserVars, Ties, BrowserTied
  <1> QED
    BY <1>2, <1>3 DEF browserVars, Ties, BrowserTied

(* A step of one tab. *)
LEMMA TabKeepsBrowser ==
    ASSUME Ties, Grows, NEW t \in Tab, NEW m \in Memory,
           tab' = [tab EXCEPT ![t] = m], TabSound(t)',
           requests' = requests \/ holder \in {None, t},
           holder' = holder \/ {holder, holder'} \subseteq {None, t},
           holder' \in Tab \cup {None},
           store' \in Stored \cup {None}, store' # None => store'.token \in Issued',
           active' \in BOOLEAN, notice' \subseteq Tab
    PROVE  BrowserTied'
  <1>1. Issued \subseteq Issued'
    BY DEF Grows, RowsTied, Issued, Ties
  <1>2. tab \in [Tab -> Memory]
    BY DEF Ties, BrowserTied
  <1>3. ASSUME NEW u \in Tab \ {t} PROVE TabSound(u)'
    <2>1. TabSound(u) /\ tab'[u] = tab[u]
      BY <1>2 DEF Ties, BrowserTied
    <2>2. sessions' = 0 => sessions = 0
      BY DEF Grows, RowsTied, Ties
    <2>3. u # None
      BY RotationAssumption
    <2>4. holder' = u <=> holder = u
      BY <2>3
    <2>5. holder = u => requests' = requests
      BY <2>3
    <2>6. tab[u].step = "dropping" => holder = u
      BY <2>1 DEF TabSound
    <2> QED
      BY <1>1, <2>1, <2>2, <2>4, <2>5, <2>6 DEF TabSound
  <1>4. tab' \in [Tab -> Memory]
    BY <1>2
  <1> QED
    BY <1>3, <1>4 DEF BrowserTied

LEMMA RequestChanges ==
    ASSUME Ties, Grows, NEW r \in 1 .. Len(requests), NEW q \in Request,
           requests' = [requests EXCEPT ![r] = q], RequestSound(q)'
    PROVE  /\ RequestsTied' /\ Len(requests') = Len(requests)
           /\ \A x \in 1 .. Len(requests) :
                requests'[x] = IF x = r THEN q ELSE requests[x]
  <1>1. requests \in Seq(Request)
    BY DEF Ties, RequestsTied
  <1>2. /\ requests' \in Seq(Request) /\ Len(requests') = Len(requests)
        /\ \A x \in 1 .. Len(requests) :
             requests'[x] = IF x = r THEN q ELSE requests[x]
    BY <1>1, ExceptSeq
  <1>3. \A x \in 1 .. Len(requests) : requests[x] \in Request
    BY <1>1
  <1>4. ASSUME NEW x \in 1 .. Len(requests) PROVE RequestSound(requests[x])'
    <2>1. CASE x = r
      BY <1>2, <2>1 DEF RequestSound
    <2>2. CASE x # r
      <3>1. PICK p \in Request : p = requests[x]
        BY <1>3
      <3>2. RequestSound(p)'
        BY <1>4, <3>1, SoundGrows DEF Ties, RequestsTied
      <3> QED
        BY <1>2, <1>4, <2>2, <3>1, <3>2 DEF RequestSound
    <2> QED
      BY <2>1, <2>2
  <1> QED
    BY <1>2, <1>4 DEF RequestsTied

LEMMA OverSound == Over \in Request /\ RequestSound(Over) /\ RequestSound(Over)'
  BY RotationAssumption DEF Over, Request, RequestSound

(* An answer to the tab that listens, or to nobody. *)
LEMMA AnswerKeeps ==
    ASSUME Ties, Grows, UNCHANGED browserVars, NEW r \in 1 .. Len(requests),
           NEW i \in Token \cup {None},
           requests[r].step \in {"asking", "revoking"},
           i # None => /\ i \in Issued'
                       /\ rows'[i].session = SessionOf(requests[r].token),
           Answer(r, i)
    PROVE  RequestsTied' /\ BrowserTied'
  <1>1. requests[r] \in Request /\ RequestSound(requests[r])
    BY DEF Ties, RequestsTied
  <1>2. PICK q \in Request :
          q = IF Heard(r) THEN [requests[r] EXCEPT !.step = "answered", !.answer = i]
                          ELSE Over
    BY <1>1, OverSound DEF Request
  <1>3. requests' = [requests EXCEPT ![r] = q]
    BY <1>2 DEF Answer
  <1>4. Issued \subseteq Issued'
    BY DEF Grows, RowsTied, Issued, Ties
  <1>5. RequestSound(q)'
    <2>1. CASE Heard(r)
      <3>1. /\ q.token = requests[r].token /\ q.dead = requests[r].dead
            /\ q.answer = i
        BY <1>1, <1>2, <2>1 DEF Request
      <3>2. q.token \in Issued /\ (q.dead => SessionOf(q.token) \in ended)
        BY <1>1, <3>1 DEF RequestSound
      <3> QED
        BY <1>1, <1>4, <3>1, <3>2 DEF RequestSound, Grows, SessionOf
    <2>2. CASE ~Heard(r)
      BY <1>2, <2>2, OverSound
    <2> QED
      BY <2>1, <2>2
  <1>6. /\ RequestsTied' /\ Len(requests') = Len(requests)
        /\ \A x \in 1 .. Len(requests) :
             requests'[x] = IF x = r THEN q ELSE requests[x]
    BY <1>3, <1>5, RequestChanges
  <1>7. ASSUME NEW t \in Tab, holder = t
        PROVE  /\ requests'[tab[t].at].step # "over"
               /\ requests[tab[t].at].step = "answered" =>
                    requests'[tab[t].at].step = "answered"
    <2>1. TabSound(t)
      BY DEF Ties, BrowserTied
    <2>2. CASE tab[t].at # r
      BY <1>6, <1>7, <2>1, <2>2 DEF TabSound
    <2>3. CASE tab[t].at = r
      <3>1. tab[t].step = "sent"
        BY <1>7, <2>1, <2>3 DEF TabSound
      <3>2. q.step = "answered"
        BY <1>1, <1>2, <2>3, <3>1 DEF Heard, Request
      <3> QED
        BY <1>6, <2>3, <3>2
    <2> QED
      BY <2>2, <2>3
  <1>8. BrowserTied'
    BY <1>6, <1>7, ServerKeepsBrowser
  <1> QED
    BY <1>6, <1>8

-----------------------------------------------------------------------------
(* Every step keeps the ties.                                               *)

LEMMA InitTies == Init => Ties
  <1> SUFFICES ASSUME Init PROVE Ties
    OBVIOUS
  <1>1. RowsTied
    BY RotationAssumption DEF Init, RowsTied, Issued
  <1>2. RequestsTied
    BY DEF Init, RequestsTied
  <1>3. RevokesTied
    BY DEF Init, RevokesTied, Revoke
  <1>4. BrowserTied
    <2>1. \A t \in Tab : TabSound(t)
      BY RotationAssumption DEF Init, TabSound, SignedOut
    <2> QED
      BY <2>1, SignedOutSound DEF Init, BrowserTied
  <1> QED
    BY <1>1, <1>2, <1>3, <1>4 DEF Ties, HistoryTied, Init

LEMMA RefreshAsksTies ==
    ASSUME Ties, NEW r \in DOMAIN requests, RefreshAsks(r)
    PROVE  Ties'
  <1>1. /\ requests \in Seq(Request) /\ DOMAIN requests = 1 .. Len(requests)
        /\ requests[r] \in Request /\ RequestSound(requests[r])
    BY LenProperties DEF Ties, RequestsTied
  <1>2. Grows
    BY GrowsWithoutRows DEF RefreshAsks, Ties
  <1> DEFINE dead == SessionOf(requests[r].token) \in ended
  <1>3. PICK q : q = [requests[r] EXCEPT !.step = "asking", !.dead = dead]
    OBVIOUS
  <1>4. requests' = [requests EXCEPT ![r] = q] /\ requests[r].step = "sent"
    BY <1>3 DEF RefreshAsks
  <1>5. /\ q \in Request /\ q.token = requests[r].token
        /\ q.answer = requests[r].answer /\ q.dead = dead
        /\ q.step = "asking"
    <2>1. dead \in BOOLEAN
      OBVIOUS
    <2> HIDE DEF dead
    <2>2. q \in Request
      BY <1>1, <1>3, <2>1, Zenon DEF Request
    <2> QED
      BY <1>1, <1>3, <2>2, Zenon DEF Request
  <1>6. RequestSound(q)'
    <2>1. RequestSound(q)
      BY <1>1, <1>4, <1>5 DEF RequestSound
    <2> QED
      BY <1>2, <1>5, <2>1, SoundGrows
  <1>7. /\ RequestsTied' /\ Len(requests') = Len(requests)
        /\ \A x \in 1 .. Len(requests) :
             requests'[x] = IF x = r THEN q ELSE requests[x]
    BY <1>1, <1>2, <1>4, <1>5, <1>6, RequestChanges
  <1>8. BrowserTied'
    <2>1. UNCHANGED browserVars
      BY DEF RefreshAsks
    <2>2. ASSUME NEW t \in Tab, holder = t
          PROVE  /\ requests'[tab[t].at].step # "over"
                 /\ requests[tab[t].at].step = "answered" =>
                      requests'[tab[t].at].step = "answered"
      BY <1>4, <1>5, <1>7, <2>2 DEF Ties, BrowserTied, TabSound
    <2> QED
      BY <1>2, <1>7, <2>1, <2>2, ServerKeepsBrowser
  <1>9. RevokesTied'
    BY <1>2, RevokesGrow DEF RefreshAsks
  <1> QED
    BY <1>2, <1>7, <1>8, <1>9 DEF Ties, Grows, HistoryTied, RefreshAsks, history

(* A refresh that rotates adds the successor to the same session. *)
LEMMA RotateGrows ==
    ASSUME Ties, NEW r \in 1 .. Len(requests), requests[r].step = "asking",
           Rotate(r), UNCHANGED <<sessions, ended>>
    PROVE  /\ Grows
           /\ Len(rows') = Len(rows) + 1
           /\ Len(rows) + 1 \in Token
           /\ rows'[Len(rows) + 1] = [session |-> SessionOf(requests[r].token),
                                      parent |-> requests[r].token,
                                      used |-> FALSE, revoked |-> "no"]
           /\ rows[requests[r].token].revoked = "no"
           /\ requests[r].token \in Issued
           /\ \A i \in Issued :
                /\ i # requests[r].token => rows'[i] = rows[i]
                /\ rows'[i].session = rows[i].session
                /\ i = requests[r].token => rows'[i].revoked = "grace"
  <1> DEFINE i == requests[r].token
             old == [rows[i] EXCEPT !.revoked = "grace", !.used = TRUE]
             new == [session |-> SessionOf(i), parent |-> i,
                     used |-> FALSE, revoked |-> "no"]
             q == [rows EXCEPT ![i] = old]
  <1>1. rows \in Seq(Row) /\ Len(rows) \in Nat /\ requests[r] \in Request
    BY DEF Ties, RowsTied, RequestsTied
  <1>2. i \in Issued /\ i \in Token
    BY <1>1, RotationAssumption DEF Ties, RowsTied, RequestsTied, RequestSound,
                                    Issued, Token
  <1>3. rows[i].revoked = "no" /\ Len(rows) < MaxToken /\ rows' = Append(q, new)
    BY DEF Rotate
  <1>4. rows[i] \in Row
    BY <1>1, <1>2 DEF Issued
  <1>5. old \in Row /\ old.session = rows[i].session /\ old.revoked = "grace"
    BY <1>4 DEF Row
  <1>6. new \in Row
    BY <1>2, <1>4 DEF Row, SessionOf
  <1> HIDE DEF old
  <1>7. /\ q \in Seq(Row) /\ Len(q) = Len(rows)
        /\ \A j \in Issued : q[j] = IF j = i THEN old ELSE rows[j]
    BY <1>1, <1>2, <1>5, ExceptSeq DEF Issued
  <1> HIDE DEF q, new
  <1>8. /\ rows' \in Seq(Row) /\ Len(rows') = Len(rows) + 1
        /\ \A j \in Issued : rows'[j] = q[j]
        /\ rows'[Len(rows) + 1] = new
    BY <1>3, <1>6, <1>7, AppendProperties DEF Issued
  <1>9. \A j \in Issued : rows'[j].session = rows[j].session
    BY <1>5, <1>7, <1>8
  <1>10. Len(rows) + 1 \in Token
    BY <1>1, <1>3, RotationAssumption DEF Token
  <1>11. new.session = rows[i].session
    BY DEF new, SessionOf
  <1>12. RowsTied'
    <2>1. \A j \in Issued : rows[j].session \in 1 .. sessions
      BY DEF Ties, RowsTied
    <2>2. Issued' = Issued \cup {Len(rows) + 1}
      BY <1>1, <1>8 DEF Issued
    <2>3. \A j \in Issued' : rows'[j].session \in 1 .. sessions
      BY <1>2, <1>8, <1>9, <1>11, <2>1, <2>2
    <2>4. sessions' = sessions /\ sessions \in 0 .. MaxSession
      BY DEF RowsTied, Ties
    <2>5. Len(rows') <= MaxToken
      BY <1>1, <1>3, <1>8, RotationAssumption
    <2> QED
      BY <1>8, <2>3, <2>4, <2>5 DEF RowsTied
  <1>13. Grows
    BY <1>1, <1>8, <1>9, <1>12 DEF Grows, RowsTied, Ties
  <1> QED
    BY <1>2, <1>3, <1>5, <1>7, <1>8, <1>9, <1>10, <1>13 DEF new

LEMMA StartsRevokeTies ==
    ASSUME Ties, NEW s \in 1 .. sessions, StartsRevoke(s),
           UNCHANGED <<rows, sessions, ended>>
    PROVE  RevokesTied'
  <1>1. LiveTokens(s) \subseteq Issued /\ \A i \in LiveTokens(s) : SessionOf(i) = s
    BY LenProperties DEF LiveTokens, Issued, Ties, RowsTied
  <1>2. Issued \subseteq Token
    BY RotationAssumption DEF Issued, Token, Ties, RowsTied
  <1>3. s \in Session /\ \A x \in Session : x \in Nat
    BY RotationAssumption DEF Session, Ties, RowsTied
  <1> DEFINE started == [step |-> "started", saw |-> LiveTokens(s)]
             new == IF revoke[s].step # "no" THEN revoke[s] ELSE started
  <1>4. /\ started \in Revoke /\ started.step = "started"
        /\ started.saw = LiveTokens(s)
    BY <1>1, <1>2 DEF Revoke
  <1>5. revoke \in [Session -> Revoke] /\ revoke' = [revoke EXCEPT ![s] = new]
    BY DEF StartsRevoke, Ties, RevokesTied
  <1> HIDE DEF started
  <1>6. /\ revoke' \in [Session -> Revoke] /\ revoke'[s] = new
        /\ \A x \in Session \ {s} : revoke'[x] = revoke[x]
    BY <1>3, <1>4, <1>5
  <1>7. ASSUME NEW x \in Session
        PROVE  /\ revoke'[x].step # "no" => x <= sessions
               /\ \A i \in revoke'[x].saw : i \in Issued /\ SessionOf(i) = x
               /\ x \in ended => revoke'[x].step = "done"
    <2>1. /\ revoke[x].step # "no" => x <= sessions
          /\ \A i \in revoke[x].saw : i \in Issued /\ SessionOf(i) = x
          /\ x \in ended => revoke[x].step = "done"
      BY DEF Ties, RevokesTied
    <2>2. s <= sessions
      OBVIOUS
    <2> QED
      BY <1>1, <1>4, <1>6, <2>1, <2>2
  <1>8. Issued' = Issued /\ \A i \in Issued : SessionOf(i)' = SessionOf(i)
    BY DEF Issued, SessionOf
  <1> QED
    BY <1>6, <1>7, <1>8 DEF RevokesTied, Ties

LEMMA RefreshDecidesTies ==
    ASSUME Ties, NEW r \in DOMAIN requests, RefreshDecides(r)
    PROVE  Ties'
  <1> DEFINE i == requests[r].token
  <1>1. /\ requests \in Seq(Request) /\ DOMAIN requests = 1 .. Len(requests)
        /\ requests[r] \in Request /\ RequestSound(requests[r])
        /\ requests[r].step = "asking"
    BY LenProperties DEF Ties, RequestsTied, RefreshDecides
  <1>2. i \in Issued /\ SessionOf(i) \in 1 .. sessions
    BY <1>1 DEF RequestSound, Ties, RowsTied, SessionOf
  <1>3. /\ UNCHANGED browserVars /\ UNCHANGED <<sessions, ended>>
        /\ lossy' = lossy /\ crossed' = crossed
    BY DEF RefreshDecides
  <1>4. CASE Answer(r, None) /\ UNCHANGED <<rows, revoke, lost, late, reused>>
    <2>1. Grows
      BY <1>3, <1>4, GrowsWithoutRows DEF Ties
    <2>2. RequestsTied' /\ BrowserTied'
      BY <1>1, <1>3, <1>4, <2>1, AnswerKeeps
    <2> QED
      BY <1>3, <1>4, <2>1, <2>2, RevokesGrow DEF Ties, Grows, HistoryTied
  <1>5. CASE Rotate(r) /\ UNCHANGED reused
    <2>1. /\ Grows /\ Len(rows) + 1 \in Token /\ Len(rows') = Len(rows) + 1
          /\ rows'[Len(rows) + 1].session = SessionOf(requests[r].token)
      <3>1. /\ Grows /\ Len(rows) + 1 \in Token /\ Len(rows') = Len(rows) + 1
            /\ rows'[Len(rows) + 1] = [session |-> SessionOf(requests[r].token),
                                       parent |-> requests[r].token,
                                       used |-> FALSE, revoked |-> "no"]
        BY <1>1, <1>3, <1>5, RotateGrows
      <3> QED
        BY <3>1
    <2>2. Len(rows) + 1 \in Issued' /\ Len(rows) + 1 # None
      BY <2>1, RotationAssumption DEF Issued, Ties, RowsTied
    <2>3. RequestsTied' /\ BrowserTied'
      BY <1>1, <1>3, <1>5, <2>1, <2>2, AnswerKeeps DEF Rotate, Issues
    <2>4. UNCHANGED <<revoke, ended>>
      BY <1>3, <1>5 DEF Rotate
    <2> QED
      BY <1>3, <1>5, <2>1, <2>3, <2>4, RevokesGrow DEF Ties, Grows, HistoryTied
  <1>6. CASE /\ StartsRevoke(SessionOf(i))
             /\ requests' = [requests EXCEPT ![r].step = "revoking"]
             /\ reused' = IF SessionOf(i) \in Live THEN reused \cup {i} ELSE reused
             /\ UNCHANGED <<rows, lost, late>>
    <2>1. Grows
      BY <1>3, <1>6, GrowsWithoutRows DEF Ties
    <2>2. RevokesTied'
      BY <1>2, <1>3, <1>6, StartsRevokeTies
    <2>3. PICK q : q = [requests[r] EXCEPT !.step = "revoking"]
      OBVIOUS
    <2>4. /\ q \in Request /\ q.token = i /\ q.answer = requests[r].answer
          /\ q.dead = requests[r].dead /\ q.step = "revoking"
      BY <1>1, <2>3, Zenon DEF Request
    <2>5. RequestSound(q)'
      <3>1. RequestSound(q)
        BY <1>1, <2>4 DEF RequestSound
      <3> QED
        BY <2>1, <2>4, <3>1, SoundGrows
    <2>6. /\ RequestsTied' /\ Len(requests') = Len(requests)
          /\ \A x \in 1 .. Len(requests) :
               requests'[x] = IF x = r THEN q ELSE requests[x]
      <3>1. requests' = [requests EXCEPT ![r] = q]
        BY <1>6, <2>3
      <3> QED
        BY <1>1, <2>1, <2>4, <2>5, <3>1, RequestChanges
    <2>7. BrowserTied'
      <3>1. ASSUME NEW t \in Tab, holder = t
            PROVE  /\ requests'[tab[t].at].step # "over"
                   /\ requests[tab[t].at].step = "answered" =>
                        requests'[tab[t].at].step = "answered"
        BY <1>1, <2>4, <2>6, <3>1 DEF Ties, BrowserTied, TabSound
      <3> QED
        BY <1>3, <2>1, <2>6, <3>1, ServerKeepsBrowser
    <2>8. HistoryTied'
      <3> QED
        BY <1>2, <1>3, <1>6, <2>1 DEF HistoryTied, Ties, Issued, Grows
    <2> QED
      BY <2>1, <2>2, <2>6, <2>7, <2>8 DEF Ties, Grows
  <1> QED
    BY <1>4, <1>5, <1>6 DEF RefreshDecides

LEMMA ReuseAnsweredTies ==
    ASSUME Ties, NEW r \in DOMAIN requests, ReuseAnswered(r)
    PROVE  Ties'
  <1>1. Grows
    BY GrowsWithoutRows DEF ReuseAnswered, Ties
  <1>2. requests[r].step = "revoking" /\ r \in 1 .. Len(requests)
    BY LenProperties DEF ReuseAnswered, Ties, RequestsTied
  <1>3. RequestsTied' /\ BrowserTied'
    BY <1>1, <1>2, AnswerKeeps DEF ReuseAnswered
  <1> QED
    BY <1>1, <1>3, RevokesGrow DEF Ties, Grows, HistoryTied, ReuseAnswered, history

LEMMA RevokeStartsTies ==
    ASSUME Ties, NEW s \in Session, RevokeStarts(s)
    PROVE  Ties'
  <1>1. Grows
    BY GrowsWithoutRows DEF RevokeStarts, Ties
  <1>2. s \in 1 .. sessions
    BY RotationAssumption DEF RevokeStarts, Revocable, Session, Ties, RowsTied
  <1>3. RevokesTied'
    BY <1>2, StartsRevokeTies DEF RevokeStarts
  <1>4. RequestsTied'
    BY <1>1, RequestsGrow DEF RevokeStarts
  <1>5. BrowserTied'
    <2>1. UNCHANGED browserVars /\ requests' = requests
      BY DEF RevokeStarts
    <2>2. \A t \in Tab : holder = t => requests[tab[t].at].step # "over"
      BY DEF Ties, BrowserTied, TabSound
    <2> QED
      BY <1>1, <2>1, <2>2, ServerKeepsBrowser
  <1> QED
    BY <1>1, <1>3, <1>4, <1>5 DEF Ties, Grows, HistoryTied, RevokeStarts, history

(* The end of a revocation touches only the tokens it saw. *)
LEMMA RevokeEndsRows ==
    ASSUME Ties, NEW s \in Session, RevokeEnds(s)
    PROVE  /\ Grows /\ Len(rows') = Len(rows)
           /\ \A i \in Issued :
                /\ rows'[i].session = rows[i].session
                /\ rows'[i] = rows[i] \/ /\ SessionOf(i) = s /\ rows[i].revoked = "no"
                                         /\ rows'[i].revoked = "grace"
  <1> DEFINE f(i) == IF i \in revoke[s].saw /\ rows[i].revoked = "no"
                       THEN [rows[i] EXCEPT !.revoked = "grace"] ELSE rows[i]
  <1>1. rows \in Seq(Row) /\ Len(rows) \in Nat /\ DOMAIN rows = 1 .. Len(rows)
    BY LenProperties DEF Ties, RowsTied
  <1>2. rows' = [i \in 1 .. Len(rows) |-> f(i)]
    BY <1>1 DEF RevokeEnds
  <1>3. \A i \in 1 .. Len(rows) :
          /\ f(i) \in Row /\ f(i).session = rows[i].session
          /\ f(i) = rows[i] \/ /\ SessionOf(i) = s /\ rows[i].revoked = "no"
                               /\ f(i).revoked = "grace"
    <2>1. \A i \in 1 .. Len(rows) : rows[i] \in Row
      BY <1>1
    <2>2. \A i \in revoke[s].saw : SessionOf(i) = s
      BY DEF Ties, RevokesTied
    <2> QED
      BY <2>1, <2>2 DEF Row
  <1> HIDE DEF f
  <1>4. rows' \in [1 .. Len(rows) -> Row]
    BY <1>2, <1>3
  <1>5. rows' \in Seq(Row) /\ Len(rows') = Len(rows)
    BY <1>1, <1>4
  <1>6. \A i \in Issued :
          /\ rows'[i].session = rows[i].session
          /\ rows'[i] = rows[i] \/ /\ SessionOf(i) = s /\ rows[i].revoked = "no"
                                   /\ rows'[i].revoked = "grace"
    BY <1>2, <1>3 DEF Issued
  <1>7. sessions' = sessions /\ ended \subseteq ended'
    BY DEF RevokeEnds
  <1>8. RowsTied'
    BY <1>5, <1>6, <1>7 DEF Ties, RowsTied, Issued
  <1> QED
    BY <1>1, <1>5, <1>6, <1>7, <1>8 DEF Grows, Ties, RowsTied

LEMMA RevokeEndsTies ==
    ASSUME Ties, NEW s \in Session, RevokeEnds(s)
    PROVE  Ties'
  <1>1. /\ Grows /\ Len(rows') = Len(rows)
        /\ \A i \in Issued : rows'[i].session = rows[i].session
    BY RevokeEndsRows
  <1> DEFINE done == [step |-> "done", saw |-> {}]
  <1>2. /\ revoke[s].step = "started" /\ revoke' = [revoke EXCEPT ![s] = done]
        /\ ended' = ended \cup {s} /\ UNCHANGED <<sessions, requests>>
        /\ UNCHANGED browserVars /\ UNCHANGED history
    BY DEF RevokeEnds
  <1>3. done \in Revoke /\ done.step = "done" /\ done.saw = {}
    BY DEF Revoke
  <1> HIDE DEF done
  <1>4. RevokesTied'
    <2>1. /\ revoke \in [Session -> Revoke] /\ ended \subseteq Session
          /\ \A x \in Session : /\ revoke[x].step # "no" => x <= sessions
                                /\ \A i \in revoke[x].saw : i \in Issued /\ SessionOf(i) = x
                                /\ x \in ended => revoke[x].step = "done"
      BY DEF Ties, RevokesTied
    <2>2. Issued' = Issued /\ \A i \in Issued : SessionOf(i)' = SessionOf(i)
      BY <1>1 DEF Issued, SessionOf
    <2>3. /\ revoke' \in [Session -> Revoke] /\ revoke'[s] = done
          /\ \A x \in Session \ {s} : revoke'[x] = revoke[x]
      BY <1>2, <1>3, <2>1
    <2> QED
      BY <1>2, <1>3, <2>1, <2>2, <2>3 DEF RevokesTied
  <1>5. RequestsTied'
    BY <1>1, <1>2, RequestsGrow
  <1>6. BrowserTied'
    <2>1. \A t \in Tab : holder = t => requests[tab[t].at].step # "over"
      BY DEF Ties, BrowserTied, TabSound
    <2> QED
      BY <1>1, <1>2, <2>1, ServerKeepsBrowser
  <1> QED
    BY <1>1, <1>2, <1>4, <1>5, <1>6 DEF Ties, Grows, HistoryTied, history

LEMMA GraceEndsRows ==
    ASSUME Ties, NEW i \in DOMAIN rows, GraceEnds(i)
    PROVE  /\ Grows /\ Len(rows') = Len(rows)
           /\ \A j \in Issued :
                /\ rows'[j].session = rows[j].session
                /\ rows'[j] = rows[j] \/ /\ rows[j].revoked = "grace"
                                         /\ rows'[j].revoked = "old"
  <1>1. rows \in Seq(Row) /\ Len(rows) \in Nat /\ DOMAIN rows = 1 .. Len(rows)
    BY LenProperties DEF Ties, RowsTied
  <1>2. PICK old : old = [rows[i] EXCEPT !.revoked = "old"]
    OBVIOUS
  <1>3. rows' = [rows EXCEPT ![i] = old] /\ rows[i].revoked = "grace"
    BY <1>2 DEF GraceEnds
  <1>4. rows[i] \in Row
    BY <1>1
  <1>5. old \in Row /\ old.session = rows[i].session /\ old.revoked = "old"
    BY <1>2, <1>4 DEF Row
  <1>6. /\ rows' \in Seq(Row) /\ Len(rows') = Len(rows)
        /\ \A j \in 1 .. Len(rows) : rows'[j] = IF j = i THEN old ELSE rows[j]
    BY <1>1, <1>3, <1>5, ExceptSeq
  <1>7. UNCHANGED <<sessions, ended>>
    BY DEF GraceEnds
  <1>8. \A j \in Issued :
          /\ rows'[j].session = rows[j].session
          /\ rows'[j] = rows[j] \/ /\ rows[j].revoked = "grace"
                                   /\ rows'[j].revoked = "old"
    BY <1>3, <1>5, <1>6 DEF Issued
  <1>9. RowsTied'
    BY <1>6, <1>7, <1>8 DEF Ties, RowsTied, Issued
  <1> QED
    BY <1>1, <1>6, <1>7, <1>8, <1>9 DEF Grows, Ties, RowsTied

LEMMA GraceEndsTies ==
    ASSUME Ties, NEW i \in DOMAIN rows, GraceEnds(i)
    PROVE  Ties'
  <1>1. Grows
    BY GraceEndsRows
  <1>2. /\ UNCHANGED <<revoke, ended, requests>>
        /\ UNCHANGED browserVars /\ UNCHANGED history
    BY DEF GraceEnds
  <1>3. BrowserTied'
    <2>1. \A t \in Tab : holder = t => requests[tab[t].at].step # "over"
      BY DEF Ties, BrowserTied, TabSound
    <2> QED
      BY <1>1, <1>2, <2>1, ServerKeepsBrowser
  <1> QED
    BY <1>1, <1>2, <1>3, RequestsGrow, RevokesGrow DEF Ties, Grows, HistoryTied,
                                                        history

-----------------------------------------------------------------------------
(* The steps of a tab.                                                      *)

LEMMA TabFacts ==
    ASSUME Ties, NEW t \in Tab
    PROVE  /\ tab[t] \in Memory /\ tab \in [Tab -> Memory] /\ TabSound(t)
           /\ store \in Stored \cup {None} /\ active \in BOOLEAN
           /\ store # None => store.token \in Issued
           /\ notice \subseteq Tab /\ holder \in Tab \cup {None}
           /\ None \notin Nat /\ None \notin Tab /\ Len(rows) \in Nat
           /\ Len(requests) \in Nat /\ requests \in Seq(Request)
           /\ DOMAIN requests = 1 .. Len(requests)
  BY RotationAssumption, LenProperties
  DEF Ties, BrowserTied, RowsTied, RequestsTied

LEMMA WritesKeyReturns ==
    ASSUME Ties, NEW t \in Tab, NEW key \in BOOLEAN, WritesKey(t, key)
    PROVE  active' \in BOOLEAN /\ active' = key /\ notice' \subseteq Tab
  BY DEF WritesKey, Ties, BrowserTied

(* What a tab forgets, and whether it empties the storage. *)
LEMMA DroppedReturns ==
    ASSUME Ties, NEW t \in Tab, NEW m \in Memory, Dropped(t, m)
    PROVE  /\ \/ store' = None /\ active' = FALSE
              \/ store' = store /\ active' = active
           /\ notice' \subseteq Tab
           /\ \E n \in Memory :
                /\ tab' = [tab EXCEPT ![t] = n]
                /\ n.token = None /\ n.version = 0 /\ n.known \in {None, m.known}
                /\ (m.step = "idle" => ~n.moved) /\ (m.step # "idle" => n.moved)
                /\ n.step = m.step /\ n.at = m.at
                /\ n.leaving = m.leaving /\ n.signing = m.signing
  <1>1. CASE Active(m) # None
    <2>1. PICK p : p = [m EXCEPT !.known = None, !.key = FALSE]
      OBVIOUS
    <2>2. /\ p \in Memory /\ p.known = None /\ p.step = m.step /\ p.at = m.at
          /\ p.leaving = m.leaving /\ p.signing = m.signing
      <3>1. p \in Memory
        BY <2>1, Zenon DEF Memory
      <3> QED
        BY <2>1, <3>1, Zenon DEF Memory
    <2>3. tab' = [tab EXCEPT ![t] = Cleared(p)]
      BY <1>1, <2>1 DEF Dropped
    <2>4. store' = None /\ WritesKey(t, FALSE)
      BY <1>1 DEF Dropped, Removes
    <2>5. active' = FALSE /\ notice' \subseteq Tab
      BY <2>4, WritesKeyReturns
    <2>6. /\ Cleared(p) \in Memory /\ Cleared(p).token = None
          /\ Cleared(p).version = 0 /\ Cleared(p).known = None
          /\ Cleared(p).moved = (m.step # "idle") /\ Cleared(p).step = m.step
          /\ Cleared(p).at = m.at
          /\ Cleared(p).leaving = m.leaving /\ Cleared(p).signing = m.signing
      BY <2>2, ClearedReturns
    <2> QED
      BY <2>3, <2>4, <2>5, <2>6
  <1>2. CASE Active(m) = None
    <2>1. tab' = [tab EXCEPT ![t] = Cleared(m)]
      BY <1>2 DEF Dropped
    <2>2. store' = store /\ active' = active /\ notice' = notice
      BY <1>2 DEF Dropped
    <2> QED
      BY <2>1, <2>2, ClearedReturns, TabFacts
  <1> QED
    BY <1>1, <1>2

LEMMA RefreshesReturns ==
    ASSUME Ties, NEW t \in Tab, Refreshes(t)
    PROVE  \E m \in Memory :
             /\ tab' = [tab EXCEPT ![t] = m]
             /\ m.token = tab[t].token /\ m.version = tab[t].version
             /\ m.known = tab[t].known /\ m.step = "waiting" /\ m.at = tab[t].at
             /\ ~m.moved /\ m.leaving = tab[t].leaving /\ ~m.signing
  <1>1. tab[t] \in Memory /\ tab \in [Tab -> Memory]
    BY TabFacts
  <1>2. PICK m : m = [tab[t] EXCEPT !.step = "waiting", !.start = tab[t].version,
                                    !.moved = FALSE]
    OBVIOUS
  <1>3. m \in Memory
    BY <1>1, <1>2 DEF Memory
  <1>4. tab' = [tab EXCEPT ![t] = m]
    BY <1>1, <1>2 DEF Refreshes
  <1>5. /\ m.token = tab[t].token /\ m.version = tab[t].version
        /\ m.known = tab[t].known /\ m.step = "waiting" /\ m.at = tab[t].at
        /\ ~m.moved /\ m.leaving = tab[t].leaving /\ m.signing = tab[t].signing
    BY <1>1, <1>2 DEF Memory
  <1>6. ~tab[t].signing
    BY DEF Refreshes
  <1> QED
    BY <1>3, <1>4, <1>5, <1>6

LEMMA RefreshesTies ==
    ASSUME Ties, NEW t \in Tab, Refreshes(t)
    PROVE  Ties'
  <1>1. PICK m \in Memory :
             /\ tab' = [tab EXCEPT ![t] = m]
             /\ m.token = tab[t].token /\ m.version = tab[t].version
             /\ m.known = tab[t].known /\ m.step = "waiting" /\ m.at = tab[t].at
             /\ ~m.moved /\ m.leaving = tab[t].leaving /\ ~m.signing
    BY RefreshesReturns
  <1>2. /\ UNCHANGED <<rows, sessions, ended, revoke, requests>>
        /\ UNCHANGED <<store, active, notice, holder>> /\ UNCHANGED history
        /\ tab[t].step = "idle" /\ tab[t].token # None
    BY DEF Refreshes, serverVars
  <1>3. Grows
    BY <1>2, GrowsWithoutRows DEF Ties
  <1>4. tab'[t] = m
    BY <1>1, TabFacts
  <1>5. TabSound(t)'
    <2>1. sessions # 0
      BY <1>2, TabFacts DEF Ties, RowsTied, TabSound
    <2> QED
      BY <1>1, <1>2, <1>4, <2>1, TabFacts DEF TabSound, Issued
  <1>6. BrowserTied'
    BY <1>1, <1>2, <1>3, <1>5, TabKeepsBrowser, TabFacts DEF Issued
  <1> QED
    BY <1>2, <1>3, <1>6, RequestsGrow, RevokesGrow DEF Ties, Grows, HistoryTied,
                                                        history

(* Under the lock a tab adopts the newer stored pair, has nothing to        *)
(* present, or presents the stored token, unless its own is not older.      *)
LEMMA AcquiresReturns ==
    ASSUME Ties, NEW t \in Tab, Acquires(t)
    PROVE  LET stored == active /\ store # None
               newer == stored /\ (store.version > tab[t].version \/ tab[t].token = None)
           IN
           \E m \in Memory :
             /\ tab' = [tab EXCEPT ![t] = m]
             /\ m.known \in {None, store} /\ ~m.moved
             /\ m.leaving = tab[t].leaving /\ m.signing = tab[t].signing
             /\ \/ /\ stored
                   /\ m.token = store.token /\ m.version = store.version
                   /\ m.step = "idle" /\ m.at = 0
                   /\ UNCHANGED <<holder, requests>>
                \/ /\ m.token = tab[t].token /\ m.version = tab[t].version
                   /\ m.step = "idle" /\ m.at = 0
                   /\ UNCHANGED <<holder, requests>>
                \/ /\ m.token = tab[t].token /\ m.version = tab[t].version
                   /\ m.step = "sent" /\ m.at = Len(requests) + 1
                   /\ m.key = stored /\ m.target = stored
                   /\ holder' = t
                   /\ \E i \in Token :
                        /\ \/ newer /\ i = store.token
                           \/ ~newer /\ i = tab[t].token
                        /\ requests' = Append(requests,
                              [step |-> "sent", token |-> i, dead |-> FALSE,
                               answer |-> None])
  <1> DEFINE m == Loaded(tab[t])
             stored == active /\ store # None
             newer == stored /\ (store.version > tab[t].version \/ tab[t].token = None)
             newest == m.key /\ m.known.version > m.version
             token == IF newest \/ (m.key /\ m.token = None) THEN m.known.token
                                                             ELSE m.token
  <1>1. /\ tab[t] \in Memory /\ tab \in [Tab -> Memory]
        /\ store \in Stored \cup {None} /\ Len(requests) \in Nat
    BY TabFacts
  <1>2. /\ m \in Memory /\ m.known = (IF active THEN store ELSE None)
        /\ m.key = stored /\ m.token = tab[t].token /\ m.version = tab[t].version
        /\ m.leaving = tab[t].leaving /\ m.signing = tab[t].signing
    BY <1>1, LoadedReturns DEF Ties
  <1>3. m.known \in {None, store}
    BY <1>2
  <1>4. stored => m.known = store /\ store \in Stored
    BY <1>1, <1>2
  <1> HIDE DEF stored
  <1>5. \/ Newer(m) /\ tab' = [tab EXCEPT ![t] = Adopt(m)] /\ UNCHANGED <<holder, requests>>
        \/ /\ ~Newer(m) /\ token = None
           /\ tab' = [tab EXCEPT ![t] = Rest(m)] /\ UNCHANGED <<holder, requests>>
        \/ /\ token # None /\ Len(requests) < MaxRequest /\ holder' = t
           /\ requests' = Append(requests, [step |-> "sent", token |-> token,
                                            dead |-> FALSE, answer |-> None])
           /\ tab' = [tab EXCEPT ![t] =
                [m EXCEPT !.step = "sent", !.start = 0, !.at = Len(requests) + 1,
                          !.sent = IF newest THEN m.known.version ELSE m.version,
                          !.target = Active(m) # None, !.moved = FALSE]]
    BY Zenon DEF Acquires
  <1>6. newest \/ (m.key /\ m.token = None) <=> newer
    BY <1>2, <1>4 DEF newer
  <1>7. token = IF newer THEN store.token ELSE tab[t].token
    BY <1>2, <1>4, <1>6 DEF newer
  <1>8. CASE Newer(m) /\ tab' = [tab EXCEPT ![t] = Adopt(m)] /\ UNCHANGED <<holder, requests>>
    <2> HIDE DEF m
    <2>1. stored /\ m.known = store /\ store \in Stored
      BY <1>2, <1>4, <1>8 DEF Newer
    <2>2. /\ Adopt(m) \in Memory
          /\ Adopt(m).step = "idle" /\ Adopt(m).at = 0 /\ ~Adopt(m).moved
          /\ Adopt(m).token = store.token /\ Adopt(m).version = store.version
          /\ Adopt(m).known = store
          /\ Adopt(m).leaving = m.leaving /\ Adopt(m).signing = m.signing
      BY <1>2, <2>1, AdoptReturns, Zenon
    <2> QED
      BY <1>2, <1>8, <2>1, <2>2, Zenon DEF stored
  <1>9. CASE tab' = [tab EXCEPT ![t] = Rest(m)] /\ UNCHANGED <<holder, requests>>
    <2> HIDE DEF m
    <2>1. /\ Rest(m) \in Memory
          /\ Rest(m).step = "idle" /\ Rest(m).at = 0 /\ ~Rest(m).moved
          /\ Rest(m).token = m.token /\ Rest(m).version = m.version
          /\ Rest(m).known = m.known
          /\ Rest(m).leaving = m.leaving /\ Rest(m).signing = m.signing
      BY <1>2, RestReturns, Zenon
    <2> QED
      BY <1>2, <1>3, <1>9, <2>1, Zenon
  <1>10. CASE /\ token # None /\ Len(requests) < MaxRequest /\ holder' = t
              /\ requests' = Append(requests, [step |-> "sent", token |-> token,
                                               dead |-> FALSE, answer |-> None])
              /\ tab' = [tab EXCEPT ![t] =
                   [m EXCEPT !.step = "sent", !.start = 0, !.at = Len(requests) + 1,
                             !.sent = IF newest THEN m.known.version ELSE m.version,
                             !.target = Active(m) # None, !.moved = FALSE]]
    <2>1. PICK at \in 0 .. MaxRequest : at = Len(requests) + 1
      BY <1>1, <1>10, RotationAssumption
    <2>2. PICK sent \in Nat : sent = IF newest THEN m.known.version ELSE m.version
      <3>1. m.version \in Nat /\ (stored => m.known.version \in Nat)
        BY <1>2, <1>4, MemoryFields DEF Stored
      <3> QED
        BY <1>2, <3>1
    <2>3. (Active(m) # None) = stored
      BY <1>2, <1>4 DEF Active, stored
    <2>4. token \in Token
      <3>1. m.token \in Token \cup {None} /\ (stored => store.token \in Token)
        BY <1>2, <1>4, MemoryFields DEF Stored
      <3> QED
        BY <1>2, <1>7, <1>10, <3>1 DEF newer
    <2>5. stored \in BOOLEAN
      BY DEF stored
    <2> DEFINE n == [m EXCEPT !.step = "sent", !.start = 0, !.at = at, !.sent = sent,
                              !.target = stored, !.moved = FALSE]
    <2>6. tab' = [tab EXCEPT ![t] = n]
      BY <1>10, <2>1, <2>2, <2>3
    <2> HIDE DEF m, newest, token
    <2>7. n \in Memory
      BY <1>2, <2>1, <2>2, <2>5, 0 \in Nat, Zenon DEF Memory
    <2>8. /\ n.token = m.token /\ n.version = m.version /\ n.step = "sent"
          /\ n.at = at /\ n.key = m.key /\ n.target = stored /\ ~n.moved
          /\ n.known = m.known /\ n.leaving = m.leaving /\ n.signing = m.signing
      BY <1>2, <2>7, Zenon DEF Memory
    <2>9. \/ newer /\ token = store.token
          \/ ~newer /\ token = tab[t].token
      BY <1>7
    <2> HIDE DEF n, newer
    <2>10. \E i \in Token :
             /\ \/ newer /\ i = store.token
                \/ ~newer /\ i = tab[t].token
             /\ requests' = Append(requests, [step |-> "sent", token |-> i,
                                              dead |-> FALSE, answer |-> None])
      BY <1>10, <2>4, <2>9
    <2>11. /\ n.known \in {None, store} /\ ~n.moved /\ n.token = tab[t].token
           /\ n.version = tab[t].version /\ n.at = Len(requests) + 1
           /\ n.leaving = tab[t].leaving /\ n.signing = tab[t].signing
           /\ n.key = stored /\ n.target = stored /\ n.step = "sent"
      BY <1>2, <1>3, <2>1, <2>8, Zenon
    <2> QED
      BY <1>10, <2>6, <2>7, <2>10, <2>11, Zenon DEF newer, stored
  <1> QED
    BY <1>5, <1>8, <1>9, <1>10

LEMMA AcquiresTies ==
    ASSUME Ties, NEW t \in Tab, Acquires(t)
    PROVE  Ties'
  <1> DEFINE stored == active /\ store # None
             newer == stored /\ (store.version > tab[t].version \/ tab[t].token = None)
             Sent(m) == /\ m.token = tab[t].token /\ m.step = "sent"
                        /\ m.at = Len(requests) + 1 /\ holder' = t
                        /\ \E i \in Token :
                             /\ \/ newer /\ i = store.token
                                \/ ~newer /\ i = tab[t].token
                             /\ requests' = Append(requests,
                                  [step |-> "sent", token |-> i, dead |-> FALSE,
                                   answer |-> None])
             Rests(m) == /\ m.step = "idle" /\ m.at = 0 /\ UNCHANGED <<holder, requests>>
                         /\ \/ stored /\ m.token = store.token
                            \/ m.token = tab[t].token
  <1>1. PICK m \in Memory :
          /\ tab' = [tab EXCEPT ![t] = m]
          /\ m.known \in {None, store} /\ ~m.moved
          /\ m.leaving = tab[t].leaving /\ m.signing = tab[t].signing
          /\ Rests(m) \/ Sent(m)
    BY AcquiresReturns
  <1>2. /\ UNCHANGED <<rows, sessions, ended, revoke, store, active, notice>>
        /\ UNCHANGED history /\ holder = None /\ tab[t].step = "waiting"
    BY DEF Acquires
  <1>3. Grows
    BY <1>2, GrowsWithoutRows DEF Ties
  <1>4. tab'[t] = m
    BY <1>1, TabFacts
  <1>5. sessions # 0
    BY <1>2, TabFacts DEF TabSound
  <1>6. /\ m.known # None => m.known.token \in Issued
        /\ stored => store.token \in Issued
        /\ tab[t].token # None => tab[t].token \in Issued
    BY <1>1, TabFacts DEF TabSound
  <1>7. CASE Rests(m)
    <2>1. TabSound(t)'
      BY <1>1, <1>2, <1>4, <1>5, <1>6, <1>7, TabFacts DEF TabSound, Issued
    <2>2. BrowserTied'
      BY <1>1, <1>2, <1>3, <1>7, <2>1, TabKeepsBrowser, TabFacts DEF Issued
    <2> QED
      BY <1>2, <1>3, <1>7, <2>2, RequestsGrow, RevokesGrow DEF Ties, Grows, HistoryTied,
                                                          history
  <1>8. CASE Sent(m)
    <2>1. PICK i \in Token :
            /\ \/ newer /\ i = store.token
               \/ ~newer /\ i = tab[t].token
            /\ requests' = Append(requests, [step |-> "sent", token |-> i,
                                             dead |-> FALSE, answer |-> None])
      BY <1>8
    <2>2. i \in Issued
      BY <1>6, <2>1, RotationAssumption DEF Token
    <2> DEFINE q == [step |-> "sent", token |-> i, dead |-> FALSE, answer |-> None]
    <2>3. q \in Request /\ RequestSound(q)'
      BY <1>2, <2>2 DEF Request, RequestSound, Issued
    <2>4. q.step = "sent"
      OBVIOUS
    <2>5. requests' = Append(requests, q)
      BY <2>1
    <2>6. PICK p \in Request : p = q
      BY <2>3
    <2>7. RequestSound(p)' /\ p.step = "sent"
      BY <2>3, <2>4, <2>6 DEF RequestSound
    <2> HIDE DEF q
    <2>8. /\ requests' \in Seq(Request) /\ Len(requests') = Len(requests) + 1
          /\ \A x \in 1 .. Len(requests) : requests'[x] = requests[x]
          /\ requests'[Len(requests) + 1] = p
      BY <2>5, <2>6, AppendProperties, TabFacts
    <2>9. RequestsTied'
      <3>1. ASSUME NEW x \in 1 .. Len(requests) PROVE RequestSound(requests[x])'
        <4>1. PICK y \in Request : y = requests[x] /\ RequestSound(y)
          BY TabFacts DEF Ties, RequestsTied
        <4>2. RequestSound(y)'
          BY <1>3, <4>1, SoundGrows
        <4> QED
          BY <2>8, <4>1, <4>2 DEF RequestSound
      <3>2. ASSUME NEW x \in 1 .. Len(requests'), x = Len(requests) + 1
            PROVE  RequestSound(requests[x])'
        BY <2>7, <2>8, <3>2 DEF RequestSound
      <3>3. \A x \in 1 .. Len(requests') :
              x \in 1 .. Len(requests) \/ x = Len(requests) + 1
        BY <2>8, TabFacts
      <3>4. \A x \in 1 .. Len(requests') : RequestSound(requests[x])'
        BY <3>1, <3>2, <3>3
      <3> QED
        BY <2>8, <3>4 DEF RequestsTied
    <2>10. TabSound(t)'
      BY <1>1, <1>2, <1>4, <1>5, <1>6, <1>8, <2>7, <2>8, TabFacts DEF TabSound, Issued
    <2>11. BrowserTied'
      BY <1>1, <1>2, <1>3, <1>8, <2>10, TabKeepsBrowser, TabFacts DEF Issued
    <2> QED
      BY <1>2, <1>3, <2>9, <2>11, RevokesGrow DEF Ties, Grows, HistoryTied, history
  <1> QED
    BY <1>1, <1>7, <1>8

(* The request of the tab is over. *)
LEMMA ClosesKeeps ==
    ASSUME Ties, Grows, NEW t \in Tab, holder = t,
           requests' = [requests EXCEPT ![tab[t].at] = Over]
    PROVE  /\ RequestsTied' /\ Len(requests') = Len(requests)
           /\ tab[t].at \in 1 .. Len(requests)
           /\ \A x \in 1 .. Len(requests) :
                requests'[x] = IF x = tab[t].at THEN Over ELSE requests[x]
  <1>1. tab[t].at \in 1 .. Len(requests)
    BY TabFacts DEF TabSound
  <1>2. PICK q \in Request : q = Over
    BY OverSound
  <1>3. RequestSound(q)'
    BY <1>2, OverSound DEF RequestSound
  <1> QED
    BY <1>1, <1>2, <1>3, RequestChanges

(* A pair for a tab whose session did not change is the tab's, and its      *)
(* version the stored one.                                                  *)
LEMMA RotatedReturns ==
    ASSUME Ties, NEW t \in Tab, NEW saved \in BOOLEAN, Rotated(t, saved)
    PROVE  LET n == Request_(t).answer IN
           /\ holder = t /\ Request_(t).step = "answered"
           /\ n \in Issued /\ n \in Token
           /\ SessionOf(n) = SessionOf(Request_(t).token)
           /\ SessionOf(n) \in Session
           /\ store' = IF tab[t].target /\ saved THEN Updated(n) ELSE store
           /\ active' = IF tab[t].target THEN tab[t].key ELSE active
           /\ notice' \subseteq Tab
           /\ store' \in Stored \cup {None}
           /\ store' # None => store'.token \in Issued
           /\ \E m \in Memory :
                /\ tab' = [tab EXCEPT ![t] = m]
                /\ m.step = "idle" /\ m.at = 0 /\ ~m.moved
                /\ m.leaving = tab[t].leaving /\ m.signing = tab[t].signing
                /\ m.known # None => m.known.token \in Issued
                /\ m.known = tab[t].known \/ (m.known # None => m.known.token = n)
                /\ m.token = IF tab[t].moved THEN tab[t].token ELSE n
                /\ ~tab[t].moved /\ tab[t].target /\ tab[t].key /\ store # None =>
                     m.version = store.version + 1
  <1> DEFINE n == Request_(t).answer
             known == IF tab[t].target THEN Updated(n) ELSE Rest(tab[t]).known
             kept == [Rest(tab[t]) EXCEPT !.known = known]
             version == IF Active(kept) # None THEN kept.known.version
                                               ELSE tab[t].version + 1
  <1>1. /\ tab[t] \in Memory /\ tab \in [Tab -> Memory]
        /\ store \in Stored \cup {None} /\ TabSound(t)
        /\ store # None => store.token \in Issued
    BY TabFacts
  <1>2. holder = t /\ Request_(t).step = "answered" /\ n # None
    BY <1>1 DEF Rotated, TabSound
  <1>3. Request_(t) \in Request /\ RequestSound(Request_(t))
    BY <1>1, <1>2 DEF Ties, RequestsTied, Request_, TabSound
  <1>4. /\ n \in Issued /\ n \in Token /\ SessionOf(n) = SessionOf(Request_(t).token)
        /\ SessionOf(n) \in Session
    <2>1. n \in Issued /\ n \in Token /\ SessionOf(n) = SessionOf(Request_(t).token)
      BY <1>2, <1>3 DEF RequestSound, Request
    <2>2. SessionOf(n) \in 1 .. sessions
      BY <2>1 DEF SessionOf, Ties, RowsTied
    <2> QED
      BY <2>1, <2>2, RotationAssumption DEF Ties, RowsTied, Session
  <1> HIDE DEF n
  <1>5. Updated(n) \in Stored \cup {None} /\ (Updated(n) # None => Updated(n).token \in Issued)
    BY <1>1, <1>4 DEF Updated, Stored
  <1>6. /\ store' = IF tab[t].target /\ saved THEN Updated(n) ELSE store
        /\ active' = IF tab[t].target THEN tab[t].key ELSE active
        /\ notice' \subseteq Tab
    <2>1. IF tab[t].target
            THEN /\ store' = IF saved THEN Updated(n) ELSE store
                 /\ WritesKey(t, tab[t].key)
            ELSE UNCHANGED <<store, active, notice>>
      BY DEF Rotated, n
    <2> QED
      BY <1>1, <2>1, WritesKeyReturns, MemoryFields, TabFacts
  <1>7. /\ Rest(tab[t]) \in Memory
        /\ Rest(tab[t]).step = "idle" /\ Rest(tab[t]).at = 0 /\ ~Rest(tab[t]).moved
        /\ Rest(tab[t]).token = tab[t].token /\ Rest(tab[t]).version = tab[t].version
        /\ Rest(tab[t]).key = tab[t].key /\ Rest(tab[t]).known = tab[t].known
        /\ Rest(tab[t]).leaving = tab[t].leaving /\ Rest(tab[t]).signing = tab[t].signing
    BY <1>1, RestReturns
  <1>8. known \in Stored \cup {None} /\ (known # None => known.token \in Issued)
    BY <1>1, <1>5, <1>7, MemoryFields DEF TabSound
  <1>9. tab' = [tab EXCEPT ![t] = IF tab[t].moved THEN kept
                  ELSE [kept EXCEPT !.token = n, !.version = version]]
    BY DEF Rotated, n
  <1>10. kept \in Memory /\ kept.known = known /\ kept.key = tab[t].key
    <2> HIDE DEF known
    <2>1. kept \in Memory
      BY <1>7, <1>8, Zenon DEF Memory
    <2> QED
      BY <1>7, <2>1, Zenon DEF Memory
  <1>11. /\ kept.step = "idle" /\ kept.at = 0 /\ ~kept.moved
         /\ kept.token = tab[t].token /\ kept.leaving = tab[t].leaving
         /\ kept.signing = tab[t].signing
    <2> HIDE DEF known
    <2> QED
      BY <1>7, <1>10, Zenon DEF Memory
  <1>12. version \in Nat /\ (tab[t].target /\ tab[t].key /\ store # None =>
                               version = store.version + 1)
    <2>1. tab[t].version \in Nat /\ tab[t].key \in BOOLEAN
      BY <1>1, MemoryFields
    <2>2. Active(kept) = IF tab[t].key THEN known ELSE None
      BY <1>10 DEF Active
    <2>3. known # None => known.version \in Nat
      BY <1>8 DEF Stored
    <2>4. tab[t].target /\ store # None => known = [token |-> n, version |-> store.version + 1]
      BY DEF Updated
    <2>5. tab[t].target /\ store # None => known # None
      <3>1. ASSUME tab[t].target, store # None, known = None PROVE FALSE
        <4>1. store \in Stored
          BY <1>1, <3>1
        <4> QED
          BY <4>1, <1>4, <2>4, <3>1, RotationAssumption DEF Stored, Token
      <3> QED
        BY <3>1
    <2> HIDE DEF kept, known
    <2> QED
      BY <1>10, <2>1, <2>2, <2>3, <2>4, <2>5
  <1> DEFINE m == IF tab[t].moved THEN kept
                  ELSE [kept EXCEPT !.token = n, !.version = version]
  <1>13. /\ m \in Memory /\ m.step = "idle" /\ m.at = 0 /\ ~m.moved
         /\ m.leaving = tab[t].leaving /\ m.signing = tab[t].signing
         /\ m.known = known
         /\ m.token = IF tab[t].moved THEN tab[t].token ELSE n
         /\ ~tab[t].moved => m.version = version
    <2>1. CASE tab[t].moved
      BY <1>10, <1>11, <2>1
    <2>2. CASE ~tab[t].moved
      <3> DEFINE p == [kept EXCEPT !.token = n, !.version = version]
      <3> HIDE DEF kept, known, version
      <3>1. p \in Memory
        BY <1>4, <1>10, <1>12, Zenon DEF Memory
      <3>2. /\ p.step = kept.step /\ p.at = kept.at /\ p.moved = kept.moved
            /\ p.leaving = kept.leaving /\ p.signing = kept.signing
            /\ p.known = kept.known /\ p.token = n /\ p.version = version
        BY <1>10, <3>1, Zenon DEF Memory
      <3>3. m = p
        BY <2>2
      <3> HIDE DEF p, m
      <3> QED
        BY <1>10, <1>11, <2>2, <3>1, <3>2, <3>3
    <2> QED
      BY <2>1, <2>2
  <1>14. tab' = [tab EXCEPT ![t] = m]
    BY <1>9
  <1>15. store' \in Stored \cup {None} /\ (store' # None => store'.token \in Issued)
    BY <1>1, <1>5, <1>6
  <1>16. known = tab[t].known \/ (known # None => known.token = n)
    BY <1>7 DEF Updated
  <1> HIDE DEF m, kept, known, version
  <1> QED
    BY <1>2, <1>4, <1>6, <1>8, <1>12, <1>13, <1>14, <1>15, <1>16 DEF n

LEMMA RotatedTies ==
    ASSUME Ties, NEW t \in Tab, NEW saved \in BOOLEAN, Rotated(t, saved)
    PROVE  Ties'
  <1> DEFINE n == Request_(t).answer
  <1>1. /\ holder = t /\ SessionOf(Request_(t).token) \in Session
        /\ notice' \subseteq Tab /\ store' \in Stored \cup {None}
        /\ store' # None => store'.token \in Issued
        /\ active' = IF tab[t].target THEN tab[t].key ELSE active
        /\ n \in Issued
    BY RotatedReturns
  <1>2. PICK m \in Memory :
          /\ tab' = [tab EXCEPT ![t] = m]
          /\ m.step = "idle" /\ m.at = 0 /\ ~m.moved
          /\ m.leaving = tab[t].leaving /\ m.signing = tab[t].signing
          /\ m.known # None => m.known.token \in Issued
          /\ m.token = IF tab[t].moved THEN tab[t].token ELSE n
    BY RotatedReturns
  <1>3. /\ holder' = None /\ requests' = [requests EXCEPT ![tab[t].at] = Over]
        /\ UNCHANGED <<rows, sessions, ended, revoke, crossed, reused>>
        /\ lossy' \in {lossy, lossy \cup {SessionOf(Request_(t).token)}}
    BY DEF Rotated, Closes
  <1>4. Grows
    BY <1>3, GrowsWithoutRows DEF Ties
  <1>5. RequestsTied'
    BY <1>1, <1>3, <1>4, ClosesKeeps
  <1>6. sessions # 0 /\ tab'[t] = m
    BY <1>1, <1>2, TabFacts DEF TabSound
  <1>7. TabSound(t)'
    <2>1. m.token # None => m.token \in Issued
      BY <1>1, <1>2, TabFacts DEF TabSound
    <2> QED
      BY <1>2, <1>3, <1>6, <2>1, TabFacts DEF TabSound, Issued
  <1>8. active' \in BOOLEAN
    BY <1>1, TabFacts, MemoryFields
  <1>9. BrowserTied'
    BY <1>1, <1>2, <1>3, <1>4, <1>7, <1>8, TabKeepsBrowser, TabFacts DEF Issued
  <1> QED
    BY <1>1, <1>3, <1>4, <1>5, <1>9, RevokesGrow DEF Ties, Grows, HistoryTied

(* A refusal: the tab adopts a newer pair, gives the session up, or, if it  *)
(* changed session meanwhile, lets go of what it asked for.                 *)
LEMMA IsRefusedReturns ==
    ASSUME Ties, NEW t \in Tab, IsRefused(t)
    PROVE  /\ holder = t
           /\ Request_(t).step = "answered" /\ Request_(t).answer = None
           /\ notice' \subseteq Tab
           /\ \/ store' = store /\ active' = active
              \/ store' = None /\ active' = FALSE /\ tab[t].moved
           /\ \E m \in Memory :
                /\ tab' = [tab EXCEPT ![t] = m]
                /\ m.leaving = tab[t].leaving /\ m.signing = tab[t].signing
                /\ m.known \in {None, store, tab[t].known} /\ ~m.moved
                /\ \/ m.token = tab[t].token /\ m.version = tab[t].version
                   \/ /\ active /\ store # None /\ ~tab[t].moved
                      /\ m.token = store.token /\ m.version = store.version
                /\ \/ m.step = "idle" /\ m.at = 0 /\ Closes(t)
                   \/ /\ m.step = "dropping" /\ m.at = tab[t].at
                      /\ ~tab[t].moved /\ UNCHANGED <<holder, requests>>
  <1> DEFINE m == Loaded(tab[t])
  <1>1. /\ tab[t] \in Memory /\ tab \in [Tab -> Memory]
        /\ store \in Stored \cup {None} /\ TabSound(t) /\ notice \subseteq Tab
    BY TabFacts
  <1>2. /\ tab[t].step = "sent" /\ holder = t
        /\ Request_(t).step = "answered" /\ Request_(t).answer = None
    BY <1>1 DEF IsRefused, TabSound
  <1>3. /\ m \in Memory /\ m.known = (IF active THEN store ELSE None)
        /\ m.key = (active /\ store # None)
        /\ m.token = tab[t].token /\ m.version = tab[t].version
        /\ m.step = tab[t].step /\ m.at = tab[t].at /\ m.moved = tab[t].moved
        /\ m.leaving = tab[t].leaving /\ m.signing = tab[t].signing
    BY <1>1, LoadedReturns DEF Ties
  <1>4. /\ Rest(tab[t]) \in Memory
        /\ Rest(tab[t]).step = "idle" /\ Rest(tab[t]).at = 0 /\ ~Rest(tab[t]).moved
        /\ Rest(tab[t]).token = tab[t].token /\ Rest(tab[t]).version = tab[t].version
        /\ Rest(tab[t]).known = tab[t].known
        /\ Rest(tab[t]).leaving = tab[t].leaving /\ Rest(tab[t]).signing = tab[t].signing
    BY <1>1, RestReturns
  <1> HIDE DEF m
  <1>5. CASE tab[t].moved /\ tab[t].target
    <2>1. PICK p : p = [Rest(tab[t]) EXCEPT !.known = None, !.key = FALSE]
      OBVIOUS
    <2>2. p \in Memory
      BY <1>4, <2>1, Zenon DEF Memory
    <2>3. /\ p.known = None /\ p.step = "idle" /\ p.at = 0 /\ ~p.moved
          /\ p.token = tab[t].token /\ p.version = tab[t].version
          /\ p.leaving = tab[t].leaving /\ p.signing = tab[t].signing
      BY <1>4, <2>1, Zenon DEF Memory
    <2>4. Closes(t) /\ Removes(t) /\ tab' = [tab EXCEPT ![t] = p]
      BY <1>5, <2>1 DEF IsRefused
    <2>5. store' = None /\ active' = FALSE /\ notice' \subseteq Tab
      BY <2>4, WritesKeyReturns DEF Removes
    <2> QED
      BY <1>2, <1>5, <2>2, <2>3, <2>4, <2>5
  <1>6. CASE tab[t].moved /\ ~tab[t].target
    <2>1. /\ Closes(t) /\ tab' = [tab EXCEPT ![t] = Rest(tab[t])]
          /\ UNCHANGED <<store, active, notice>>
      BY <1>6 DEF IsRefused
    <2> QED
      BY <1>1, <1>2, <1>4, <2>1
  <1>7. CASE ~tab[t].moved /\ Stale(m)
    <2>1. m.known = store /\ active /\ store # None /\ store \in Stored
      BY <1>1, <1>3, <1>7 DEF Stale
    <2>2. /\ Closes(t) /\ tab' = [tab EXCEPT ![t] = Adopt(m)]
          /\ UNCHANGED <<store, active, notice>>
      BY <1>7 DEF IsRefused, m
    <2>3. /\ Adopt(m) \in Memory
          /\ Adopt(m).step = "idle" /\ Adopt(m).at = 0 /\ ~Adopt(m).moved
          /\ Adopt(m).token = store.token /\ Adopt(m).version = store.version
          /\ Adopt(m).known = store
          /\ Adopt(m).leaving = m.leaving /\ Adopt(m).signing = m.signing
      BY <1>3, <2>1, AdoptReturns, Zenon
    <2> QED
      BY <1>1, <1>2, <1>3, <1>7, <2>1, <2>2, <2>3
  <1>8. CASE ~tab[t].moved /\ ~Stale(m)
    <2>1. /\ tab' = [tab EXCEPT ![t] = [m EXCEPT !.step = "dropping"]]
          /\ UNCHANGED <<store, active, notice, holder, requests>>
      BY <1>8 DEF IsRefused, m
    <2>2. PICK p : p = [m EXCEPT !.step = "dropping"]
      OBVIOUS
    <2>3. p \in Memory
      BY <1>3, <2>2, Zenon DEF Memory
    <2>4. /\ p.known = m.known /\ p.step = "dropping" /\ p.at = tab[t].at
          /\ p.moved = m.moved
          /\ p.token = tab[t].token /\ p.version = tab[t].version
          /\ p.leaving = tab[t].leaving /\ p.signing = tab[t].signing
      BY <1>3, <2>2, Zenon DEF Memory
    <2>5. p.known \in {None, store, tab[t].known}
      BY <1>3, <2>4
    <2> QED
      BY <1>1, <1>2, <1>3, <1>8, <2>1, <2>2, <2>3, <2>4, <2>5
  <1> QED
    BY <1>5, <1>6, <1>7, <1>8

LEMMA IsRefusedTies ==
    ASSUME Ties, NEW t \in Tab, IsRefused(t)
    PROVE  Ties'
  <1>1. /\ holder = t /\ Request_(t).step = "answered" /\ notice' \subseteq Tab
        /\ \/ store' = store /\ active' = active
           \/ store' = None /\ active' = FALSE
    BY IsRefusedReturns
  <1>2. PICK m \in Memory :
          /\ tab' = [tab EXCEPT ![t] = m]
          /\ m.leaving = tab[t].leaving /\ m.signing = tab[t].signing
          /\ m.known \in {None, store, tab[t].known} /\ ~m.moved
          /\ \/ m.token = tab[t].token
             \/ store # None /\ m.token = store.token
          /\ \/ m.step = "idle" /\ m.at = 0 /\ Closes(t)
             \/ /\ m.step = "dropping" /\ m.at = tab[t].at
                /\ UNCHANGED <<holder, requests>>
    BY IsRefusedReturns
  <1>3. UNCHANGED <<rows, sessions, ended, revoke>> /\ UNCHANGED history
    BY DEF IsRefused
  <1>4. Grows
    BY <1>3, GrowsWithoutRows DEF Ties
  <1>5. RequestsTied'
    BY <1>1, <1>2, <1>4, ClosesKeeps, RequestsGrow DEF Closes
  <1>6. sessions # 0 /\ tab'[t] = m
    BY <1>1, <1>2, TabFacts DEF TabSound
  <1>7. TabSound(t)'
    <2>1. /\ m.token # None => m.token \in Issued
          /\ m.known # None => m.known.token \in Issued
      BY <1>2, TabFacts DEF TabSound
    <2> QED
      BY <1>1, <1>2, <1>3, <1>6, <2>1, TabFacts DEF TabSound, Issued, Closes, Request_
  <1>8. /\ active' \in BOOLEAN /\ store' \in Stored \cup {None}
        /\ store' # None => store'.token \in Issued
    BY <1>1, TabFacts
  <1>9. holder' \in {None, t}
    BY <1>1, <1>2 DEF Closes
  <1>10. BrowserTied'
    BY <1>1, <1>2, <1>3, <1>4, <1>7, <1>8, <1>9, TabKeepsBrowser, TabFacts DEF Issued
  <1> QED
    BY <1>3, <1>4, <1>5, <1>10, RevokesGrow DEF Ties, Grows, HistoryTied, history

LEMMA DropsTies ==
    ASSUME Ties, NEW t \in Tab, Drops(t)
    PROVE  Ties'
  <1>1. /\ tab[t].step = "dropping" /\ holder = t
        /\ Rest(tab[t]) \in Memory /\ Rest(tab[t]).step = "idle"
        /\ Rest(tab[t]).at = 0 /\ Rest(tab[t]).known = tab[t].known
    BY TabFacts, RestReturns DEF Drops, TabSound
  <1>2. /\ Dropped(t, Rest(tab[t])) /\ Closes(t)
        /\ UNCHANGED <<rows, sessions, ended, revoke>> /\ UNCHANGED history
    BY DEF Drops
  <1>3. /\ store' \in {None, store} /\ active' \in {FALSE, active} /\ notice' \subseteq Tab
    BY <1>1, <1>2, DroppedReturns
  <1>4. PICK m \in Memory :
          /\ tab' = [tab EXCEPT ![t] = m]
          /\ m.token = None /\ m.known \in {None, tab[t].known}
          /\ ~m.moved /\ m.step = "idle" /\ m.at = 0
    <2> DEFINE p == Rest(tab[t])
    <2>1. p \in Memory /\ Dropped(t, p)
      BY <1>1, <1>2
    <2>2. p.step = "idle" /\ p.at = 0 /\ p.known = tab[t].known
      BY <1>1
    <2> HIDE DEF p
    <2>3. \E n \in Memory :
                /\ tab' = [tab EXCEPT ![t] = n]
                /\ n.token = None /\ n.version = 0 /\ n.known \in {None, p.known}
                /\ (p.step = "idle" => ~n.moved) /\ (p.step # "idle" => n.moved)
                /\ n.step = p.step /\ n.at = p.at
                /\ n.leaving = p.leaving /\ n.signing = p.signing
      BY <2>1, DroppedReturns
    <2> QED
      BY <2>2, <2>3
  <1>5. Grows
    BY <1>2, GrowsWithoutRows DEF Ties
  <1>6. RequestsTied'
    BY <1>1, <1>2, <1>5, ClosesKeeps DEF Closes
  <1>7. sessions # 0 /\ tab'[t] = m
    BY <1>1, <1>4, TabFacts DEF TabSound
  <1>8. TabSound(t)'
    BY <1>2, <1>4, <1>7, TabFacts DEF TabSound, Issued, Closes
  <1>9. BrowserTied'
    BY <1>1, <1>2, <1>3, <1>4, <1>5, <1>8, TabKeepsBrowser, TabFacts DEF Issued, Closes
  <1> QED
    BY <1>2, <1>5, <1>6, <1>9, RevokesGrow DEF Ties, Grows, HistoryTied, history

LEMMA UnheardIsSession ==
    ASSUME Ties, NEW t \in Tab
    PROVE  Unheard(t) \subseteq Session
  <1>1. CASE tab[t].step = "sent"
    <2>1. RequestSound(Request_(t)) /\ Request_(t).step # "over"
      BY <1>1, TabFacts DEF Request_, TabSound, Ties, RequestsTied
    <2>2. SessionOf(Request_(t).token) \in 1 .. sessions
      BY <2>1 DEF RequestSound, SessionOf, Ties, RowsTied
    <2> QED
      BY <2>2, RotationAssumption DEF Unheard, Session, Ties, RowsTied
  <1>2. CASE tab[t].step # "sent"
    BY <1>2 DEF Unheard
  <1> QED
    BY <1>1, <1>2

LEMMA LosesTies ==
    ASSUME Ties, NEW t \in Tab, Loses(t)
    PROVE  Ties'
  <1>1. /\ tab[t].step = "sent" /\ holder = t
        /\ tab' = [tab EXCEPT ![t] = Rest(tab[t])] /\ holder' = None
        /\ UNCHANGED <<rows, sessions, ended, revoke, store, active, notice,
                       crossed, reused>>
        /\ lossy' = lossy \cup Unheard(t)
    BY TabFacts DEF Loses, TabSound
  <1>2. Grows
    BY <1>1, GrowsWithoutRows DEF Ties
  <1>3. RequestsTied'
    <2>1. \/ requests' = [requests EXCEPT ![tab[t].at] = Over]
          \/ requests' = [requests EXCEPT ![tab[t].at] = requests[tab[t].at]]
      BY DEF Loses
    <2>2. requests = [requests EXCEPT ![tab[t].at] = requests[tab[t].at]]
      BY TabFacts
    <2> QED
      BY <1>1, <1>2, <2>1, <2>2, ClosesKeeps, RequestsGrow
  <1>4. /\ Rest(tab[t]) \in Memory /\ Rest(tab[t]).step = "idle"
        /\ Rest(tab[t]).at = 0 /\ ~Rest(tab[t]).moved
        /\ Rest(tab[t]).token = tab[t].token /\ Rest(tab[t]).known = tab[t].known
    BY TabFacts, RestReturns
  <1>5. sessions # 0 /\ tab'[t] = Rest(tab[t])
    BY <1>1, TabFacts DEF TabSound
  <1>6. TabSound(t)'
    BY <1>1, <1>4, <1>5, TabFacts DEF TabSound, Issued
  <1>7. BrowserTied'
    BY <1>1, <1>2, <1>4, <1>6, TabKeepsBrowser, TabFacts DEF Issued
  <1> QED
    BY <1>1, <1>2, <1>3, <1>7, RevokesGrow, UnheardIsSession
    DEF Ties, Grows, HistoryTied

(* A page that is loaded starts from the storage. *)
LEMMA ReloadsReturns ==
    ASSUME Ties, NEW t \in Tab, Reloads(t)
    PROVE  \E m \in Memory :
             /\ tab' = [tab EXCEPT ![t] = m]
             /\ m.step = "idle" /\ m.at = 0 /\ ~m.moved /\ ~m.leaving /\ ~m.signing
             /\ m.known \in {None, store}
             /\ \/ m.token = None
                \/ /\ active /\ store # None
                   /\ m.token = store.token /\ m.version = store.version
  <1> DEFINE m == Loaded(SignedOut)
             p == [m EXCEPT !.token = store.token, !.version = store.version]
  <1>1. /\ m \in Memory /\ m.known = (IF active THEN store ELSE None)
        /\ m.key = (active /\ store # None) /\ m.token = None /\ m.step = "idle"
        /\ m.at = 0 /\ ~m.moved /\ ~m.leaving /\ ~m.signing
    BY LoadedReturns, SignedOutSound DEF Ties, SignedOut
  <1>2. tab' = [tab EXCEPT ![t] = IF Active(m) = None THEN m ELSE p]
    BY DEF Reloads
  <1>3. m.known \in {None, store}
    BY <1>1
  <1>4. Active(m) # None => active /\ store # None
    BY <1>1 DEF Active
  <1> HIDE DEF m
  <1>5. CASE Active(m) = None
    BY <1>1, <1>2, <1>3, <1>5
  <1>6. CASE Active(m) # None
    <2>1. store.token \in Token /\ store.version \in Nat
      BY <1>4, <1>6, TabFacts DEF Stored
    <2>2. p \in Memory
      BY <1>1, <2>1, Zenon DEF Memory
    <2>3. /\ p.step = m.step /\ p.at = m.at /\ p.moved = m.moved
          /\ p.leaving = m.leaving /\ p.signing = m.signing /\ p.known = m.known
          /\ p.token = store.token /\ p.version = store.version
      BY <1>1, <2>2, Zenon DEF Memory
    <2> HIDE DEF p
    <2> QED
      BY <1>1, <1>2, <1>3, <1>4, <1>6, <2>2, <2>3
  <1> QED
    BY <1>5, <1>6

LEMMA ReloadsTies ==
    ASSUME Ties, NEW t \in Tab, Reloads(t)
    PROVE  Ties'
  <1>1. PICK m \in Memory :
          /\ tab' = [tab EXCEPT ![t] = m]
          /\ m.step = "idle" /\ m.at = 0 /\ ~m.moved /\ ~m.leaving /\ ~m.signing
          /\ m.known \in {None, store}
          /\ \/ m.token = None
             \/ /\ active /\ store # None
                /\ m.token = store.token /\ m.version = store.version
    BY ReloadsReturns
  <1>2. /\ notice' = notice \ {t} /\ holder' = IF holder = t THEN None ELSE holder
        /\ lossy' = lossy \cup Unheard(t)
        /\ UNCHANGED <<rows, sessions, ended, revoke, store, active, crossed, reused>>
        /\ requests' = IF tab[t].at # 0 /\ Request_(t).step = "answered"
                         THEN [requests EXCEPT ![tab[t].at] = Over] ELSE requests
    BY DEF Reloads
  <1>3. Grows
    BY <1>2, GrowsWithoutRows DEF Ties
  <1>4. \/ requests' = requests
        \/ holder = t /\ requests' = [requests EXCEPT ![tab[t].at] = Over]
    <2>1. tab[t].at # 0 <=> holder = t
      BY TabFacts DEF TabSound
    <2> QED
      BY <1>2, <2>1
  <1>5. RequestsTied'
    BY <1>3, <1>4, ClosesKeeps, RequestsGrow
  <1>6. tab'[t] = m
    BY <1>1, TabFacts
  <1>7. TabSound(t)'
    BY <1>1, <1>2, <1>6, TabFacts DEF TabSound, Issued
  <1>8. BrowserTied'
    BY <1>1, <1>2, <1>3, <1>4, <1>7, TabKeepsBrowser, TabFacts DEF Issued
  <1> QED
    BY <1>2, <1>3, <1>5, <1>8, RevokesGrow, UnheardIsSession
    DEF Ties, Grows, HistoryTied

LEMMA IgnoresTies ==
    ASSUME Ties, NEW t \in Tab, Ignores(t)
    PROVE  Ties'
  <1>1. /\ UNCHANGED <<rows, sessions, ended, revoke, requests>>
        /\ UNCHANGED <<store, active, holder, tab>> /\ UNCHANGED history
        /\ notice' = notice \ {t}
    BY DEF Ignores, serverVars
  <1>2. Grows
    BY <1>1, GrowsWithoutRows DEF Ties
  <1>3. tab' = [tab EXCEPT ![t] = tab[t]] /\ TabSound(t)'
    BY <1>1, TabFacts DEF TabSound, Issued
  <1>4. BrowserTied'
    BY <1>1, <1>2, <1>3, TabKeepsBrowser, TabFacts DEF Issued
  <1> QED
    BY <1>1, <1>2, <1>4, RequestsGrow, RevokesGrow DEF Ties, Grows, HistoryTied,
                                                        history

LEMMA LogsOutReturns ==
    ASSUME Ties, NEW t \in Tab, NEW heard \in BOOLEAN, LogsOut(t, heard)
    PROVE  /\ SessionOf(tab[t].token) \in 1 .. sessions
           /\ SessionOf(tab[t].token) \in Session
           /\ \E m \in Memory :
                /\ tab' = [tab EXCEPT ![t] = m]
                /\ m.token = tab[t].token /\ m.known = tab[t].known
                /\ m.version = tab[t].version /\ m.step = tab[t].step
                /\ m.at = tab[t].at /\ m.moved = tab[t].moved /\ m.leaving
                /\ m.signing = tab[t].signing
  <1>1. tab[t].token # None /\ tab[t].token \in Issued
    BY TabFacts DEF LogsOut, TabSound
  <1>2. SessionOf(tab[t].token) \in 1 .. sessions
    BY <1>1 DEF Ties, RowsTied, SessionOf
  <1>3. PICK m : m = [tab[t] EXCEPT !.leaving = TRUE]
    OBVIOUS
  <1>4. tab' = [tab EXCEPT ![t] = m]
    BY <1>3 DEF LogsOut
  <1>5. /\ m \in Memory /\ m.token = tab[t].token /\ m.known = tab[t].known
        /\ m.version = tab[t].version /\ m.step = tab[t].step
        /\ m.at = tab[t].at /\ m.moved = tab[t].moved /\ m.leaving
        /\ m.signing = tab[t].signing
    BY <1>3, TabFacts DEF Memory
  <1>6. SessionOf(tab[t].token) \in Session
    BY <1>2, RotationAssumption DEF Ties, RowsTied, Session
  <1> QED
    BY <1>2, <1>4, <1>5, <1>6

LEMMA LogsOutTies ==
    ASSUME Ties, NEW t \in Tab, NEW heard \in BOOLEAN, LogsOut(t, heard)
    PROVE  Ties'
  <1> DEFINE s == SessionOf(tab[t].token)
  <1>1. s \in 1 .. sessions /\ s \in Session
    BY LogsOutReturns
  <1>2. PICK m \in Memory :
          /\ tab' = [tab EXCEPT ![t] = m]
          /\ m.token = tab[t].token /\ m.known = tab[t].known
          /\ m.step = tab[t].step /\ m.at = tab[t].at /\ m.moved = tab[t].moved
    BY LogsOutReturns
  <1>3. /\ UNCHANGED <<rows, sessions, ended, requests, store, active, notice,
                       holder, crossed, reused>>
        /\ lossy' \in {lossy, lossy \cup {s}}
        /\ StartsRevoke(s) \/ revoke' = revoke
        /\ tab[t].token # None
    BY DEF LogsOut
  <1>4. Grows
    BY <1>3, GrowsWithoutRows DEF Ties
  <1>5. RevokesTied'
    <2>1. CASE StartsRevoke(s)
      BY <1>1, <1>3, <2>1, StartsRevokeTies
    <2>2. CASE revoke' = revoke
      BY <1>3, <1>4, <2>2, RevokesGrow
    <2> QED
      BY <1>3, <2>1, <2>2
  <1>6. sessions # 0 /\ tab'[t] = m
    BY <1>1, <1>2, TabFacts DEF Ties, RowsTied
  <1>7. TabSound(t)'
    BY <1>2, <1>3, <1>6, TabFacts DEF TabSound, Issued
  <1>8. BrowserTied'
    BY <1>2, <1>3, <1>4, <1>7, TabKeepsBrowser, TabFacts DEF Issued
  <1> QED
    BY <1>1, <1>3, <1>4, <1>5, <1>8, RequestsGrow DEF Ties, Grows, HistoryTied

LEMMA LeavesReturns ==
    ASSUME Ties, NEW t \in Tab, Leaves(t)
    PROVE  /\ \/ store' = None /\ active' = FALSE
              \/ store' = store /\ active' = active
           /\ notice' \subseteq Tab
           /\ \E m \in Memory :
                /\ tab' = [tab EXCEPT ![t] = m]
                /\ m.token = None /\ m.version = 0 /\ m.known \in {None, tab[t].known}
                /\ tab[t].step = "idle" => ~m.moved
                /\ tab[t].step # "idle" => m.moved
                /\ m.step = tab[t].step /\ m.at = tab[t].at
                /\ ~m.leaving /\ m.signing = tab[t].signing
  <1>1. PICK p : p = [tab[t] EXCEPT !.leaving = FALSE]
    OBVIOUS
  <1>2. /\ p \in Memory /\ p.known = tab[t].known /\ p.step = tab[t].step
        /\ p.at = tab[t].at /\ ~p.leaving /\ p.signing = tab[t].signing
    BY <1>1, TabFacts DEF Memory
  <1>3. Dropped(t, p)
    BY <1>1 DEF Leaves
  <1>4. /\ \/ store' = None /\ active' = FALSE
           \/ store' = store /\ active' = active
        /\ notice' \subseteq Tab
    BY <1>2, <1>3, DroppedReturns
  <1>5. \E n \in Memory :
                /\ tab' = [tab EXCEPT ![t] = n]
                /\ n.token = None /\ n.version = 0 /\ n.known \in {None, p.known}
                /\ (p.step = "idle" => ~n.moved) /\ (p.step # "idle" => n.moved)
                /\ n.step = p.step /\ n.at = p.at
                /\ n.leaving = p.leaving /\ n.signing = p.signing
    BY <1>2, <1>3, DroppedReturns
  <1> QED
    BY <1>2, <1>4, <1>5

LEMMA LeavesTies ==
    ASSUME Ties, NEW t \in Tab, Leaves(t)
    PROVE  Ties'
  <1>1. /\ store' \in {None, store} /\ active' \in {FALSE, active} /\ notice' \subseteq Tab
    BY LeavesReturns
  <1>2. PICK m \in Memory :
          /\ tab' = [tab EXCEPT ![t] = m]
          /\ m.token = None /\ m.version = 0 /\ m.known \in {None, tab[t].known}
          /\ tab[t].step = "idle" => ~m.moved
          /\ tab[t].step # "idle" => m.moved
          /\ m.step = tab[t].step /\ m.at = tab[t].at
          /\ ~m.leaving /\ m.signing = tab[t].signing
    BY LeavesReturns
  <1>3. /\ UNCHANGED <<rows, sessions, ended, revoke, requests, holder>>
        /\ UNCHANGED history
    BY DEF Leaves, serverVars
  <1>4. Grows
    BY <1>3, GrowsWithoutRows DEF Ties
  <1>5. tab'[t] = m
    BY <1>2, TabFacts
  <1>6. TabSound(t)'
    BY <1>2, <1>3, <1>5, TabFacts DEF TabSound, Issued
  <1>7. BrowserTied'
    BY <1>1, <1>2, <1>3, <1>4, <1>6, TabKeepsBrowser, TabFacts DEF Issued
  <1> QED
    BY <1>3, <1>4, <1>7, RequestsGrow, RevokesGrow DEF Ties, Grows, HistoryTied, history

LEMMA SetsActiveReturns ==
    ASSUME Ties, NEW t \in Tab, SetsActive(t)
    PROVE  \E m \in Memory :
             /\ tab' = [tab EXCEPT ![t] = m]
             /\ m.token = tab[t].token /\ m.known = store
             /\ store # None => m.version = store.version
             /\ m.step = tab[t].step /\ m.at = tab[t].at
             /\ tab[t].step = "idle" => ~m.moved
             /\ tab[t].step # "idle" => m.moved
             /\ m.leaving = tab[t].leaving /\ ~m.signing
  <1> DEFINE version == IF store = None THEN 0 ELSE store.version
             moved == tab[t].step # "idle"
  <1>1. version \in Nat /\ moved \in BOOLEAN
    BY TabFacts DEF Stored
  <1> DEFINE m == [tab[t] EXCEPT !.key = TRUE, !.known = store, !.version = version,
                                 !.signing = FALSE, !.moved = moved]
  <1>2. tab' = [tab EXCEPT ![t] = m]
    BY TabFacts DEF SetsActive
  <1>3. (store # None => version = store.version) /\ (tab[t].step # "idle" <=> moved)
    OBVIOUS
  <1> HIDE DEF version, moved
  <1>4. m \in Memory
    BY <1>1, TabFacts, Zenon DEF Memory
  <1>5. /\ m.token = tab[t].token /\ m.known = store /\ m.version = version
        /\ m.step = tab[t].step /\ m.at = tab[t].at /\ m.moved = moved
        /\ m.leaving = tab[t].leaving /\ ~m.signing
    BY <1>4, TabFacts, Zenon DEF Memory
  <1> HIDE DEF m
  <1> QED
    BY <1>2, <1>3, <1>4, <1>5

LEMMA SetsActiveTies ==
    ASSUME Ties, NEW t \in Tab, SetsActive(t)
    PROVE  Ties'
  <1>1. PICK m \in Memory :
          /\ tab' = [tab EXCEPT ![t] = m]
          /\ m.token = tab[t].token /\ m.known = store
          /\ m.step = tab[t].step /\ m.at = tab[t].at
          /\ tab[t].step = "idle" => ~m.moved
          /\ tab[t].step # "idle" => m.moved
          /\ m.leaving = tab[t].leaving /\ ~m.signing
    BY SetsActiveReturns
  <1>2. /\ UNCHANGED <<rows, sessions, ended, revoke, requests, holder, store>>
        /\ UNCHANGED history /\ tab[t].signing
        /\ active' \in BOOLEAN /\ notice' \subseteq Tab
    BY WritesKeyReturns DEF SetsActive, serverVars
  <1>3. Grows
    BY <1>2, GrowsWithoutRows DEF Ties
  <1>4. tab'[t] = m
    BY <1>1, TabFacts
  <1>5. TabSound(t)'
    BY <1>1, <1>2, <1>4, TabFacts DEF TabSound, Issued
  <1>6. BrowserTied'
    BY <1>1, <1>2, <1>3, <1>5, TabKeepsBrowser, TabFacts DEF Issued
  <1> QED
    BY <1>2, <1>3, <1>6, RequestsGrow, RevokesGrow DEF Ties, Grows, HistoryTied, history

(* A sign-in opens the next session, with one token, stored. *)
LEMMA SignsInReturns ==
    ASSUME Ties, NEW t \in Tab, SignsIn(t)
    PROVE  LET n == Len(rows) + 1 IN
           /\ Grows /\ Len(rows') = n /\ n \in Token
           /\ \A i \in Issued : rows'[i] = rows[i]
           /\ rows'[n].session = sessions + 1 /\ rows'[n].revoked = "no"
           /\ sessions' = sessions + 1 /\ sessions + 1 \in Session
           /\ store' \in Stored /\ store'.token = n
           /\ active' = FALSE /\ notice' \subseteq Tab
           /\ \E m \in Memory :
                /\ tab' = [tab EXCEPT ![t] = m]
                /\ m.token = n /\ m.version = 0 /\ m.known = tab[t].known
                /\ m.step = tab[t].step /\ m.at = tab[t].at
                /\ m.moved = tab[t].moved
                /\ m.leaving = tab[t].leaving /\ m.signing
  <1> DEFINE n == Len(rows) + 1
             new == [session |-> sessions + 1, parent |-> None, used |-> FALSE,
                     revoked |-> "no"]
             version == (IF store = None THEN 0 ELSE store.version) + 1
             m == [tab[t] EXCEPT !.token = n, !.version = 0, !.signing = TRUE]
  <1>1. /\ rows \in Seq(Row) /\ sessions \in Nat /\ sessions < MaxSession
        /\ Len(rows) \in Nat /\ Len(rows) < MaxToken
        /\ MaxSession \in Nat /\ MaxToken \in Nat
    BY RotationAssumption DEF Ties, RowsTied, SignsIn
  <1>2. sessions + 1 \in Session /\ n \in Token
    BY <1>1 DEF Session, Token
  <1>3. new \in Row
    BY <1>2 DEF Row
  <1>4. rows' = Append(rows, new)
    BY DEF SignsIn
  <1>5. new.session = sessions + 1 /\ new.revoked = "no"
    OBVIOUS
  <1> HIDE DEF new
  <1>6. /\ rows' \in Seq(Row) /\ Len(rows') = n
        /\ \A i \in Issued : rows'[i] = rows[i]
        /\ rows'[n] = new
    BY <1>1, <1>3, <1>4, AppendProperties DEF Issued
  <1>7. sessions' = sessions + 1 /\ ended' = ended
    BY DEF SignsIn
  <1>8. RowsTied'
    <2>1. Len(rows') <= MaxToken /\ sessions' \in 0 .. MaxSession
      BY <1>1, <1>6, <1>7
    <2>2. \A i \in Issued : rows[i].session \in 1 .. sessions
      BY DEF Ties, RowsTied
    <2>3. Issued' = Issued \cup {n}
      BY <1>1, <1>6 DEF Issued
    <2>4. \A i \in Issued' : rows'[i].session \in 1 .. sessions'
      BY <1>1, <1>5, <1>6, <1>7, <2>2, <2>3
    <2> QED
      BY <1>6, <2>1, <2>4 DEF RowsTied
  <1>9. Grows
    BY <1>1, <1>6, <1>7, <1>8 DEF Grows
  <1>10. store' = [token |-> n, version |-> version] /\ WritesKey(t, FALSE)
    BY DEF SignsIn
  <1>11. version \in Nat
    BY TabFacts DEF Stored
  <1>12. store' \in Stored /\ store'.token = n
    <2> HIDE DEF version, n
    <2> QED
      BY <1>2, <1>10, <1>11 DEF Stored
  <1>13. active' = FALSE /\ notice' \subseteq Tab
    BY <1>10, WritesKeyReturns
  <1>14. tab' = [tab EXCEPT ![t] = m]
    BY TabFacts DEF SignsIn
  <1>15. m \in Memory
    <2> HIDE DEF n
    <2> QED
      BY <1>2, TabFacts, 0 \in Nat, Zenon DEF Memory
  <1>16. /\ m.token = n /\ m.version = 0 /\ m.known = tab[t].known
         /\ m.step = tab[t].step /\ m.at = tab[t].at /\ m.moved = tab[t].moved
         /\ m.leaving = tab[t].leaving /\ m.signing
    <2> HIDE DEF n
    <2> QED
      BY <1>15, TabFacts, Zenon DEF Memory
  <1> HIDE DEF m
  <1> QED
    BY <1>2, <1>5, <1>6, <1>7, <1>9, <1>12, <1>13, <1>14, <1>15, <1>16

LEMMA SignsInTies ==
    ASSUME Ties, NEW t \in Tab, SignsIn(t)
    PROVE  Ties'
  <1> DEFINE n == Len(rows) + 1
  <1>1. /\ Grows /\ Len(rows') = n /\ sessions' = sessions + 1
        /\ sessions + 1 \in Session
        /\ store' \in Stored /\ store'.token = n
        /\ active' = FALSE /\ notice' \subseteq Tab
    BY SignsInReturns
  <1>2. PICK m \in Memory :
          /\ tab' = [tab EXCEPT ![t] = m]
          /\ m.token = n /\ m.version = 0 /\ m.known = tab[t].known
          /\ m.step = tab[t].step /\ m.at = tab[t].at
          /\ m.moved = tab[t].moved
          /\ m.leaving = tab[t].leaving /\ m.signing
    BY SignsInReturns
  <1>3. UNCHANGED <<ended, revoke, requests, holder, lossy, reused>>
    BY DEF SignsIn
  <1>4. tab'[t] = m
    BY <1>2, TabFacts
  <1>5. n \in Issued' /\ Issued \subseteq Issued' /\ sessions' # 0
    BY <1>1, TabFacts DEF Issued, Ties, RowsTied
  <1>6. TabSound(t)'
    BY <1>2, <1>3, <1>4, <1>5, TabFacts DEF TabSound
  <1>7. BrowserTied'
    BY <1>1, <1>2, <1>3, <1>5, <1>6, TabKeepsBrowser, TabFacts
  <1>8. crossed' \subseteq Session
    <2> DEFINE crosses == \E u \in Tab : \/ tab[u].step # "idle" \/ tab[u].leaving
                                         \/ tab[u].token # None \/ tab[u].signing
    <2>1. \/ crossed' = crossed
          \/ crosses /\ crossed' = crossed \cup {sessions, sessions + 1}
      BY DEF SignsIn
    <2>2. crosses => sessions # 0
      BY TabFacts DEF TabSound, Ties, RowsTied
    <2>3. sessions # 0 => sessions \in Session
      BY <1>1, RotationAssumption DEF Session, Ties, RowsTied
    <2> QED
      BY <1>1, <2>1, <2>2, <2>3 DEF Ties, HistoryTied
  <1> QED
    BY <1>1, <1>3, <1>7, <1>8, RequestsGrow, RevokesGrow DEF Ties, Grows, HistoryTied

LEMMA StepTies == Ties /\ [Next]_vars => Ties'
  <1> SUFFICES ASSUME Ties, [Next]_vars PROVE Ties'
    OBVIOUS
  <1>1. CASE UNCHANGED vars
    <2>1. /\ UNCHANGED <<rows, sessions, ended, revoke, requests>>
          /\ UNCHANGED browserVars /\ UNCHANGED history
      BY <1>1 DEF vars, serverVars
    <2>2. Grows
      BY <2>1, GrowsWithoutRows DEF Ties
    <2>3. BrowserTied'
      <3>1. \A t \in Tab : holder = t => requests[tab[t].at].step # "over"
        BY DEF Ties, BrowserTied, TabSound
      <3> QED
        BY <2>1, <2>2, <3>1, ServerKeepsBrowser
    <2> QED
      BY <2>1, <2>2, <2>3, RequestsGrow, RevokesGrow DEF Ties, Grows, HistoryTied, history
  <1>2. ASSUME NEW t \in Tab,
               \/ Refreshes(t) \/ Acquires(t) \/ IsRefused(t) \/ Drops(t)
               \/ \E ok \in BOOLEAN : Rotated(t, ok) \/ LogsOut(t, ok)
               \/ Loses(t) \/ Reloads(t) \/ Ignores(t)
               \/ Leaves(t) \/ SignsIn(t) \/ SetsActive(t)
        PROVE  Ties'
    BY <1>2, RefreshesTies, AcquiresTies, IsRefusedTies, DropsTies, RotatedTies,
       LogsOutTies, LosesTies, ReloadsTies, IgnoresTies, LeavesTies, SignsInTies,
       SetsActiveTies
  <1> QED
    BY <1>1, <1>2, RefreshAsksTies, RefreshDecidesTies, ReuseAnsweredTies,
       RevokeStartsTies, RevokeEndsTies, GraceEndsTies DEF Next

-----------------------------------------------------------------------------
(* The server: one live token for each live session.                        *)

LEMMA LiveTokensAre ==
    ASSUME Ties, NEW s
    PROVE  LiveTokens(s) = {i \in Issued : SessionOf(i) = s /\ rows[i].revoked = "no"}
  BY LenProperties DEF LiveTokens, Issued, Ties, RowsTied

(* What is revoked stays revoked. *)
LEMMA LiveShrinks ==
    ASSUME Ties, Ties', [Next]_vars
    PROVE  /\ \A s \in 1 .. sessions : s \in Live' => s \in Live
           /\ sessions' = sessions => Live' \subseteq Live
           /\ sessions' \in {sessions, sessions + 1}
           /\ lossy \subseteq lossy' /\ crossed \subseteq crossed'
  <1>1. /\ \A s \in Session : revoke[s].step # "no" => revoke'[s].step # "no"
        /\ ended \subseteq ended'
    <2>1. revoke \in [Session -> Revoke]
      BY DEF Ties, RevokesTied
    <2>2. ASSUME NEW x, StartsRevoke(x)
          PROVE  \A s \in Session : revoke[s].step # "no" => revoke'[s].step # "no"
      BY <2>1, <2>2 DEF StartsRevoke
    <2>3. ASSUME NEW r \in DOMAIN requests, RefreshDecides(r)
          PROVE  \A s \in Session : revoke[s].step # "no" => revoke'[s].step # "no"
      BY <2>2, <2>3 DEF RefreshDecides, Rotate
    <2>4. ASSUME NEW t \in Tab, NEW ok \in BOOLEAN, LogsOut(t, ok)
          PROVE  \A s \in Session : revoke[s].step # "no" => revoke'[s].step # "no"
      BY <2>2, <2>4 DEF LogsOut
    <2>5. ASSUME NEW x \in Session, RevokeEnds(x)
          PROVE  \A s \in Session : revoke[s].step # "no" => revoke'[s].step # "no"
      BY <2>1, <2>5 DEF RevokeEnds
    <2>6. ASSUME NEW t \in Tab,
                 \/ Refreshes(t) \/ Acquires(t) \/ IsRefused(t) \/ Drops(t)
                 \/ \E ok \in BOOLEAN : Rotated(t, ok)
                 \/ Loses(t) \/ Reloads(t) \/ Ignores(t)
                 \/ Leaves(t) \/ SignsIn(t) \/ SetsActive(t)
          PROVE  revoke' = revoke /\ ended' = ended
      BY <2>6 DEF Refreshes, Acquires, IsRefused, Drops, Rotated, Loses, Reloads,
                  Ignores, Leaves, SignsIn, SetsActive, serverVars
    <2>7. ASSUME NEW r \in DOMAIN requests, RefreshAsks(r) \/ ReuseAnswered(r)
          PROVE  revoke' = revoke /\ ended' = ended
      BY <2>7 DEF RefreshAsks, ReuseAnswered
    <2>8. ASSUME NEW i \in DOMAIN rows, GraceEnds(i)
          PROVE  revoke' = revoke /\ ended' = ended
      BY <2>8 DEF GraceEnds
    <2>9. ASSUME NEW x \in Session, RevokeStarts(x)
          PROVE  \A s \in Session : revoke[s].step # "no" => revoke'[s].step # "no"
      BY <2>2, <2>9 DEF RevokeStarts
    <2>10. ended \subseteq ended'
      BY <2>6, <2>7, <2>8 DEF Next, vars, serverVars, RefreshDecides, LogsOut,
                              RevokeEnds, RevokeStarts
    <2> QED
      BY <2>3, <2>4, <2>5, <2>6, <2>7, <2>8, <2>9, <2>10 DEF Next, vars, serverVars
  <1>2. /\ sessions' \in {sessions, sessions + 1}
        /\ lossy \subseteq lossy' /\ crossed \subseteq crossed'
    <2>1. ASSUME NEW t \in Tab,
                 \/ Refreshes(t) \/ Acquires(t) \/ IsRefused(t) \/ Drops(t)
                 \/ \E ok \in BOOLEAN : Rotated(t, ok) \/ LogsOut(t, ok)
                 \/ Loses(t) \/ Reloads(t) \/ Ignores(t)
                 \/ Leaves(t) \/ SignsIn(t) \/ SetsActive(t)
          PROVE  /\ sessions' \in {sessions, sessions + 1}
                 /\ lossy \subseteq lossy' /\ crossed \subseteq crossed'
      BY <2>1 DEF Refreshes, Acquires, IsRefused, Drops, Rotated, Loses, Reloads,
                  LogsOut, Ignores, Leaves, SignsIn, SetsActive, serverVars, history
    <2>2. ASSUME \/ \E r \in DOMAIN requests : \/ RefreshAsks(r) \/ RefreshDecides(r)
                                               \/ ReuseAnswered(r)
                 \/ \E s \in Session : RevokeStarts(s) \/ RevokeEnds(s)
                 \/ \E i \in DOMAIN rows : GraceEnds(i)
                 \/ UNCHANGED vars
          PROVE  /\ sessions' \in {sessions, sessions + 1}
                 /\ lossy \subseteq lossy' /\ crossed \subseteq crossed'
      BY <2>2 DEF RefreshAsks, RefreshDecides, ReuseAnswered, RevokeStarts,
                  RevokeEnds, GraceEnds, vars, serverVars, history
    <2> QED
      BY <2>1, <2>2 DEF Next
  <1>3. /\ 1 .. sessions \subseteq Session /\ sessions \in Nat
        /\ revoke \in [Session -> Revoke] /\ revoke' \in [Session -> Revoke]
    BY RotationAssumption DEF Ties, RowsTied, RevokesTied, Session
  <1> QED
    BY <1>1, <1>2, <1>3 DEF Live

(* Nothing new is issued: a live session keeps its token. *)
LEMMA NothingIssued ==
    ASSUME Ties, OneToken, Ties', Len(rows') = Len(rows), sessions' = sessions,
           Live' \subseteq Live,
           \A i \in Issued :
             /\ rows'[i].session = rows[i].session
             /\ rows'[i].revoked = "no" => rows[i].revoked = "no"
             /\ rows[i].revoked = "no" /\ rows[i].session \in Live' =>
                  rows'[i].revoked = "no"
    PROVE  OneToken'
  <1>1. Issued' = Issued /\ \A i \in Issued : SessionOf(i)' = SessionOf(i)
    BY DEF Issued, SessionOf
  <1>2. \A s : LiveTokens(s)' =
           {i \in Issued : rows[i].session = s /\ rows'[i].revoked = "no"}
    <2>1. ASSUME NEW s
          PROVE  LiveTokens(s)' =
                   {i \in Issued' : SessionOf(i)' = s /\ rows'[i].revoked = "no"}
      BY LenProperties DEF LiveTokens, Issued, Ties, RowsTied
    <2> QED
      BY <1>1, <2>1 DEF SessionOf
  <1>3. \A s : LiveTokens(s) =
           {i \in Issued : rows[i].session = s /\ rows[i].revoked = "no"}
    BY LiveTokensAre DEF SessionOf
  <1>4. \A s : LiveTokens(s)' \subseteq LiveTokens(s)
    BY <1>2, <1>3
  <1>5. \A s \in Live' : LiveTokens(s) \subseteq LiveTokens(s)'
    BY <1>2, <1>3
  <1> QED
    BY <1>4, <1>5 DEF OneToken

LEMMA RotateIssuesOne ==
    ASSUME Ties, OneToken, Ties', NEW r \in DOMAIN requests,
           requests[r].step = "asking", Rotate(r),
           UNCHANGED <<sessions, ended>>, Live' \subseteq Live
    PROVE  OneToken'
  <1> DEFINE i == requests[r].token
             n == Len(rows) + 1
  <1>1. r \in 1 .. Len(requests)
    BY LenProperties DEF Ties, RequestsTied
  <1>2. /\ Len(rows') = n /\ i \in Issued /\ rows[i].revoked = "no"
        /\ \A j \in Issued : /\ j # i => rows'[j] = rows[j]
                             /\ rows'[j].session = rows[j].session
                             /\ j = i => rows'[j].revoked = "grace"
    BY <1>1, RotateGrows
  <1>3. rows'[n].session = rows[i].session /\ rows'[n].revoked = "no"
    <2>1. rows'[n] = [session |-> SessionOf(i), parent |-> i,
                      used |-> FALSE, revoked |-> "no"]
      BY <1>1, RotateGrows
    <2> QED
      BY <2>1 DEF SessionOf
  <1>4. Issued' = Issued \cup {n} /\ n \notin Issued
    BY <1>2 DEF Issued, Ties, RowsTied
  <1>5. \A s : LiveTokens(s)' =
           {j \in Issued \cup {n} : rows'[j].session = s /\ rows'[j].revoked = "no"}
    <2>1. ASSUME NEW s
          PROVE  LiveTokens(s)' =
                   {j \in Issued' : rows'[j].session = s /\ rows'[j].revoked = "no"}
      BY LenProperties DEF LiveTokens, Issued, Ties, RowsTied, SessionOf
    <2> QED
      BY <1>4, <2>1
  <1>6. \A s : LiveTokens(s) =
           {j \in Issued : rows[j].session = s /\ rows[j].revoked = "no"}
    BY LiveTokensAre DEF SessionOf
  <1> HIDE DEF i, n
  <1>7. \A s : LiveTokens(s)' =
           IF s = rows[i].session THEN (LiveTokens(s) \ {i}) \cup {n}
                                  ELSE LiveTokens(s)
    BY <1>2, <1>3, <1>4, <1>5, <1>6
  <1>8. i \in LiveTokens(rows[i].session) /\ rows[i].session \in 1 .. sessions
    BY <1>2, <1>6 DEF Ties, RowsTied
  <1>9. ASSUME NEW s \in Live' PROVE LiveTokens(s)' # {}
    BY <1>7, <1>9 DEF OneToken
  <1>10. ASSUME NEW s \in 1 .. sessions, NEW x \in LiveTokens(s)', NEW y \in LiveTokens(s)'
         PROVE  x = y
    BY <1>7, <1>8, <1>10 DEF OneToken
  <1> QED
    BY <1>9, <1>10 DEF OneToken

LEMMA SignInIssuesOne ==
    ASSUME Ties, OneToken, Ties', NEW t \in Tab, SignsIn(t),
           \A s \in 1 .. sessions : s \in Live' => s \in Live
    PROVE  OneToken'
  <1> DEFINE n == Len(rows) + 1
  <1>1. /\ Len(rows') = n /\ sessions' = sessions + 1
        /\ rows'[n].session = sessions + 1 /\ rows'[n].revoked = "no"
        /\ \A i \in Issued : rows'[i] = rows[i]
    BY SignsInReturns
  <1>2. Issued' = Issued \cup {n} /\ n \notin Issued
    BY <1>1 DEF Issued, Ties, RowsTied
  <1>3. \A s : LiveTokens(s)' =
           {j \in Issued \cup {n} : rows'[j].session = s /\ rows'[j].revoked = "no"}
    <2>1. ASSUME NEW s
          PROVE  LiveTokens(s)' =
                   {j \in Issued' : rows'[j].session = s /\ rows'[j].revoked = "no"}
      BY LenProperties DEF LiveTokens, Issued, Ties, RowsTied, SessionOf
    <2> QED
      BY <1>2, <2>1
  <1>4. \A s : LiveTokens(s) =
           {j \in Issued : rows[j].session = s /\ rows[j].revoked = "no"}
    BY LiveTokensAre DEF SessionOf
  <1>5. sessions \in Nat /\ \A i \in Issued : rows[i].session \in 1 .. sessions
    BY DEF Ties, RowsTied
  <1> HIDE DEF n
  <1>6. ASSUME NEW s \in 1 .. sessions PROVE LiveTokens(s)' = LiveTokens(s)
    <2>1. \A j \in Issued : rows'[j].session = rows[j].session
                              /\ rows'[j].revoked = rows[j].revoked
      BY <1>1
    <2>2. rows'[n].session # s
      BY <1>1, <1>5
    <2> QED
      BY <1>3, <1>4, <2>1, <2>2
  <1>7. ASSUME NEW s, s = sessions + 1 PROVE LiveTokens(s)' = {n}
    <2>1. \A j \in Issued : rows'[j].session # s
      BY <1>1, <1>5, <1>7
    <2>2. rows'[n].session = s /\ rows'[n].revoked = "no"
      BY <1>1, <1>7
    <2> QED
      BY <1>3, <2>1, <2>2
  <1>8. \A s \in Live' : s \in Live \/ s = sessions + 1
    BY <1>1, <1>5 DEF Live
  <1>9. ASSUME NEW s \in 1 .. sessions' PROVE s \in 1 .. sessions \/ s = sessions + 1
    BY <1>1, <1>5, <1>9
  <1>10. \A s \in Live : s \in 1 .. sessions
    BY DEF Live
  <1>11. ASSUME NEW s \in Live' PROVE LiveTokens(s)' # {}
    <2>1. CASE s = sessions + 1
      BY <1>7, <2>1
    <2>2. CASE s \in Live
      <3>1. LiveTokens(s) # {}
        BY <2>2 DEF OneToken
      <3> QED
        BY <1>6, <1>10, <2>2, <3>1
    <2> QED
      BY <1>8, <2>1, <2>2
  <1>12. ASSUME NEW s \in 1 .. sessions', NEW x \in LiveTokens(s)', NEW y \in LiveTokens(s)'
         PROVE  x = y
    BY <1>6, <1>7, <1>9, <1>12 DEF OneToken
  <1> QED
    BY <1>11, <1>12 DEF OneToken

LEMMA RevokeEndsKeepsOne ==
    ASSUME Ties, OneToken, Ties', NEW s \in Session, RevokeEnds(s),
           Live' \subseteq Live
    PROVE  OneToken'
  <1>1. /\ Len(rows') = Len(rows)
        /\ \A i \in Issued :
             /\ rows'[i].session = rows[i].session
             /\ rows'[i] = rows[i] \/ /\ SessionOf(i) = s /\ rows[i].revoked = "no"
                                      /\ rows'[i].revoked = "grace"
    BY RevokeEndsRows
  <1>2. s \notin Live' /\ sessions' = sessions
    BY DEF RevokeEnds, Live
  <1>3. \A i \in Issued :
          /\ rows'[i].session = rows[i].session
          /\ rows'[i].revoked = "no" => rows[i].revoked = "no"
          /\ rows[i].revoked = "no" /\ rows[i].session \in Live' =>
               rows'[i].revoked = "no"
    BY <1>1, <1>2 DEF SessionOf
  <1> QED
    BY <1>1, <1>2, <1>3, NothingIssued

LEMMA GraceEndsKeepsOne ==
    ASSUME Ties, OneToken, Ties', NEW i \in DOMAIN rows, GraceEnds(i),
           Live' \subseteq Live
    PROVE  OneToken'
  <1>1. /\ Len(rows') = Len(rows)
        /\ \A j \in Issued :
             /\ rows'[j].session = rows[j].session
             /\ rows'[j] = rows[j] \/ /\ rows[j].revoked = "grace"
                                      /\ rows'[j].revoked = "old"
    BY GraceEndsRows
  <1>2. sessions' = sessions
    BY DEF GraceEnds
  <1>3. \A j \in Issued :
          /\ rows'[j].session = rows[j].session
          /\ rows'[j].revoked = "no" => rows[j].revoked = "no"
          /\ rows[j].revoked = "no" /\ rows[j].session \in Live' =>
               rows'[j].revoked = "no"
    BY <1>1
  <1> QED
    BY <1>1, <1>2, <1>3, NothingIssued

(* The rows stay, but for a rotation, a revocation, a grace that ends and a *)
(* sign-in.                                                                 *)
LEMMA FewStepsIssue ==
    ASSUME Ties, [Next]_vars
    PROVE  \/ UNCHANGED <<rows, sessions>>
           \/ \E r \in DOMAIN requests :
                /\ requests[r].step = "asking" /\ ~Refused(r) /\ Rotate(r)
                /\ UNCHANGED <<sessions, ended>>
           \/ \E s \in Session : RevokeEnds(s)
           \/ \E i \in DOMAIN rows : GraceEnds(i)
           \/ \E t \in Tab : SignsIn(t)
  <1>1. ASSUME NEW t \in Tab,
               \/ Refreshes(t) \/ Acquires(t) \/ IsRefused(t) \/ Drops(t)
               \/ \E ok \in BOOLEAN : Rotated(t, ok) \/ LogsOut(t, ok)
               \/ Loses(t) \/ Reloads(t) \/ Ignores(t)
               \/ Leaves(t) \/ SignsIn(t) \/ SetsActive(t)
        PROVE  UNCHANGED <<rows, sessions>> \/ SignsIn(t)
    BY <1>1 DEF Refreshes, Acquires, IsRefused, Drops, Rotated, Loses, Reloads,
                LogsOut, Ignores, Leaves, SetsActive, serverVars
  <1>2. ASSUME NEW r \in DOMAIN requests,
               RefreshAsks(r) \/ RefreshDecides(r) \/ ReuseAnswered(r)
        PROVE  \/ UNCHANGED <<rows, sessions>>
               \/ /\ requests[r].step = "asking" /\ ~Refused(r) /\ Rotate(r)
                  /\ UNCHANGED <<sessions, ended>>
    BY <1>2 DEF RefreshAsks, RefreshDecides, ReuseAnswered
  <1>3. ASSUME NEW s \in Session, RevokeStarts(s)
        PROVE  UNCHANGED <<rows, sessions>>
    BY <1>3 DEF RevokeStarts
  <1>4. UNCHANGED vars => UNCHANGED <<rows, sessions>>
    BY DEF vars, serverVars
  <1> QED
    BY <1>1, <1>2, <1>3, <1>4 DEF Next

LEMMA InitOneToken == Init => OneToken
  BY DEF Init, OneToken, Live

LEMMA StepOneToken == Ties /\ OneToken /\ [Next]_vars => OneToken'
  <1> SUFFICES ASSUME Ties, OneToken, [Next]_vars PROVE OneToken'
    OBVIOUS
  <1>1. Ties'
    BY StepTies
  <1>2. /\ \A s \in 1 .. sessions : s \in Live' => s \in Live
        /\ sessions' = sessions => Live' \subseteq Live
    BY <1>1, LiveShrinks
  <1>3. CASE UNCHANGED <<rows, sessions>>
    <2>1. /\ Len(rows') = Len(rows)
          /\ \A i \in Issued :
               /\ rows'[i].session = rows[i].session
               /\ rows'[i].revoked = "no" => rows[i].revoked = "no"
               /\ rows[i].revoked = "no" /\ rows[i].session \in Live' =>
                    rows'[i].revoked = "no"
      BY <1>3
    <2> QED
      BY <1>1, <1>2, <1>3, <2>1, NothingIssued
  <1>4. ASSUME NEW r \in DOMAIN requests, requests[r].step = "asking", Rotate(r),
               UNCHANGED <<sessions, ended>>
        PROVE  OneToken'
    BY <1>1, <1>2, <1>4, RotateIssuesOne
  <1>5. ASSUME NEW s \in Session, RevokeEnds(s)
        PROVE  OneToken'
    <2>1. sessions' = sessions
      BY <1>5 DEF RevokeEnds
    <2> QED
      BY <1>1, <1>2, <1>5, <2>1, RevokeEndsKeepsOne
  <1>6. ASSUME NEW i \in DOMAIN rows, GraceEnds(i)
        PROVE  OneToken'
    <2>1. sessions' = sessions
      BY <1>6 DEF GraceEnds
    <2> QED
      BY <1>1, <1>2, <1>6, <2>1, GraceEndsKeepsOne
  <1>7. ASSUME NEW t \in Tab, SignsIn(t)
        PROVE  OneToken'
    BY <1>1, <1>2, <1>7, SignInIssuesOne
  <1> QED
    BY <1>3, <1>4, <1>5, <1>6, <1>7, FewStepsIssue


-----------------------------------------------------------------------------
(* The layer of the browser: what a step leaves of its trail.               *)

LEMMA InitBrowser == Init => Trail /\ Newest
  BY RotationAssumption
     DEF Init, Trail, FromLast, IsHeard, OnlyDeadIsDropped, Excused,
         Newest, Kept, Live, SignedOut

LEMMA KeptEarlier ==
    ASSUME Ties, Ties', [Next]_vars, sessions' = sessions, Kept'
    PROVE  Kept
  BY LiveShrinks DEF Kept

(* The request of a clean live session is the one of a kept sign-in. *)
LEMMA CleanIsKept ==
    ASSUME FromLast, Newest, NEW t \in Tab, holder = t,
           SessionOf(Request_(t).token) \in Live \ (lossy \cup crossed)
    PROVE  Kept /\ InFlight(t)
  <1>1. OfLast(Request_(t).token)
    BY DEF FromLast
  <1>2. SessionOf(Request_(t).token) = sessions
    BY <1>1 DEF OfLast
  <1>3. Kept
    BY <1>2 DEF Kept
  <1> QED
    BY <1>3 DEF Newest

(* A step of the server, but for the session a reuse revokes. *)
LEMMA ServerTrail ==
    ASSUME Ties, Ties', [Next]_vars, Trail, UNCHANGED browserVars,
           UNCHANGED <<sessions, lossy, crossed>>, Len(rows) <= Len(rows'),
           \A i \in Issued : rows'[i].session = rows[i].session,
           Len(requests') = Len(requests),
           \A x \in 1 .. Len(requests) :
             requests'[x].step # "over" => /\ requests[x].step # "over"
                                           /\ requests'[x].token = requests[x].token,
           Excused(reused')
    PROVE  Trail'
  <1>1. Issued \subseteq Issued'
    BY DEF Issued, Ties, RowsTied
  <1>2. \A x \in 1 .. Len(requests) :
          requests'[x].step # "over" =>
            /\ requests[x].step # "over" /\ requests[x].token \in Issued
            /\ requests'[x].token = requests[x].token
            /\ rows'[requests'[x].token].session = rows[requests[x].token].session
    BY DEF Ties, RequestsTied, RequestSound
  <1>3. ASSUME NEW t \in Tab, holder = t
        PROVE  /\ tab[t].at \in 1 .. Len(requests)
               /\ requests'[tab[t].at].step # "over"
    <2>1. TabSound(t)'
      BY DEF Ties, BrowserTied
    <2> QED
      BY <1>3, <2>1 DEF TabSound, browserVars
  <1>4. ASSUME NEW i \in Issued, OfLast(i)
        PROVE  rows'[i].session = sessions \/ {rows'[i].session, sessions} \subseteq crossed
    BY <1>4 DEF OfLast, SessionOf
  <1>5. FromLast'
    <2>1. store' # None => OfLast(store.token)'
      BY <1>4, TabFacts DEF FromLast, Trail, OfLast, SessionOf, browserVars, Ties, BrowserTied
    <2>2. ASSUME NEW t \in Tab, tab[t].token # None PROVE OfLast(tab[t].token)'
      BY <1>4, <2>2, TabFacts DEF FromLast, Trail, OfLast, SessionOf, browserVars, TabSound
    <2>3. ASSUME NEW t \in Tab, holder = t PROVE OfLast(Request_(t).token)'
      BY <1>2, <1>3, <1>4, <2>3 DEF FromLast, Trail, OfLast, SessionOf, browserVars, Request_
    <2> QED
      BY <2>1, <2>2, <2>3 DEF FromLast, browserVars
  <1>6. IsHeard'
    BY <1>2 DEF IsHeard, Trail, SessionOf, browserVars
  <1>7. OnlyDeadIsDropped'
    <2>1. ASSUME NEW t \in Tab, tab[t].step = "dropping", ~tab[t].moved,
                 SessionOf(Request_(t).token)' \in Live'
          PROVE  SessionOf(Request_(t).token)' \in lossy \cup crossed
      <3>1. holder = t
        BY <2>1, TabFacts DEF TabSound
      <3>2. SessionOf(Request_(t).token)' = SessionOf(Request_(t).token)
        BY <1>2, <1>3, <3>1 DEF SessionOf, Request_, browserVars
      <3>3. SessionOf(Request_(t).token) \in Live
        BY <2>1, <3>2, LiveShrinks
      <3> QED
        BY <2>1, <3>2, <3>3 DEF Trail, OnlyDeadIsDropped
    <2> QED
      BY <2>1 DEF OnlyDeadIsDropped, browserVars
  <1>8. Excused(reused)'
    BY <1>1 DEF Excused, SessionOf
  <1> QED
    BY <1>5, <1>6, <1>7, <1>8 DEF Trail

(* A step of a tab, but for a sign-in: whom it names, and what is heard. *)
LEMMA TabTrail ==
    ASSUME Ties, Ties', [Next]_vars, Trail, UNCHANGED <<rows, sessions, crossed, reused>>,
           NEW t \in Tab, NEW m \in Memory, tab' = [tab EXCEPT ![t] = m],
           m.token # None => OfLast(m.token),
           store' # None => OfLast(store'.token),
           requests' = requests \/ holder \in {t, None},
           m.step = "dropping" /\ ~m.moved =>
             /\ requests' = requests /\ m.at = tab[t].at
             /\ SessionOf(Request_(t).token) \notin Live \ (lossy \cup crossed),
           \A u \in Tab : holder' = u => OfLast(Request_(u)'.token),
           IsHeard'
    PROVE  Trail'
  <1>1. lossy \subseteq lossy' /\ Live' \subseteq Live
    BY LiveShrinks
  <1>2. \A u \in Tab : tab'[u] = IF u = t THEN m ELSE tab[u]
    BY TabFacts
  <1>3. \A i : OfLast(i) => OfLast(i)'
    BY DEF OfLast, SessionOf
  <1>4. \A u \in Tab : tab'[u].token # None => OfLast(tab'[u].token)
    BY <1>2 DEF Trail, FromLast
  <1>5. FromLast'
    <2>1. store' # None => OfLast(store.token)'
      BY DEF OfLast, SessionOf
    <2>2. \A u \in Tab : tab'[u].token # None => OfLast(tab[u].token)'
      BY <1>4 DEF OfLast, SessionOf
    <2>3. \A u \in Tab : holder' = u => OfLast(Request_(u).token)'
      BY DEF OfLast, SessionOf
    <2> QED
      BY <2>1, <2>2, <2>3 DEF FromLast
  <1>6. OnlyDeadIsDropped'
    <2>1. ASSUME NEW u \in Tab, tab'[u].step = "dropping", ~tab'[u].moved
          PROVE  /\ Request_(u)' = Request_(u)
                 /\ SessionOf(Request_(u).token) \notin Live \ (lossy \cup crossed)
      <3>1. CASE u = t
        BY <1>2, <2>1, <3>1 DEF Request_
      <3>2. CASE u # t
        <4>1. tab[u].step = "dropping" /\ ~tab[u].moved /\ tab'[u].at = tab[u].at
          BY <1>2, <2>1, <3>2
        <4>2. holder = u
          BY <4>1, TabFacts DEF TabSound
        <4>3. requests' = requests
          BY <3>2, <4>2, TabFacts
        <4> QED
          BY <4>1, <4>3 DEF Trail, OnlyDeadIsDropped, Request_
      <3> QED
        BY <3>1, <3>2
    <2> QED
      BY <1>1, <2>1 DEF OnlyDeadIsDropped, SessionOf
  <1>7. Excused(reused)'
    BY <1>1 DEF Excused, Trail, SessionOf, Issued
  <1> QED
    BY <1>5, <1>6, <1>7 DEF Trail


(* A tab that leaves the requests alone. *)
LEMMA QuietTrail ==
    ASSUME Ties, Ties', [Next]_vars, Trail,
           UNCHANGED <<rows, sessions, requests, holder, crossed, reused>>,
           NEW t \in Tab, NEW m \in Memory, tab' = [tab EXCEPT ![t] = m],
           \/ m.token \in {None, tab[t].token}
           \/ store # None /\ m.token = store.token,
           store' \in {None, store}, m.at = tab[t].at,
           m.step = "dropping" => /\ tab[t].step = "dropping"
                                  /\ ~m.moved => ~tab[t].moved
    PROVE  Trail'
  <1>1. \A u \in Tab : tab'[u].at = tab[u].at /\ Request_(u)' = Request_(u)
    BY TabFacts DEF Request_
  <1>2. lossy \subseteq lossy'
    BY LiveShrinks
  <1>3. IsHeard'
    BY <1>1, <1>2 DEF IsHeard, Trail, SessionOf
  <1>4. \A u \in Tab : holder' = u => OfLast(Request_(u)'.token)
    BY <1>1 DEF Trail, FromLast
  <1>5. m.token # None => OfLast(m.token)
    BY DEF Trail, FromLast
  <1>6. store' # None => OfLast(store'.token)
    BY DEF Trail, FromLast
  <1>7. m.step = "dropping" /\ ~m.moved =>
          SessionOf(Request_(t).token) \notin Live \ (lossy \cup crossed)
    BY DEF Trail, OnlyDeadIsDropped
  <1> QED
    BY <1>3, <1>4, <1>5, <1>6, <1>7, TabTrail

(* A tab whose request is over. *)
LEMMA ClosingTrail ==
    ASSUME Ties, Ties', [Next]_vars, Trail,
           UNCHANGED <<rows, sessions, ended, crossed, reused>>,
           NEW t \in Tab, holder = t, Closes(t),
           NEW m \in Memory, tab' = [tab EXCEPT ![t] = m],
           m.token # None => OfLast(m.token),
           store' # None => OfLast(store'.token), m.step # "dropping"
    PROVE  Trail'
  <1>1. lossy \subseteq lossy'
    BY LiveShrinks
  <1>2. Grows
    BY GrowsWithoutRows DEF Ties
  <1>3. /\ Len(requests') = Len(requests) /\ tab[t].at \in 1 .. Len(requests)
        /\ \A x \in 1 .. Len(requests) :
             requests'[x] = IF x = tab[t].at THEN Over ELSE requests[x]
    BY <1>2, ClosesKeeps DEF Closes
  <1>4. IsHeard'
    BY <1>1, <1>3, TabFacts DEF IsHeard, Trail, SessionOf, Over
  <1>5. \A u \in Tab : holder' # u
    BY TabFacts DEF Closes
  <1> QED
    BY <1>4, <1>5, TabTrail


-----------------------------------------------------------------------------
(* What a step leaves of a kept sign-in.                                    *)

(* A step of the server. *)
LEMMA ServerNewest ==
    ASSUME Ties, Newest, Kept, UNCHANGED browserVars, sessions' = sessions,
           \A i \in Issued : rows'[i].session = rows[i].session,
           holder = None => rows'[store.token].revoked = "no",
           \A t \in Tab : holder = t => InFlight(t)'
    PROVE  Newest'
  <1>1. store # None /\ SessionOf(store.token) = sessions /\ \A t \in Tab : InStep(t)
    BY DEF Newest
  <1>2. \A t \in Tab : InStep(t)'
    BY <1>1 DEF InStep, browserVars
  <1>3. SessionOf(store.token)' = sessions
    BY <1>1, TabFacts DEF SessionOf, browserVars, Ties, BrowserTied
  <1> QED
    BY <1>1, <1>2, <1>3 DEF Newest, browserVars

(* A step of the server that changes neither a live token nor the request  *)
(* in flight.                                                              *)
LEMMA ServerStill ==
    ASSUME Ties, Newest, Kept, UNCHANGED browserVars, sessions' = sessions,
           \A i \in Issued : /\ rows'[i].session = rows[i].session
                             /\ rows[i].session = sessions /\ rows[i].revoked = "no"
                                  => rows'[i].revoked = "no",
           \A t \in Tab : holder = t => requests'[tab[t].at] = requests[tab[t].at]
    PROVE  Newest'
  <1>1. /\ store # None /\ SessionOf(store.token) = sessions
        /\ holder = None => rows[store.token].revoked = "no"
        /\ store.token \in Issued
    BY DEF Newest, Ties, BrowserTied
  <1>2. holder = None => rows'[store.token].revoked = "no"
    BY <1>1 DEF SessionOf
  <1>3. ASSUME NEW t \in Tab, holder = t PROVE InFlight(t)'
    <2>1. InFlight(t)
      BY <1>3 DEF Newest
    <2>2. Request_(t)' = Request_(t)
      BY <1>3 DEF Request_, browserVars
    <2>3. /\ RequestSound(Request_(t)) /\ Request_(t).step # "over"
      BY <1>3, TabFacts DEF TabSound, Ties, RequestsTied, Request_
    <2>4. /\ Request_(t).answer # None =>
               /\ Request_(t).answer \in Issued
               /\ SessionOf(Request_(t).answer) = SessionOf(Request_(t).token)
      BY <2>3 DEF RequestSound
    <2>5. CASE Request_(t).step \in {"sent", "asking"}
      BY <1>1, <2>1, <2>2, <2>5 DEF InFlight, browserVars, SessionOf
    <2>6. CASE Request_(t).step = "answered"
      BY <1>1, <2>1, <2>2, <2>4, <2>6 DEF InFlight, browserVars, SessionOf
    <2> QED
      BY <2>1, <2>5, <2>6 DEF InFlight
  <1> QED
    BY <1>2, <1>3, ServerNewest

(* An answer goes to the tab that listens, or to nobody. *)
LEMMA AnswerTells ==
    ASSUME Ties, NEW r \in 1 .. Len(requests),
           requests[r].step \in {"asking", "revoking"},
           NEW i \in Token \cup {None}, Answer(r, i)
    PROVE  /\ Len(requests') = Len(requests)
           /\ \A x \in 1 .. Len(requests) : x # r => requests'[x] = requests[x]
           /\ \/ requests'[r].step = "over"
              \/ /\ requests'[r].step = "answered" /\ requests'[r].answer = i
                 /\ requests'[r].token = requests[r].token
           /\ \A t \in Tab : holder = t /\ tab[t].at = r =>
                requests'[r].step = "answered"
  <1> DEFINE heard == [requests[r] EXCEPT !.step = "answered", !.answer = i]
             q == IF Heard(r) THEN heard ELSE Over
  <1>1. requests \in Seq(Request) /\ requests[r] \in Request
    BY DEF Ties, RequestsTied
  <1>2. /\ heard \in Request /\ heard.step = "answered" /\ heard.answer = i
        /\ heard.token = requests[r].token
    BY <1>1 DEF Request
  <1>3. requests' = [requests EXCEPT ![r] = q]
    BY DEF Answer
  <1> HIDE DEF heard
  <1>4. q \in Request
    BY <1>2, OverSound
  <1>5. /\ Len(requests') = Len(requests)
        /\ \A x \in 1 .. Len(requests) :
             requests'[x] = IF x = r THEN q ELSE requests[x]
    BY <1>1, <1>3, <1>4, ExceptSeq
  <1>6. ASSUME NEW t \in Tab, holder = t, tab[t].at = r PROVE Heard(r)
    BY <1>6, TabFacts DEF TabSound, Heard
  <1> QED
    BY <1>2, <1>5, <1>6 DEF Over


-----------------------------------------------------------------------------
(* Every step of the server keeps the browser's layer.                      *)

LEMMA RefreshAsksBrowser ==
    ASSUME Ties, Ties', [Next]_vars, Trail, Newest,
           NEW r \in DOMAIN requests, RefreshAsks(r)
    PROVE  Trail' /\ Newest'
  <1> DEFINE dead == SessionOf(requests[r].token) \in ended
             q == [requests[r] EXCEPT !.step = "asking", !.dead = dead]
  <1>1. /\ requests \in Seq(Request) /\ r \in 1 .. Len(requests)
        /\ requests[r] \in Request /\ dead \in BOOLEAN
        /\ requests[r].step = "sent"
    BY LenProperties DEF Ties, RequestsTied, RefreshAsks
  <1>2. requests' = [requests EXCEPT ![r] = q]
    BY DEF RefreshAsks
  <1> HIDE DEF dead
  <1>3. /\ q \in Request /\ q.step = "asking"
        /\ q.token = requests[r].token /\ q.answer = requests[r].answer
    BY <1>1 DEF Request
  <1> HIDE DEF q
  <1>4. /\ Len(requests') = Len(requests)
        /\ \A x \in 1 .. Len(requests) :
             requests'[x] = IF x = r THEN q ELSE requests[x]
    BY <1>1, <1>2, <1>3, ExceptSeq
  <1>5. UNCHANGED <<rows, sessions, browserVars, lossy, crossed, reused>>
    BY DEF RefreshAsks, history
  <1>6. \A x \in 1 .. Len(requests) :
             requests'[x].step # "over" => /\ requests[x].step # "over"
                                           /\ requests'[x].token = requests[x].token
    BY <1>1, <1>3, <1>4
  <1>7. Excused(reused')
    BY <1>5 DEF Trail, Excused
  <1>8. Len(rows) <= Len(rows') /\ \A i \in Issued : rows'[i].session = rows[i].session
    BY <1>5, TabFacts DEF Ties, RowsTied
  <1>9. Trail'
    BY <1>4, <1>5, <1>6, <1>7, <1>8, ServerTrail
  <1>10. ASSUME Kept' PROVE Newest'
    <2>1. Kept
      BY <1>5, <1>10, KeptEarlier
    <2>2. holder = None => rows'[store.token].revoked = "no"
      BY <1>5, <2>1 DEF Newest
    <2>3. ASSUME NEW t \in Tab, holder = t PROVE InFlight(t)'
      <3>1. InFlight(t) /\ tab[t].at \in 1 .. Len(requests)
        BY <2>1, <2>3, TabFacts DEF Newest, TabSound
      <3>2. CASE tab[t].at = r
        <4>1. /\ Request_(t)'.step = "asking"
              /\ Request_(t)'.token = Request_(t).token
          BY <1>3, <1>4, <1>5, <3>1, <3>2 DEF Request_, browserVars
        <4>2. Request_(t).step = "sent"
          BY <1>1, <3>2 DEF Request_
        <4> QED
          BY <1>5, <3>1, <4>1, <4>2 DEF InFlight, browserVars
      <3>3. CASE tab[t].at # r
        <4>1. Request_(t)' = Request_(t)
          BY <1>4, <1>5, <3>1, <3>3 DEF Request_, browserVars
        <4> QED
          BY <1>5, <3>1, <4>1 DEF InFlight, browserVars
      <3> QED
        BY <3>2, <3>3
    <2> QED
      BY <1>5, <1>8, <2>1, <2>2, <2>3, ServerNewest
  <1>11. ~Kept' => Newest'
    BY DEF Newest
  <1> QED
    BY <1>9, <1>10, <1>11

(* An answer, with or without the next token, leaves the trail. *)
LEMMA AnswerTrail ==
    ASSUME Ties, Ties', [Next]_vars, Trail, UNCHANGED browserVars,
           UNCHANGED <<sessions, lossy, crossed, reused>>, Len(rows) <= Len(rows'),
           \A i \in Issued : rows'[i].session = rows[i].session,
           NEW r \in 1 .. Len(requests), requests[r].step \in {"asking", "revoking"},
           NEW i \in Token \cup {None}, Answer(r, i)
    PROVE  Trail'
  <1>1. /\ Len(requests') = Len(requests)
        /\ \A x \in 1 .. Len(requests) : x # r => requests'[x] = requests[x]
        /\ \/ requests'[r].step = "over"
           \/ requests'[r].token = requests[r].token
    BY AnswerTells
  <1>2. \A x \in 1 .. Len(requests) :
             requests'[x].step # "over" => /\ requests[x].step # "over"
                                           /\ requests'[x].token = requests[x].token
    BY <1>1
  <1>3. Excused(reused')
    BY DEF Trail, Excused
  <1> QED
    BY <1>1, <1>2, <1>3, ServerTrail

(* A request that no tab listens to is not of a kept sign-in, and the one  *)
(* in flight presents the live token.                                      *)
LEMMA AskingIsLive ==
    ASSUME Ties, Trail, Newest, NEW r \in 1 .. Len(requests),
           requests[r].step \in {"asking", "revoking"},
           SessionOf(requests[r].token) \in Live \ (lossy \cup crossed)
    PROVE  /\ Kept /\ SessionOf(requests[r].token) = sessions
           /\ requests[r].step = "asking" /\ requests[r].token = store.token
           /\ rows[store.token].revoked = "no" /\ ~Refused(r)
           /\ \E t \in Tab : holder = t /\ tab[t].at = r
  <1>1. PICK t \in Tab : holder = t /\ tab[t].at = r
    BY DEF Trail, IsHeard
  <1>2. Kept /\ InFlight(t)
    BY <1>1, CleanIsKept DEF Trail, Request_
  <1>3. /\ requests[r].step = "asking" /\ requests[r].token = store.token
        /\ rows[store.token].revoked = "no"
    BY <1>1, <1>2 DEF InFlight, Request_
  <1>4. SessionOf(store.token) = sessions
    BY <1>2 DEF Newest
  <1>5. RequestSound(requests[r])
    BY DEF Ties, RequestsTied
  <1>6. ~requests[r].dead
    BY <1>3, <1>5 DEF RequestSound, Live
  <1>7. ~Refused(r)
    BY <1>3, <1>6 DEF Refused, LostPair
  <1> QED
    BY <1>1, <1>2, <1>3, <1>4, <1>7


(* The one in flight, while the sign-in is kept, is of a clean session. *)
LEMMA FlightIsClean ==
    ASSUME Newest, Kept, NEW t \in Tab, holder = t
    PROVE  /\ InFlight(t) /\ Request_(t).token = store.token
           /\ SessionOf(Request_(t).token) = sessions
           /\ SessionOf(Request_(t).token) \in Live \ (lossy \cup crossed)
  BY DEF Newest, Kept, InFlight

(* A decision about a session that is not clean: nothing in flight hears of *)
(* it, and it takes no live token of the last session.                      *)
LEMMA ElsewhereNewest ==
    ASSUME Ties, Trail, Newest, Kept, UNCHANGED browserVars, sessions' = sessions,
           NEW r \in 1 .. Len(requests),
           SessionOf(requests[r].token) \notin Live \ (lossy \cup crossed),
           \A x \in 1 .. Len(requests) : x # r => requests'[x] = requests[x],
           \A i \in Issued : /\ rows'[i].session = rows[i].session
                             /\ rows[i].session = sessions /\ rows[i].revoked = "no"
                                  => rows'[i].revoked = "no"
    PROVE  Newest'
  <1>1. ASSUME NEW t \in Tab, holder = t
        PROVE  requests'[tab[t].at] = requests[tab[t].at]
    BY <1>1, FlightIsClean, TabFacts DEF TabSound, Request_
  <1> QED
    BY <1>1, ServerStill

(* The live token of the kept sign-in is rotated: its tab will hear. *)
LEMMA RotateNewest ==
    ASSUME Ties, Trail, Newest, Kept, UNCHANGED browserVars,
           UNCHANGED <<sessions, ended>>,
           NEW r \in 1 .. Len(requests), requests[r].step = "asking", Rotate(r)
    PROVE  Newest'
  <1> DEFINE n == Len(rows) + 1
             i == requests[r].token
  <1>1. /\ Len(rows) \in Nat /\ n \in Token /\ Len(rows') = n
        /\ rows'[n] = [session |-> SessionOf(i), parent |-> i,
                       used |-> FALSE, revoked |-> "no"]
        /\ i \in Issued
        /\ \A j \in Issued : /\ j # i => rows'[j] = rows[j]
                             /\ rows'[j].session = rows[j].session
    BY RotateGrows, TabFacts
  <1>2. Answer(r, n)
    BY DEF Rotate, Issues
  <1> HIDE DEF n
  <1>3. /\ Len(requests') = Len(requests)
        /\ \A x \in 1 .. Len(requests) : x # r => requests'[x] = requests[x]
        /\ \/ requests'[r].step = "over"
           \/ /\ requests'[r].step = "answered" /\ requests'[r].answer = n
              /\ requests'[r].token = requests[r].token
        /\ \A t \in Tab : holder = t /\ tab[t].at = r =>
             requests'[r].step = "answered"
    BY <1>1, <1>2, AnswerTells
  <1>4. CASE SessionOf(i) \notin Live \ (lossy \cup crossed)
    <2>1. SessionOf(i) # sessions
      BY <1>4 DEF Kept
    <2>2. \A j \in Issued : rows[j].session = sessions => j # i
      BY <2>1 DEF SessionOf
    <2> HIDE DEF i
    <2>3. \A j \in Issued : /\ rows'[j].session = rows[j].session
                            /\ rows[j].session = sessions /\ rows[j].revoked = "no"
                                 => rows'[j].revoked = "no"
      BY <1>1, <2>2
    <2> QED
      BY <1>3, <1>4, <2>3, ElsewhereNewest DEF i
  <1>5. CASE SessionOf(i) \in Live \ (lossy \cup crossed)
    <2>1. PICK u \in Tab : holder = u /\ tab[u].at = r
      BY <1>5, AskingIsLive
    <2>2. holder # None
      BY <2>1, TabFacts
    <2>3. ASSUME NEW t \in Tab, holder = t PROVE InFlight(t)'
      <3>1. t = u /\ tab[t].at = r
        BY <2>1, <2>3
      <3>2. InFlight(t)
        BY <2>3, FlightIsClean
      <3>3. /\ requests'[r].step = "answered" /\ requests'[r].answer = n
            /\ requests'[r].token = requests[r].token
        BY <1>3, <2>3, <3>1
      <3>4. n # None /\ rows'[n].revoked = "no"
        BY <1>1, RotationAssumption DEF Token
      <3> QED
        BY <3>1, <3>2, <3>3, <3>4 DEF InFlight, Request_, browserVars
    <2> QED
      BY <1>1, <2>2, <2>3, ServerNewest
  <1> QED
    BY <1>4, <1>5

LEMMA RefreshDecidesBrowser ==
    ASSUME Ties, Ties', [Next]_vars, Trail, Newest,
           NEW r \in DOMAIN requests, RefreshDecides(r)
    PROVE  Trail' /\ Newest'
  <1> DEFINE i == requests[r].token
  <1>1. /\ requests \in Seq(Request) /\ r \in 1 .. Len(requests)
        /\ requests[r] \in Request /\ requests[r].step = "asking"
    BY LenProperties DEF Ties, RequestsTied, RefreshDecides
  <1>2. UNCHANGED <<sessions, ended, browserVars, lossy, crossed>>
    BY DEF RefreshDecides
  <1>3. ~Kept' => Newest'
    BY DEF Newest
  <1>4. Kept' => Kept
    BY <1>2, KeptEarlier
  <1>5. None \in Token \cup {None} /\ Len(rows) \in Nat
    BY TabFacts
  <1>6. CASE Refused(r) /\ Answer(r, None) /\ UNCHANGED <<rows, revoke, lost, late, reused>>
    <2>1. Len(rows) <= Len(rows') /\ \A j \in Issued : rows'[j].session = rows[j].session
      BY <1>5, <1>6
    <2>2. Trail'
      BY <1>1, <1>2, <1>5, <1>6, <2>1, AnswerTrail
    <2>3. ASSUME Kept PROVE Newest'
      <3>1. SessionOf(i) \notin Live \ (lossy \cup crossed)
        BY <1>1, <1>6, AskingIsLive
      <3>2. \A x \in 1 .. Len(requests) : x # r => requests'[x] = requests[x]
        BY <1>1, <1>5, <1>6, AnswerTells
      <3>3. \A j \in Issued : /\ rows'[j].session = rows[j].session
                              /\ rows[j].session = sessions /\ rows[j].revoked = "no"
                                   => rows'[j].revoked = "no"
        BY <1>6
      <3> QED
        BY <1>1, <1>2, <2>3, <3>1, <3>2, <3>3, ElsewhereNewest
    <2> QED
      BY <1>3, <1>4, <2>2, <2>3
  <1>7. CASE Rotate(r) /\ UNCHANGED reused
    <2>1. /\ Len(rows') = Len(rows) + 1 /\ Len(rows) + 1 \in Token
          /\ \A j \in Issued : rows'[j].session = rows[j].session
      BY <1>1, <1>2, <1>7, RotateGrows
    <2>2. Len(rows) <= Len(rows') /\ Len(rows) + 1 \in Token \cup {None}
      BY <1>5, <2>1
    <2>3. Answer(r, Len(rows) + 1)
      BY <1>7 DEF Rotate, Issues
    <2>4. Trail'
      BY <1>1, <1>2, <1>7, <2>1, <2>2, <2>3, AnswerTrail
    <2>5. Kept => Newest'
      BY <1>1, <1>2, <1>7, RotateNewest
    <2> QED
      BY <1>3, <1>4, <2>4, <2>5
  <1>8. CASE /\ rows[i].revoked # "no"
             /\ requests' = [requests EXCEPT ![r].step = "revoking"]
             /\ reused' = IF SessionOf(i) \in Live THEN reused \cup {i} ELSE reused
             /\ UNCHANGED <<rows, lost, late>>
    <2>1. PICK q : q = [requests[r] EXCEPT !.step = "revoking"]
      OBVIOUS
    <2>2. q \in Request /\ q.step = "revoking" /\ q.token = i
      BY <1>1, <2>1 DEF Request
    <2>3. /\ Len(requests') = Len(requests)
          /\ \A x \in 1 .. Len(requests) :
               requests'[x] = IF x = r THEN q ELSE requests[x]
      BY <1>1, <1>8, <2>1, <2>2, ExceptSeq
    <2>4. SessionOf(i) \notin Live \ (lossy \cup crossed)
      BY <1>1, <1>8, AskingIsLive
    <2>5. Excused(reused')
      <3>1. i \in Issued
        BY <1>1 DEF Ties, RequestsTied, RequestSound
      <3>2. CASE SessionOf(i) \in Live
        BY <1>8, <2>4, <3>1, <3>2 DEF Trail, Excused
      <3>3. CASE SessionOf(i) \notin Live
        BY <1>8, <3>3 DEF Trail, Excused
      <3> QED
        BY <3>2, <3>3
    <2>6. \A x \in 1 .. Len(requests) :
             requests'[x].step # "over" => /\ requests[x].step # "over"
                                           /\ requests'[x].token = requests[x].token
      BY <1>1, <2>2, <2>3
    <2>7. Len(rows) <= Len(rows') /\ \A j \in Issued : rows'[j].session = rows[j].session
      BY <1>5, <1>8
    <2>8. Trail'
      BY <1>2, <2>3, <2>5, <2>6, <2>7, ServerTrail
    <2>9. \A x \in 1 .. Len(requests) : x # r => requests'[x] = requests[x]
      BY <2>3
    <2>10. \A j \in Issued : /\ rows'[j].session = rows[j].session
                             /\ rows[j].session = sessions /\ rows[j].revoked = "no"
                                  => rows'[j].revoked = "no"
      BY <1>8
    <2>11. Kept => Newest'
      BY <1>1, <1>2, <2>4, <2>9, <2>10, ElsewhereNewest
    <2> QED
      BY <1>3, <1>4, <2>8, <2>11
  <1> QED
    BY <1>6, <1>7, <1>8 DEF RefreshDecides

LEMMA ReuseAnsweredBrowser ==
    ASSUME Ties, Ties', [Next]_vars, Trail, Newest,
           NEW r \in DOMAIN requests, ReuseAnswered(r)
    PROVE  Trail' /\ Newest'
  <1>1. r \in 1 .. Len(requests) /\ requests[r].step = "revoking" /\ Answer(r, None)
    BY LenProperties DEF Ties, RequestsTied, ReuseAnswered
  <1>2. UNCHANGED <<rows, sessions, browserVars, lossy, crossed, reused>>
    BY DEF ReuseAnswered, history
  <1>3. /\ None \in Token \cup {None} /\ Len(rows) <= Len(rows')
        /\ \A j \in Issued : rows'[j].session = rows[j].session
    BY <1>2, TabFacts
  <1>4. Trail'
    BY <1>1, <1>2, <1>3, AnswerTrail
  <1>5. ASSUME Kept' PROVE Newest'
    <2>1. Kept
      BY <1>2, <1>5, KeptEarlier
    <2>2. SessionOf(requests[r].token) \notin Live \ (lossy \cup crossed)
      BY <1>1, AskingIsLive
    <2>3. \A x \in 1 .. Len(requests) : x # r => requests'[x] = requests[x]
      BY <1>1, <1>3, AnswerTells
    <2>4. \A j \in Issued : /\ rows'[j].session = rows[j].session
                            /\ rows[j].session = sessions /\ rows[j].revoked = "no"
                                 => rows'[j].revoked = "no"
      BY <1>2
    <2> QED
      BY <1>1, <1>2, <2>1, <2>2, <2>3, <2>4, ElsewhereNewest
  <1> QED
    BY <1>4, <1>5 DEF Newest


(* A step of the server that answers nobody. *)
LEMMA SilentBrowser ==
    ASSUME Ties, Ties', [Next]_vars, Trail, Newest,
           UNCHANGED <<sessions, requests, browserVars, history>>,
           Len(rows) <= Len(rows'),
           \A i \in Issued : rows'[i].session = rows[i].session,
           Kept' => \A i \in Issued :
             rows[i].session = sessions /\ rows[i].revoked = "no" => rows'[i].revoked = "no"
    PROVE  Trail' /\ Newest'
  <1>1. Excused(reused')
    BY DEF Trail, history, Excused
  <1>2. UNCHANGED <<lossy, crossed>>
    BY DEF history
  <1>3. Trail'
    BY <1>1, <1>2, ServerTrail
  <1>4. ASSUME Kept' PROVE Newest'
    <2>1. Kept
      BY <1>4, KeptEarlier
    <2> QED
      BY <1>4, <2>1, ServerStill
  <1> QED
    BY <1>3, <1>4 DEF Newest

LEMMA RevokeStartsBrowser ==
    ASSUME Ties, Ties', [Next]_vars, Trail, Newest,
           NEW s \in Session, RevokeStarts(s)
    PROVE  Trail' /\ Newest'
  <1>1. UNCHANGED <<rows, sessions, requests, browserVars, history>>
    BY DEF RevokeStarts
  <1> QED
    BY <1>1, TabFacts, SilentBrowser DEF Ties, RowsTied

LEMMA RevokeEndsBrowser ==
    ASSUME Ties, Ties', [Next]_vars, Trail, Newest,
           NEW s \in Session, RevokeEnds(s)
    PROVE  Trail' /\ Newest'
  <1>1. UNCHANGED <<sessions, requests, browserVars, history>> /\ ended' = ended \cup {s}
    BY DEF RevokeEnds
  <1>2. /\ Len(rows') = Len(rows) /\ Len(rows) \in Nat
        /\ \A i \in Issued :
             /\ rows'[i].session = rows[i].session
             /\ rows'[i] = rows[i] \/ /\ SessionOf(i) = s /\ rows[i].revoked = "no"
                                      /\ rows'[i].revoked = "grace"
    BY RevokeEndsRows DEF Ties, RowsTied
  <1>3. Kept' => s # sessions
    BY <1>1 DEF Kept, Live
  <1>4. Kept' => \A i \in Issued :
          rows[i].session = sessions /\ rows[i].revoked = "no" => rows'[i].revoked = "no"
    BY <1>2, <1>3 DEF SessionOf
  <1> QED
    BY <1>1, <1>2, <1>4, SilentBrowser

LEMMA GraceEndsBrowser ==
    ASSUME Ties, Ties', [Next]_vars, Trail, Newest,
           NEW i \in DOMAIN rows, GraceEnds(i)
    PROVE  Trail' /\ Newest'
  <1>1. UNCHANGED <<sessions, requests, browserVars, history>>
    BY DEF GraceEnds
  <1>2. /\ Len(rows') = Len(rows) /\ Len(rows) \in Nat
        /\ \A j \in Issued :
             /\ rows'[j].session = rows[j].session
             /\ rows'[j] = rows[j] \/ /\ rows[j].revoked = "grace"
                                      /\ rows'[j].revoked = "old"
    BY GraceEndsRows DEF Ties, RowsTied
  <1>3. Kept' => \A j \in Issued :
          rows[j].session = sessions /\ rows[j].revoked = "no" => rows'[j].revoked = "no"
    BY <1>2
  <1> QED
    BY <1>1, <1>2, <1>3, SilentBrowser

-----------------------------------------------------------------------------
(* Every step of a tab keeps the browser's layer.                           *)

(* A tab of a kept sign-in that leaves the storage, the key, the rows and  *)
(* the requests alone.                                                     *)
LEMMA QuietNewest ==
    ASSUME Ties, Newest, Kept, UNCHANGED <<rows, sessions, requests, store, active>>,
           NEW t \in Tab, NEW m \in Memory, tab' = [tab EXCEPT ![t] = m],
           holder # t, holder' = holder,
           ~m.leaving, ~m.moved, m.step # "dropping", ~m.signing,
           m.token # None => /\ active /\ m.version <= store.version
                             /\ m.version = store.version => m.token = store.token,
           \/ m.token = None /\ m.step = "idle"
           \/ \A u \in Tab \ {t} : ~tab[u].signing
    PROVE  Newest'
  <1>1. \A u \in Tab : tab'[u] = IF u = t THEN m ELSE tab[u]
    BY TabFacts
  <1>2. \A u \in Tab : InStep(u)
    BY DEF Newest
  <1>3. InStep(t)'
    BY <1>1 DEF InStep
  <1>4. ASSUME NEW u \in Tab, u # t PROVE InStep(u)'
    <2>1. InStep(u) /\ tab'[u] = tab[u]
      BY <1>1, <1>2, <1>4
    <2>2. tab[u].signing => m.token = None /\ m.step = "idle" /\ ~m.signing
      BY <1>4
    <2>3. tab[u].signing =>
            \A v \in Tab \ {u} : /\ tab'[v].step = "idle" /\ tab'[v].token = None
                                 /\ ~tab'[v].signing
      BY <1>1, <2>1, <2>2 DEF InStep
    <2> QED
      BY <2>1, <2>3 DEF InStep
  <1>5. ASSUME NEW u \in Tab, holder = u PROVE InFlight(u)'
    <2>1. tab'[u] = tab[u] /\ InFlight(u)
      BY <1>1, <1>5 DEF Newest
    <2> QED
      BY <2>1 DEF InFlight, Request_
  <1> QED
    BY <1>3, <1>4, <1>5 DEF Newest, SessionOf


(* A tab that is at work is not met by a sign-in that is kept. *)
LEMMA NobodySigns ==
    ASSUME Newest, Kept, NEW t \in Tab, tab[t].step # "idle" \/ tab[t].token # None
    PROVE  \A u \in Tab \ {t} : ~tab[u].signing
  <1>1. \A u \in Tab : InStep(u)
    BY DEF Newest
  <1> QED
    BY <1>1 DEF InStep

LEMMA RefreshesBrowser ==
    ASSUME Ties, Ties', [Next]_vars, Trail, Newest, NEW t \in Tab, Refreshes(t)
    PROVE  Trail' /\ Newest'
  <1>1. PICK m \in Memory :
          /\ tab' = [tab EXCEPT ![t] = m]
          /\ m.token = tab[t].token /\ m.version = tab[t].version
          /\ m.known = tab[t].known /\ m.step = "waiting" /\ m.at = tab[t].at
          /\ ~m.moved /\ m.leaving = tab[t].leaving /\ ~m.signing
    BY RefreshesReturns
  <1>2. UNCHANGED <<rows, sessions, requests, store, active, holder, crossed, reused>>
    BY DEF Refreshes, serverVars, history
  <1>3. Trail'
    BY <1>1, <1>2, QuietTrail
  <1>4. ASSUME Kept' PROVE Newest'
    <2>1. Kept
      BY <1>2, <1>4, KeptEarlier
    <2>2. InStep(t) /\ tab[t].token # None /\ ~tab[t].signing /\ tab[t].step = "idle"
      BY <2>1 DEF Newest, Refreshes
    <2>3. holder # t
      BY <2>2, TabFacts DEF TabSound
    <2>4. m.token # None => /\ active /\ m.version <= store.version
                            /\ m.version = store.version => m.token = store.token
      BY <1>1, <2>2 DEF InStep
    <2>5. ~m.leaving
      BY <1>1, <2>2 DEF InStep
    <2> QED
      BY <1>1, <1>2, <2>1, <2>2, <2>3, <2>4, <2>5, NobodySigns, QuietNewest
  <1> QED
    BY <1>3, <1>4 DEF Newest

(* A request is sent: for the stored token, if the sign-in is kept. *)
LEMMA SendsBrowser ==
    ASSUME Ties, Ties', [Next]_vars, Trail, Newest, NEW t \in Tab,
           UNCHANGED <<rows, sessions, store, active, lossy, crossed, reused>>,
           holder = None, holder' = t, tab[t].step = "waiting",
           NEW m \in Memory, tab' = [tab EXCEPT ![t] = m], ~m.moved,
           m.leaving = tab[t].leaving, m.signing = tab[t].signing,
           m.token = tab[t].token, m.version = tab[t].version,
           m.step = "sent", m.at = Len(requests) + 1,
           m.key = (active /\ store # None), m.target = (active /\ store # None),
           NEW i \in Token,
           \/ /\ active /\ store # None /\ i = store.token
           \/ /\ i = tab[t].token
              /\ active /\ store # None => store.version <= tab[t].version,
           requests' = Append(requests, [step |-> "sent", token |-> i,
                                         dead |-> FALSE, answer |-> None])
    PROVE  Trail' /\ Newest'
  <1> DEFINE q == [step |-> "sent", token |-> i, dead |-> FALSE, answer |-> None]
             n == Len(requests) + 1
  <1>1. /\ q \in Request /\ q.step = "sent" /\ q.token = i
        /\ requests \in Seq(Request) /\ Len(requests) \in Nat /\ None \notin Nat
    BY TabFacts DEF Request
  <1> HIDE DEF q
  <1>2. requests' = Append(requests, q)
    BY DEF q
  <1>3. /\ Len(requests') = n /\ requests'[n] = q
        /\ \A x \in 1 .. Len(requests) : requests'[x] = requests[x]
    BY <1>1, <1>2, AppendProperties
  <1>4. /\ \A u \in Tab : tab'[u] = IF u = t THEN m ELSE tab[u]
        /\ \A u \in Tab : holder # u /\ (holder' = u => u = t)
    BY TabFacts
  <1>5. Request_(t)' = q
    BY <1>3, <1>4 DEF Request_
  <1>6. i # None
    BY <1>1, RotationAssumption DEF Token
  <1>7. OfLast(i)
    BY <1>6 DEF Trail, FromLast
  <1>8. IsHeard'
    <2>1. ASSUME NEW x \in 1 .. Len(requests),
                 requests'[x].step # "over", SessionOf(requests'[x].token) \notin lossy
          PROVE  FALSE
      BY <1>3, <1>4, <2>1 DEF Trail, IsHeard
    <2>2. \A x \in 1 .. n : x \in 1 .. Len(requests) \/ x = n
      BY <1>1
    <2>3. holder' = t /\ tab'[t].at = n
      BY <1>4
    <2> HIDE DEF n
    <2> QED
      BY <1>3, <2>1, <2>2, <2>3 DEF IsHeard, SessionOf
  <1>9. \A u \in Tab : holder' = u => OfLast(Request_(u)'.token)
    BY <1>1, <1>4, <1>5, <1>7
  <1>10. /\ m.token # None => OfLast(m.token)
         /\ store' # None => OfLast(store'.token)
    BY DEF Trail, FromLast
  <1>11. Trail'
    BY <1>8, <1>9, <1>10, TabTrail
  <1>12. ASSUME Kept' PROVE Newest'
    <2>1. Kept
      BY <1>12, KeptEarlier
    <2>2. /\ \A u \in Tab : InStep(u)
          /\ store # None /\ SessionOf(store.token) = sessions
          /\ rows[store.token].revoked = "no"
      BY <2>1 DEF Newest
    <2>3. InStep(t) /\ ~tab[t].signing
      BY <2>2 DEF InStep
    <2>4. active
      BY <1>6, <2>3 DEF InStep
    <2>5. i = store.token
      <3>1. CASE active /\ store # None /\ i = store.token
        BY <3>1
      <3>2. CASE /\ i = tab[t].token
                 /\ active /\ store # None => store.version <= tab[t].version
        <4>1. /\ tab[t].version <= store.version
              /\ tab[t].version = store.version => tab[t].token = store.token
          BY <1>6, <2>3, <3>2 DEF InStep
        <4>2. store.version <= tab[t].version
          BY <2>2, <2>4, <3>2
        <4>3. tab[t].version \in Nat /\ store.version \in Nat
          BY <2>2, TabFacts, MemoryFields DEF Stored
        <4> QED
          BY <3>2, <4>1, <4>2, <4>3
      <3> QED
        BY <3>1, <3>2
    <2>6. InFlight(t)'
      BY <1>1, <1>4, <1>5, <2>2, <2>4, <2>5 DEF InFlight
    <2>7. InStep(t)'
      BY <1>4, <2>3 DEF InStep
    <2>8. ASSUME NEW u \in Tab, u # t PROVE InStep(u)'
      <3>1. ~tab[u].signing
        BY <2>1, <2>8, NobodySigns
      <3> QED
        BY <1>4, <2>2, <2>8, <3>1 DEF InStep
    <2> QED
      BY <1>4, <2>2, <2>6, <2>7, <2>8, TabFacts DEF Newest, SessionOf
  <1> QED
    BY <1>11, <1>12 DEF Newest


LEMMA AcquiresBrowser ==
    ASSUME Ties, Ties', [Next]_vars, Trail, Newest, NEW t \in Tab, Acquires(t)
    PROVE  Trail' /\ Newest'
  <1> DEFINE stored == active /\ store # None
             newer == stored /\ (store.version > tab[t].version \/ tab[t].token = None)
  <1>1. PICK m \in Memory :
             /\ tab' = [tab EXCEPT ![t] = m]
             /\ m.known \in {None, store} /\ ~m.moved
             /\ m.leaving = tab[t].leaving /\ m.signing = tab[t].signing
             /\ \/ /\ stored
                   /\ m.token = store.token /\ m.version = store.version
                   /\ m.step = "idle" /\ m.at = 0
                   /\ UNCHANGED <<holder, requests>>
                \/ /\ m.token = tab[t].token /\ m.version = tab[t].version
                   /\ m.step = "idle" /\ m.at = 0
                   /\ UNCHANGED <<holder, requests>>
                \/ /\ m.token = tab[t].token /\ m.version = tab[t].version
                   /\ m.step = "sent" /\ m.at = Len(requests) + 1
                   /\ m.key = stored /\ m.target = stored
                   /\ holder' = t
                   /\ \E i \in Token :
                        /\ \/ newer /\ i = store.token
                           \/ ~newer /\ i = tab[t].token
                        /\ requests' = Append(requests,
                              [step |-> "sent", token |-> i, dead |-> FALSE,
                               answer |-> None])
    BY AcquiresReturns
  <1>2. /\ UNCHANGED <<rows, sessions, store, active, lossy, crossed, reused>>
        /\ tab[t].step = "waiting" /\ holder = None
    BY DEF Acquires, history
  <1>3. tab[t].at = 0 /\ holder # t /\ tab[t].version \in Nat
    BY <1>2, TabFacts, MemoryFields DEF TabSound
  <1>4. CASE /\ \/ stored /\ m.token = store.token /\ m.version = store.version
                \/ m.token = tab[t].token /\ m.version = tab[t].version
             /\ m.step = "idle" /\ m.at = 0
             /\ UNCHANGED <<holder, requests>>
    <2>1. Trail'
      BY <1>1, <1>2, <1>3, <1>4, QuietTrail
    <2>2. ASSUME Kept' PROVE Newest'
      <3>1. Kept
        BY <1>2, <2>2, KeptEarlier
      <3>2. InStep(t)
        BY <3>1 DEF Newest
      <3>3. ~tab[t].signing /\ ~tab[t].leaving
        BY <1>2, <3>2 DEF InStep
      <3>4. store # None => store.version \in Nat
        BY TabFacts DEF Stored
      <3>5. m.token # None => /\ active /\ m.version <= store.version
                              /\ m.version = store.version => m.token = store.token
        BY <1>4, <3>2, <3>3, <3>4 DEF InStep
      <3>6. \A u \in Tab \ {t} : ~tab[u].signing
        BY <1>2, <3>1, NobodySigns
      <3> QED
        BY <1>1, <1>2, <1>3, <1>4, <3>1, <3>3, <3>5, <3>6, QuietNewest
    <2> QED
      BY <2>1, <2>2 DEF Newest
  <1>5. CASE /\ m.token = tab[t].token /\ m.version = tab[t].version
             /\ m.step = "sent" /\ m.at = Len(requests) + 1
             /\ m.key = stored /\ m.target = stored
             /\ holder' = t
             /\ \E i \in Token :
                  /\ \/ newer /\ i = store.token
                     \/ ~newer /\ i = tab[t].token
                  /\ requests' = Append(requests,
                        [step |-> "sent", token |-> i, dead |-> FALSE,
                         answer |-> None])
    <2>1. PICK i \in Token :
                  /\ \/ newer /\ i = store.token
                     \/ ~newer /\ i = tab[t].token
                  /\ requests' = Append(requests,
                        [step |-> "sent", token |-> i, dead |-> FALSE,
                         answer |-> None])
      BY <1>5
    <2>2. store # None => store.version \in Nat
      BY TabFacts DEF Stored
    <2>3. \/ active /\ store # None /\ i = store.token
          \/ /\ i = tab[t].token
             /\ active /\ store # None => store.version <= tab[t].version
      BY <1>3, <2>1, <2>2
    <2> QED
      BY <1>1, <1>2, <1>5, <2>1, <2>3, SendsBrowser
  <1> QED
    BY <1>1, <1>4, <1>5

(* A refusal that a kept sign-in never meets. *)
LEMMA IsRefusedBrowser ==
    ASSUME Ties, Ties', [Next]_vars, Trail, Newest, NEW t \in Tab, IsRefused(t)
    PROVE  Trail' /\ Newest'
  <1>1. /\ holder = t
        /\ Request_(t).step = "answered" /\ Request_(t).answer = None
        /\ \/ store' = store /\ active' = active
           \/ store' = None /\ active' = FALSE /\ tab[t].moved
    BY IsRefusedReturns
  <1>2. PICK m \in Memory :
                /\ tab' = [tab EXCEPT ![t] = m]
                /\ m.leaving = tab[t].leaving /\ m.signing = tab[t].signing
                /\ m.known \in {None, store, tab[t].known} /\ ~m.moved
                /\ \/ m.token = tab[t].token /\ m.version = tab[t].version
                   \/ /\ active /\ store # None /\ ~tab[t].moved
                      /\ m.token = store.token /\ m.version = store.version
                /\ \/ m.step = "idle" /\ m.at = 0 /\ Closes(t)
                   \/ /\ m.step = "dropping" /\ m.at = tab[t].at
                      /\ ~tab[t].moved /\ UNCHANGED <<holder, requests>>
    BY IsRefusedReturns
  <1>3. UNCHANGED <<rows, sessions, ended, lossy, crossed, reused>>
    BY DEF IsRefused, history
  <1>4. ~Kept'
    <2>1. SUFFICES ASSUME Kept' PROVE FALSE
      OBVIOUS
    <2>2. Kept
      BY <1>3, <2>1, KeptEarlier
    <2> QED
      BY <1>1, <2>2, FlightIsClean DEF InFlight
  <1>5. SessionOf(Request_(t).token) \notin Live \ (lossy \cup crossed)
    BY <1>1, CleanIsKept DEF InFlight, Trail
  <1>6. m.token # None => OfLast(m.token)
    BY <1>2 DEF Trail, FromLast
  <1>7. store' # None => OfLast(store'.token)
    BY <1>1 DEF Trail, FromLast
  <1>8. CASE m.step = "idle" /\ m.at = 0 /\ Closes(t)
    BY <1>1, <1>2, <1>3, <1>4, <1>6, <1>7, <1>8, ClosingTrail DEF Newest
  <1>9. CASE /\ m.step = "dropping" /\ m.at = tab[t].at
             /\ UNCHANGED <<holder, requests>>
    <2>1. \A u \in Tab : Request_(u)' = Request_(u) /\ tab'[u].at = tab[u].at
      BY <1>2, <1>9, TabFacts DEF Request_
    <2>2. IsHeard'
      BY <1>3, <1>9, <2>1 DEF IsHeard, Trail, SessionOf
    <2>3. \A u \in Tab : holder' = u => OfLast(Request_(u)'.token)
      BY <1>9, <2>1 DEF Trail, FromLast
    <2>4. Trail'
      BY <1>2, <1>3, <1>5, <1>6, <1>7, <1>9, <2>2, <2>3, TabTrail
    <2> QED
      BY <1>4, <2>4 DEF Newest
  <1> QED
    BY <1>2, <1>8, <1>9

LEMMA DropsBrowser ==
    ASSUME Ties, Ties', [Next]_vars, Trail, Newest, NEW t \in Tab, Drops(t)
    PROVE  Trail' /\ Newest'
  <1>1. /\ tab[t].step = "dropping" /\ holder = t /\ Closes(t)
        /\ Dropped(t, Rest(tab[t])) /\ Rest(tab[t]) \in Memory
        /\ Rest(tab[t]).step = "idle" /\ tab[t] \in Memory
    BY TabFacts, RestReturns DEF Drops, TabSound
  <1>2. PICK p \in Memory : p = Rest(tab[t])
    BY <1>1
  <1>3. \/ store' = None /\ active' = FALSE
        \/ store' = store /\ active' = active
    BY <1>1, DroppedReturns
  <1>4. \E n \in Memory :
                /\ tab' = [tab EXCEPT ![t] = n]
                /\ n.token = None /\ n.version = 0 /\ n.known \in {None, p.known}
                /\ (p.step = "idle" => ~n.moved) /\ (p.step # "idle" => n.moved)
                /\ n.step = p.step /\ n.at = p.at
                /\ n.leaving = p.leaving /\ n.signing = p.signing
    BY <1>1, <1>2, DroppedReturns
  <1>5. PICK m \in Memory : /\ tab' = [tab EXCEPT ![t] = m]
                            /\ m.token = None /\ m.step = "idle"
    BY <1>1, <1>2, <1>4
  <1>6. UNCHANGED <<rows, sessions, ended, lossy, crossed, reused>>
    BY DEF Drops, history
  <1>7. Trail'
    BY <1>1, <1>3, <1>5, <1>6, ClosingTrail DEF Trail, FromLast
  <1>8. ~Kept'
    <2>1. SUFFICES ASSUME Kept' PROVE FALSE
      OBVIOUS
    <2>2. Kept
      BY <1>6, <2>1, KeptEarlier
    <2> QED
      BY <1>1, <2>2 DEF Newest, InStep
  <1> QED
    BY <1>7, <1>8 DEF Newest


(* A pair that arrives for a kept sign-in is stored, and is the newest. *)
LEMMA RotatedBrowser ==
    ASSUME Ties, Ties', [Next]_vars, Trail, Newest, NEW t \in Tab,
           NEW saved \in BOOLEAN, Rotated(t, saved)
    PROVE  Trail' /\ Newest'
  <1>0. PICK n : n = Request_(t).answer
    OBVIOUS
  <1>1. /\ holder = t /\ Request_(t).step = "answered"
        /\ n \in Issued /\ n \in Token
        /\ SessionOf(n) = SessionOf(Request_(t).token)
        /\ store' = IF tab[t].target /\ saved THEN Updated(n) ELSE store
        /\ active' = IF tab[t].target THEN tab[t].key ELSE active
        /\ store' \in Stored \cup {None}
    BY <1>0, RotatedReturns
  <1>2. PICK m \in Memory :
                /\ tab' = [tab EXCEPT ![t] = m]
                /\ m.step = "idle" /\ m.at = 0 /\ ~m.moved
                /\ m.leaving = tab[t].leaving /\ m.signing = tab[t].signing
                /\ m.known # None => m.known.token \in Issued
                /\ m.token = IF tab[t].moved THEN tab[t].token ELSE n
                /\ ~tab[t].moved /\ tab[t].target /\ tab[t].key /\ store # None =>
                     m.version = store.version + 1
    BY <1>0, RotatedReturns
  <1>3. /\ UNCHANGED <<rows, sessions, ended, crossed, reused>> /\ Closes(t)
        /\ lossy' = IF saved /\ tab[t].target /\ store # None THEN lossy
                    ELSE lossy \cup {SessionOf(Request_(t).token)}
    BY DEF Rotated
  <1>4. OfLast(n)
    BY <1>1 DEF Trail, FromLast, OfLast
  <1>5. m.token # None => OfLast(m.token)
    BY <1>2, <1>4 DEF Trail, FromLast
  <1>6. store' # None => OfLast(store'.token)
    BY <1>1, <1>4 DEF Trail, FromLast, Updated
  <1>7. Trail'
    BY <1>1, <1>2, <1>3, <1>5, <1>6, ClosingTrail
  <1>8. ASSUME Kept' PROVE Newest'
    <2>1. Kept
      BY <1>3, <1>8, KeptEarlier
    <2>2. /\ InFlight(t) /\ SessionOf(Request_(t).token) = sessions
          /\ \A u \in Tab : InStep(u)
          /\ store # None
      BY <1>1, <2>1, FlightIsClean DEF Newest
    <2>3. /\ tab[t].target /\ tab[t].key /\ rows[n].revoked = "no"
      BY <1>0, <1>1, <2>2 DEF InFlight
    <2>4. saved
      BY <1>3, <1>8, <2>2 DEF Kept
    <2>5. /\ store' = [token |-> n, version |-> store.version + 1]
          /\ active'
      BY <1>1, <2>2, <2>3, <2>4 DEF Updated
    <2>6. store.version \in Nat /\ store' # None /\ store'.token = n
          /\ store'.version = store.version + 1
      <3>1. store.version \in Nat /\ store.version + 1 \in Nat
        BY <2>2, TabFacts DEF Stored
      <3>2. n \in Nat
        BY <1>1, RotationAssumption DEF Token
      <3>3. store' \in [token : Nat, version : Nat]
        BY <2>5, <3>1, <3>2
      <3> QED
        BY <2>5, <3>1, <3>3, RotationAssumption
    <2>7. \A u \in Tab : tab'[u] = IF u = t THEN m ELSE tab[u]
      BY <1>2, TabFacts
    <2>8. InStep(t)'
      <3>1. /\ ~tab[t].moved /\ ~tab[t].leaving /\ ~tab[t].signing
        BY <1>1, <2>2, TabFacts DEF InStep, TabSound
      <3>2. m.token = n /\ m.version = store'.version
        BY <1>2, <2>2, <2>3, <2>6, <3>1
      <3>3. store'.version <= store'.version
        BY <2>6
      <3> QED
        BY <1>2, <2>5, <2>6, <2>7, <3>1, <3>2, <3>3 DEF InStep
    <2>9. ASSUME NEW u \in Tab, u # t PROVE InStep(u)'
      <3>1. ~tab[u].signing
        <4>1. tab[t].step # "idle"
          BY <1>1, TabFacts DEF TabSound
        <4> QED
          BY <2>1, <2>9, <4>1, NobodySigns
      <3>2. InStep(u) /\ tab'[u] = tab[u] /\ tab[u].version \in Nat
        BY <2>2, <2>7, <2>9, TabFacts, MemoryFields
      <3>3. tab[u].token # None => /\ tab[u].version <= store'.version
                                   /\ tab[u].version # store'.version
        BY <2>6, <3>2 DEF InStep
      <3> QED
        BY <2>5, <3>1, <3>2, <3>3 DEF InStep
    <2>10. SessionOf(store.token)' = sessions'
      BY <1>1, <1>3, <2>2, <2>6 DEF SessionOf
    <2>11. rows'[store'.token].revoked = "no"
      BY <1>3, <2>3, <2>6
    <2>12. \A u \in Tab : holder' # u
      BY <1>3, TabFacts DEF Closes
    <2> QED
      BY <2>6, <2>8, <2>9, <2>10, <2>11, <2>12 DEF Newest
  <1> QED
    BY <1>7, <1>8 DEF Newest

(* A lost call, a page that is loaded again. *)
LEMMA LosesBrowser ==
    ASSUME Ties, Ties', [Next]_vars, Trail, Newest, NEW t \in Tab, Loses(t)
    PROVE  Trail' /\ Newest'
  <1>1. /\ tab[t].step = "sent" /\ holder = t /\ holder' = None
        /\ lossy' = lossy \cup Unheard(t)
        /\ UNCHANGED <<rows, sessions, store, active, crossed, reused>>
    BY TabFacts DEF Loses, TabSound
  <1>2. PICK m \in Memory : /\ tab' = [tab EXCEPT ![t] = m]
                            /\ m.token = tab[t].token /\ m.step = "idle" /\ m.at = 0
    BY TabFacts, RestReturns DEF Loses
  <1>3. tab[t].at \in 1 .. Len(requests) /\ requests \in Seq(Request)
    BY <1>1, TabFacts DEF TabSound
  <1>4. PICK q \in Request :
          /\ requests' = [requests EXCEPT ![tab[t].at] = q]
          /\ q.step = "over" \/ /\ q = requests[tab[t].at]
                                /\ q.step \notin {"sent", "answered"}
    <2>1. requests[tab[t].at] \in Request
      BY <1>3
    <2>2. requests' = [requests EXCEPT ![tab[t].at] =
                         IF @.step \in {"sent", "answered"} THEN Over ELSE @]
      BY DEF Loses
    <2>3. CASE requests[tab[t].at].step \in {"sent", "answered"}
      BY <1>3, <2>2, <2>3, OverSound DEF Over
    <2>4. CASE requests[tab[t].at].step \notin {"sent", "answered"}
      BY <1>3, <2>1, <2>2, <2>4
    <2> QED
      BY <2>3, <2>4
  <1>5. /\ Len(requests') = Len(requests)
        /\ \A x \in 1 .. Len(requests) :
             requests'[x] = IF x = tab[t].at THEN q ELSE requests[x]
    BY <1>3, <1>4, ExceptSeq
  <1>6. IsHeard'
    <2>1. ASSUME NEW x \in 1 .. Len(requests),
                 requests'[x].step # "over", SessionOf(requests'[x].token) \notin lossy'
          PROVE  FALSE
      <3>1. CASE x = tab[t].at
        <4>1. requests'[x] = requests[x] /\ requests[x].step \notin {"sent", "answered"}
          BY <1>4, <1>5, <2>1, <3>1
        <4>2. SessionOf(requests[x].token) \in Unheard(t)
          BY <1>1, <3>1, <4>1 DEF Unheard, Request_
        <4> QED
          BY <1>1, <2>1, <4>1, <4>2
      <3>2. CASE x # tab[t].at
        <4>1. requests'[x] = requests[x]
          BY <1>5, <3>2
        <4> QED
          BY <1>1, <2>1, <3>2, <4>1 DEF Trail, IsHeard
      <3> QED
        BY <3>1, <3>2
    <2> QED
      BY <1>1, <1>5, <2>1 DEF IsHeard, SessionOf
  <1>7. \A u \in Tab : holder' # u
    BY <1>1, TabFacts
  <1>8. /\ m.token # None => OfLast(m.token)
        /\ store' # None => OfLast(store'.token)
    BY <1>1, <1>2 DEF Trail, FromLast
  <1>9. Trail'
    BY <1>1, <1>2, <1>6, <1>7, <1>8, TabTrail
  <1>10. ~Kept'
    <2>1. SUFFICES ASSUME Kept' PROVE FALSE
      OBVIOUS
    <2>2. Kept
      BY <1>1, <2>1, KeptEarlier
    <2>3. InFlight(t) /\ SessionOf(Request_(t).token) = sessions
      BY <1>1, <2>2, FlightIsClean
    <2>4. sessions \in Unheard(t)
      BY <1>1, <2>3 DEF Unheard, InFlight
    <2> QED
      BY <1>1, <2>1, <2>4 DEF Kept
  <1> QED
    BY <1>9, <1>10 DEF Newest


LEMMA ReloadsBrowser ==
    ASSUME Ties, Ties', [Next]_vars, Trail, Newest, NEW t \in Tab, Reloads(t)
    PROVE  Trail' /\ Newest'
  <1>1. PICK m \in Memory :
             /\ tab' = [tab EXCEPT ![t] = m]
             /\ m.step = "idle" /\ m.at = 0 /\ ~m.moved /\ ~m.leaving /\ ~m.signing
             /\ m.known \in {None, store}
             /\ \/ m.token = None
                \/ /\ active /\ store # None
                   /\ m.token = store.token /\ m.version = store.version
    BY ReloadsReturns
  <1>2. /\ UNCHANGED <<rows, sessions, store, active, crossed, reused>>
        /\ lossy' = lossy \cup Unheard(t)
        /\ holder' = IF holder = t THEN None ELSE holder
        /\ requests' = IF tab[t].at # 0 /\ Request_(t).step = "answered"
                         THEN [requests EXCEPT ![tab[t].at] = Over] ELSE requests
    BY DEF Reloads
  <1>3. \A u \in Tab : tab'[u] = IF u = t THEN m ELSE tab[u]
    BY <1>1, TabFacts
  <1>4. /\ m.token # None => OfLast(m.token)
        /\ store' # None => OfLast(store'.token)
    BY <1>1, <1>2 DEF Trail, FromLast
  <1>5. CASE holder # t
    <2>1. tab[t].at = 0 /\ requests' = requests /\ holder' = holder
      BY <1>2, <1>5, TabFacts DEF TabSound
    <2>2. Trail'
      BY <1>1, <1>2, <2>1, QuietTrail
    <2>3. ASSUME Kept' PROVE Newest'
      <3>1. Kept
        BY <1>2, <2>3, KeptEarlier
      <3>2. \A u \in Tab : InStep(u)
        BY <3>1 DEF Newest
      <3>3. m.token # None => \A u \in Tab \ {t} : ~tab[u].signing
        BY <1>1, <3>2 DEF InStep
      <3>4. store # None => store.version \in Nat
        BY TabFacts DEF Stored
      <3>5. m.token # None => /\ active /\ m.version <= store.version
                              /\ m.version = store.version => m.token = store.token
        BY <1>1, <3>4
      <3> QED
        BY <1>1, <1>2, <1>5, <2>1, <3>1, <3>3, <3>5, QuietNewest
    <2> QED
      BY <2>2, <2>3 DEF Newest
  <1>6. CASE holder = t
    <2>1. /\ tab[t].at \in 1 .. Len(requests) /\ requests \in Seq(Request)
          /\ tab[t].step \in {"sent", "dropping"}
          /\ tab[t].step = "dropping" => Request_(t).step = "answered"
          /\ tab[t].at # 0
      BY <1>6, TabFacts DEF TabSound, Request_
    <2>2. /\ Len(requests') = Len(requests)
          /\ \A x \in 1 .. Len(requests) :
               requests'[x] = IF x = tab[t].at /\ requests[x].step = "answered"
                                THEN Over ELSE requests[x]
      <3>1. CASE Request_(t).step = "answered"
        <4>1. requests' = [requests EXCEPT ![tab[t].at] = Over]
          BY <1>2, <2>1, <3>1
        <4>2. /\ Len(requests') = Len(requests)
              /\ \A x \in 1 .. Len(requests) :
                   requests'[x] = IF x = tab[t].at THEN Over ELSE requests[x]
          BY <2>1, <4>1, OverSound, ExceptSeq
        <4> QED
          BY <3>1, <4>2 DEF Request_
      <3>2. CASE Request_(t).step # "answered"
        BY <1>2, <3>2 DEF Request_
      <3> QED
        BY <3>1, <3>2
    <2>3. IsHeard'
      <3>1. ASSUME NEW x \in 1 .. Len(requests),
                   requests'[x].step # "over", SessionOf(requests'[x].token) \notin lossy'
            PROVE  FALSE
        <4>1. CASE x = tab[t].at
          <5>1. requests'[x] = requests[x] /\ requests[x].step # "answered"
            BY <2>2, <3>1, <4>1 DEF Over
          <5>2. SessionOf(requests[x].token) \in Unheard(t)
            BY <2>1, <4>1, <5>1 DEF Unheard, Request_
          <5> QED
            BY <1>2, <3>1, <5>1, <5>2
        <4>2. CASE x # tab[t].at
          <5>1. requests'[x] = requests[x]
            BY <2>2, <4>2
          <5> QED
            BY <1>2, <1>6, <3>1, <4>2, <5>1 DEF Trail, IsHeard
        <4> QED
          BY <4>1, <4>2
      <3> QED
        BY <1>2, <2>2, <3>1 DEF IsHeard, SessionOf
    <2>4. \A u \in Tab : holder' # u
      BY <1>2, <1>6, TabFacts
    <2>5. Trail'
      BY <1>1, <1>2, <1>4, <1>6, <2>3, <2>4, TabTrail
    <2>6. ~Kept'
      <3>1. SUFFICES ASSUME Kept' PROVE FALSE
        OBVIOUS
      <3>2. Kept
        BY <1>2, <3>1, KeptEarlier
      <3>3. InFlight(t) /\ InStep(t) /\ SessionOf(Request_(t).token) = sessions
        BY <1>6, <3>2, FlightIsClean DEF Newest
      <3>4. sessions \in Unheard(t)
        BY <2>1, <3>3 DEF Unheard, InFlight, InStep
      <3> QED
        BY <1>2, <3>1, <3>4 DEF Kept
    <2> QED
      BY <2>5, <2>6 DEF Newest
  <1> QED
    BY <1>5, <1>6

LEMMA IgnoresBrowser ==
    ASSUME Ties, Ties', [Next]_vars, Trail, Newest, NEW t \in Tab, Ignores(t)
    PROVE  Trail' /\ Newest'
  <1>1. Excused(reused)'
    BY DEF Ignores, serverVars, history, Trail, Excused, Issued, SessionOf
  <1>2. FromLast' /\ IsHeard' /\ OnlyDeadIsDropped' /\ Newest'
    BY DEF Ignores, serverVars, history, Trail, FromLast, IsHeard, OnlyDeadIsDropped,
           Newest, Kept, Live, OfLast, SessionOf, InStep, InFlight, Request_
  <1> QED
    BY <1>1, <1>2 DEF Trail

(* A logout ends the session at the server, or makes it a lossy one. *)
LEMMA LogsOutBrowser ==
    ASSUME Ties, Ties', [Next]_vars, Trail, Newest, NEW t \in Tab,
           NEW heard \in BOOLEAN, LogsOut(t, heard)
    PROVE  Trail' /\ Newest'
  <1>1. PICK s : s = SessionOf(tab[t].token)
    OBVIOUS
  <1>2. s \in 1 .. sessions /\ s \in Session
    BY <1>1, LogsOutReturns
  <1>3. PICK m \in Memory :
                /\ tab' = [tab EXCEPT ![t] = m]
                /\ m.token = tab[t].token /\ m.known = tab[t].known
                /\ m.version = tab[t].version /\ m.step = tab[t].step
                /\ m.at = tab[t].at /\ m.moved = tab[t].moved /\ m.leaving
                /\ m.signing = tab[t].signing
    BY LogsOutReturns
  <1>4. /\ UNCHANGED <<rows, sessions, ended, requests, store, active, holder,
                       crossed, reused>>
        /\ tab[t].token # None
        /\ StartsRevoke(s) \/ lossy' = lossy \cup {s}
    BY <1>1 DEF LogsOut
  <1>5. Trail'
    BY <1>3, <1>4, QuietTrail
  <1>6. ~Kept'
    <2>1. SUFFICES ASSUME Kept' PROVE FALSE
      OBVIOUS
    <2>2. Kept
      BY <1>4, <2>1, KeptEarlier
    <2>3. OfLast(tab[t].token)
      BY <1>4 DEF Trail, FromLast
    <2>4. s = sessions
      BY <1>1, <2>2, <2>3 DEF OfLast, Kept
    <2>5. CASE StartsRevoke(s)
      <3>1. revoke \in [Session -> Revoke]
        BY DEF Ties, RevokesTied
      <3>2. revoke'[s].step # "no"
        BY <1>2, <2>5, <3>1 DEF StartsRevoke
      <3> QED
        BY <1>4, <2>1, <2>4, <3>2 DEF Kept, Live
    <2>6. CASE lossy' = lossy \cup {s}
      BY <1>4, <2>1, <2>4, <2>6 DEF Kept
    <2> QED
      BY <1>4, <2>5, <2>6
  <1> QED
    BY <1>5, <1>6 DEF Newest

LEMMA LeavesBrowser ==
    ASSUME Ties, Ties', [Next]_vars, Trail, Newest, NEW t \in Tab, Leaves(t)
    PROVE  Trail' /\ Newest'
  <1>1. \/ store' = None /\ active' = FALSE
        \/ store' = store /\ active' = active
    BY LeavesReturns
  <1>2. PICK m \in Memory :
          /\ tab' = [tab EXCEPT ![t] = m]
          /\ m.token = None /\ m.version = 0 /\ m.known \in {None, tab[t].known}
          /\ tab[t].step = "idle" => ~m.moved
          /\ tab[t].step # "idle" => m.moved
          /\ m.step = tab[t].step /\ m.at = tab[t].at
          /\ ~m.leaving /\ m.signing = tab[t].signing
    BY LeavesReturns
  <1>3. UNCHANGED <<rows, sessions, requests, holder, crossed, reused>> /\ tab[t].leaving
    BY DEF Leaves, serverVars, history
  <1>4. Trail'
    BY <1>1, <1>2, <1>3, QuietTrail
  <1>5. ~Kept'
    <2>1. SUFFICES ASSUME Kept' PROVE FALSE
      OBVIOUS
    <2>2. Kept
      BY <1>3, <2>1, KeptEarlier
    <2> QED
      BY <1>3, <2>2 DEF Newest, InStep
  <1> QED
    BY <1>4, <1>5 DEF Newest


LEMMA SetsActiveBrowser ==
    ASSUME Ties, Ties', [Next]_vars, Trail, Newest, NEW t \in Tab, SetsActive(t)
    PROVE  Trail' /\ Newest'
  <1>1. PICK m \in Memory :
             /\ tab' = [tab EXCEPT ![t] = m]
             /\ m.token = tab[t].token /\ m.known = store
             /\ store # None => m.version = store.version
             /\ m.step = tab[t].step /\ m.at = tab[t].at
             /\ tab[t].step = "idle" => ~m.moved
             /\ tab[t].step # "idle" => m.moved
             /\ m.leaving = tab[t].leaving /\ ~m.signing
    BY SetsActiveReturns
  <1>2. /\ UNCHANGED <<rows, sessions, requests, store, holder, crossed, reused>>
        /\ tab[t].signing /\ active'
    BY DEF SetsActive, WritesKey, serverVars, history
  <1>3. Trail'
    BY <1>1, <1>2, QuietTrail
  <1>4. ASSUME Kept' PROVE Newest'
    <2>1. Kept
      BY <1>2, <1>4, KeptEarlier
    <2>2. /\ \A u \in Tab : InStep(u)
          /\ store # None /\ SessionOf(store.token) = sessions
          /\ holder = None => rows[store.token].revoked = "no"
      BY <2>1 DEF Newest
    <2>3. /\ tab[t].step = "idle" /\ tab[t].token = store.token /\ ~tab[t].leaving
          /\ \A u \in Tab \ {t} : /\ tab[u].step = "idle"
                                  /\ tab[u].token = None
                                  /\ ~tab[u].signing
      BY <1>2, <2>2 DEF InStep
    <2>4. \A u \in Tab : tab'[u] = IF u = t THEN m ELSE tab[u]
      BY <1>1, TabFacts
    <2>5. \A u \in Tab : holder # u
      BY <2>3, TabFacts DEF TabSound
    <2>6. store.version \in Nat /\ m.version = store.version
      BY <1>1, <2>2, TabFacts DEF Stored
    <2>7. InStep(t)'
      BY <1>1, <1>2, <2>3, <2>4, <2>6 DEF InStep
    <2>8. ASSUME NEW u \in Tab, u # t PROVE InStep(u)'
      BY <2>2, <2>3, <2>4, <2>8 DEF InStep
    <2> QED
      BY <1>2, <2>2, <2>5, <2>7, <2>8 DEF Newest, SessionOf
  <1> QED
    BY <1>3, <1>4 DEF Newest

(* A sign-in finds every tab signed out and at rest, or crosses one. *)
LEMMA SignsInBrowser ==
    ASSUME Ties, Ties', [Next]_vars, Trail, Newest, NEW t \in Tab, SignsIn(t)
    PROVE  Trail' /\ Newest'
  <1> DEFINE crosses == \E u \in Tab : \/ tab[u].step # "idle" \/ tab[u].leaving
                                       \/ tab[u].token # None \/ tab[u].signing
  <1>0. PICK n : n = Len(rows) + 1
    OBVIOUS
  <1>1. /\ n \in Token /\ \A i \in Issued : rows'[i] = rows[i]
        /\ rows'[n].session = sessions + 1 /\ rows'[n].revoked = "no"
        /\ sessions' = sessions + 1
        /\ store' \in Stored /\ store'.token = n /\ active' = FALSE
    BY <1>0, SignsInReturns
  <1>2. PICK m \in Memory :
                /\ tab' = [tab EXCEPT ![t] = m]
                /\ m.token = n /\ m.version = 0 /\ m.known = tab[t].known
                /\ m.step = tab[t].step /\ m.at = tab[t].at
                /\ m.moved = tab[t].moved
                /\ m.leaving = tab[t].leaving /\ m.signing
    BY <1>0, SignsInReturns
  <1>3. /\ UNCHANGED <<requests, holder, lossy, reused>>
        /\ crossed' = IF crosses THEN crossed \cup {sessions, sessions + 1} ELSE crossed
        /\ store'.version = (IF store = None THEN 0 ELSE store.version) + 1
    BY DEF SignsIn
  <1>4. \A u \in Tab : tab'[u] = IF u = t THEN m ELSE tab[u]
    BY <1>2, TabFacts
  <1>5. \A u \in Tab : tab'[u].at = tab[u].at /\ Request_(u)' = Request_(u)
    BY <1>2, <1>3, <1>4 DEF Request_
  <1>6. \A i \in Issued : SessionOf(i)' = SessionOf(i)
    BY <1>1 DEF SessionOf
  <1>7. ASSUME NEW x \in 1 .. Len(requests), requests[x].step # "over"
        PROVE  requests[x].token \in Issued
    BY <1>7 DEF Ties, RequestsTied, RequestSound
  <1>8. ASSUME NEW u \in Tab, holder = u
        PROVE  /\ Request_(u).token \in Issued /\ tab[u].step # "idle"
               /\ SessionOf(Request_(u).token)' = SessionOf(Request_(u).token)
    <2>1. Request_(u).token \in Issued
      BY <1>7, <1>8, TabFacts DEF TabSound, Request_
    <2>2. tab[u].step # "idle"
      BY <1>8, TabFacts DEF TabSound
    <2>3. Request_(u)' = Request_(u)
      BY <1>5
    <2> QED
      BY <1>1, <2>1, <2>2, <2>3 DEF SessionOf
  <1>9. \A s : \/ s = sessions + 1
               \/ crosses /\ (s = sessions \/ {s, sessions} \subseteq crossed)
               => s = sessions' \/ {s, sessions'} \subseteq crossed'
    BY <1>1, <1>3
  <1>10. FromLast'
    <2>1. SessionOf(n)' = sessions + 1
      BY <1>1 DEF SessionOf
    <2>2. OfLast(store.token)'
      BY <1>1 DEF SessionOf, OfLast
    <2>3. ASSUME NEW u \in Tab, tab'[u].token # None PROVE OfLast(tab[u].token)'
      <3>1. CASE u = t
        BY <1>1, <1>2, <1>4, <3>1 DEF SessionOf, OfLast
      <3>2. CASE u # t
        <4>1. tab'[u] = tab[u] /\ tab[u].token # None /\ OfLast(tab[u].token)
          BY <1>4, <2>3, <3>2 DEF Trail, FromLast
        <4>2. tab[u].token \in Issued /\ crosses
          BY <4>1, TabFacts DEF TabSound
        <4>3. rows'[tab[u].token].session = rows[tab[u].token].session
          BY <1>1, <4>2
        <4>4. PICK s : s = rows[tab[u].token].session
          OBVIOUS
        <4>5. s = sessions \/ {s, sessions} \subseteq crossed
          BY <4>1, <4>4 DEF OfLast, SessionOf
        <4>6. s = sessions' \/ {s, sessions'} \subseteq crossed'
          BY <1>9, <4>2, <4>5
        <4> QED
          BY <4>1, <4>3, <4>4, <4>6 DEF OfLast, SessionOf
      <3> QED
        BY <3>1, <3>2
    <2>4. ASSUME NEW u \in Tab, holder = u PROVE OfLast(Request_(u).token)'
      <3>1. PICK s : s = SessionOf(Request_(u).token)
        OBVIOUS
      <3>2. crosses /\ SessionOf(Request_(u).token)' = s
        BY <1>8, <2>4, <3>1
      <3>3. s = sessions \/ {s, sessions} \subseteq crossed
        BY <2>4, <3>1 DEF Trail, FromLast, OfLast
      <3>4. s = sessions' \/ {s, sessions'} \subseteq crossed'
        BY <1>9, <3>2, <3>3
      <3> QED
        BY <3>2, <3>4 DEF OfLast
    <2> QED
      BY <1>3, <2>2, <2>3, <2>4 DEF FromLast
  <1>11. IsHeard'
    <2>1. ASSUME NEW x \in 1 .. Len(requests), requests[x].step # "over"
          PROVE  SessionOf(requests[x].token)' = SessionOf(requests[x].token)
      BY <1>1, <1>3, <1>7, <2>1 DEF SessionOf
    <2> QED
      BY <1>3, <1>5, <2>1 DEF IsHeard, Trail
  <1>12. OnlyDeadIsDropped'
    <2>1. ASSUME NEW u \in Tab, tab'[u].step = "dropping", ~tab'[u].moved,
                 SessionOf(Request_(u).token)' \in Live'
          PROVE  SessionOf(Request_(u).token)' \in lossy' \cup crossed'
      <3>1. tab[u].step = "dropping" /\ ~tab[u].moved
        BY <1>2, <1>4, <2>1
      <3>2. holder = u
        BY <3>1, TabFacts DEF TabSound
      <3>3. /\ SessionOf(Request_(u).token)' = SessionOf(Request_(u).token)
            /\ Request_(u).token \in Issued
        BY <1>8, <3>2
      <3>4. SessionOf(Request_(u).token) \in 1 .. sessions
        BY <3>3 DEF SessionOf, Ties, RowsTied
      <3>5. SessionOf(Request_(u).token) \in Live
        BY <2>1, <3>3, <3>4, LiveShrinks
      <3>6. SessionOf(Request_(u).token) \in lossy \cup crossed
        BY <3>1, <3>5 DEF Trail, OnlyDeadIsDropped
      <3> QED
        BY <3>3, <3>6, LiveShrinks
    <2> QED
      BY <2>1 DEF OnlyDeadIsDropped
  <1>13. Excused(reused)'
    <2>1. Grows
      BY <1>0, SignsInReturns
    <2>2. Issued \subseteq Issued'
      BY <2>1, TabFacts DEF Grows, RowsTied, Issued
    <2>3. crossed \subseteq crossed'
      BY <1>3
    <2> QED
      BY <1>3, <1>6, <2>2, <2>3 DEF Excused, Trail
  <1>14. ASSUME Kept' PROVE Newest'
    <2>1. ~crosses
      BY <1>1, <1>3, <1>14 DEF Kept
    <2>2. \A u \in Tab : /\ tab[u].step = "idle" /\ ~tab[u].leaving
                         /\ tab[u].token = None /\ ~tab[u].signing /\ ~tab[u].moved
                         /\ holder # u
      BY <2>1, TabFacts DEF TabSound
    <2>3. store'.version \in Nat /\ store'.version # 0
      BY <1>3, TabFacts DEF Stored
    <2>4. InStep(t)'
      BY <1>1, <1>2, <1>4, <2>2, <2>3 DEF InStep
    <2>5. ASSUME NEW u \in Tab, u # t PROVE InStep(u)'
      BY <1>4, <2>2, <2>5 DEF InStep
    <2>6. store' # None
      BY <1>1, RotationAssumption, TabFacts DEF Stored, Token
    <2>7. SessionOf(store.token)' = sessions' /\ rows'[store'.token].revoked = "no"
      BY <1>1 DEF SessionOf
    <2> QED
      BY <1>3, <2>2, <2>4, <2>5, <2>6, <2>7 DEF Newest
  <1> QED
    BY <1>10, <1>11, <1>12, <1>13, <1>14 DEF Trail, Newest


-----------------------------------------------------------------------------
(* The theorems.                                                            *)

LEMMA StepBrowser ==
    Ties /\ Trail /\ Newest /\ [Next]_vars => Trail' /\ Newest'
  <1> SUFFICES ASSUME Ties, Trail, Newest, [Next]_vars PROVE Trail' /\ Newest'
    OBVIOUS
  <1>1. Ties'
    BY StepTies
  <1>2. ASSUME NEW r \in DOMAIN requests,
               RefreshAsks(r) \/ RefreshDecides(r) \/ ReuseAnswered(r)
        PROVE  Trail' /\ Newest'
    BY <1>1, <1>2, RefreshAsksBrowser, RefreshDecidesBrowser, ReuseAnsweredBrowser
  <1>3. ASSUME NEW s \in Session, RevokeStarts(s) \/ RevokeEnds(s)
        PROVE  Trail' /\ Newest'
    BY <1>1, <1>3, RevokeStartsBrowser, RevokeEndsBrowser
  <1>4. ASSUME NEW i \in DOMAIN rows, GraceEnds(i)
        PROVE  Trail' /\ Newest'
    BY <1>1, <1>4, GraceEndsBrowser
  <1>5. ASSUME NEW t \in Tab,
               Refreshes(t) \/ Acquires(t) \/ IsRefused(t) \/ Drops(t) \/ Loses(t)
        PROVE  Trail' /\ Newest'
    BY <1>1, <1>5, RefreshesBrowser, AcquiresBrowser, IsRefusedBrowser, DropsBrowser,
       LosesBrowser
  <1>6. ASSUME NEW t \in Tab, NEW ok \in BOOLEAN, Rotated(t, ok) \/ LogsOut(t, ok)
        PROVE  Trail' /\ Newest'
    BY <1>1, <1>6, RotatedBrowser, LogsOutBrowser
  <1>7. ASSUME NEW t \in Tab,
               Reloads(t) \/ Ignores(t) \/ Leaves(t) \/ SignsIn(t) \/ SetsActive(t)
        PROVE  Trail' /\ Newest'
    BY <1>1, <1>7, ReloadsBrowser, IgnoresBrowser, LeavesBrowser, SignsInBrowser,
       SetsActiveBrowser
  <1>8. UNCHANGED vars => Trail' /\ Newest'
    <2> SUFFICES ASSUME UNCHANGED vars PROVE Trail' /\ Newest'
      OBVIOUS
    <2>1. Excused(reused)'
      BY DEF vars, serverVars, history, Trail, Excused, Issued, SessionOf
    <2>2. FromLast' /\ IsHeard' /\ OnlyDeadIsDropped' /\ Newest'
      BY DEF vars, serverVars, browserVars, history, Trail, FromLast, IsHeard,
             OnlyDeadIsDropped, Newest, Kept, Live, OfLast, SessionOf, InStep,
             InFlight, Request_
    <2> QED
      BY <2>1, <2>2 DEF Trail
  <1> QED
    BY <1>2, <1>3, <1>4, <1>5, <1>6, <1>7, <1>8 DEF Next

LEMMA Invariant == Spec => []IInv
  <1>1. Init => IInv
    BY InitTies, InitOneToken, InitBrowser DEF IInv
  <1>2. IInv /\ [Next]_vars => IInv'
    BY StepTies, StepOneToken, StepBrowser DEF IInv
  <1> QED
    BY <1>1, <1>2, PTL DEF Spec

LEMMA AtMostOne ==
    ASSUME NEW S, \A x, y \in S : x = y
    PROVE  Cardinality(S) <= 1 /\ (S # {} => Cardinality(S) = 1)
  <1>1. CASE S = {}
    BY <1>1, FS_EmptySet
  <1>2. CASE S # {}
    <2>1. PICK x : S = {x}
      BY <1>2
    <2> QED
      BY <2>1, FS_Singleton
  <1> QED
    BY <1>1, <1>2

(* `refresh` under its row lock, `revoke_session` by its two statements: a  *)
(* live session has exactly one live token, any session one at most.        *)
THEOREM OneTokenPerSession == Spec => []OneUsableToken
  <1>1. IInv => OneUsableToken
    <2> SUFFICES ASSUME IInv PROVE OneUsableToken
      OBVIOUS
    <2>1. \A s \in 1 .. sessions : \A i, j \in LiveTokens(s) : i = j
      BY DEF IInv, OneToken
    <2>2. \A s \in Live : LiveTokens(s) # {} /\ s \in 1 .. sessions
      BY DEF IInv, OneToken, Live
    <2> QED
      BY <2>1, <2>2, AtMostOne DEF OneUsableToken
  <1> QED
    BY <1>1, Invariant, PTL

(* A reuse that `refresh` takes for a theft is of a session whose pair or   *)
(* logout was lost, or of two sign-ins that crossed.                        *)
THEOREM NoFalseTheft == Spec => []ReuseMeansLostPair
  <1>1. IInv => ReuseMeansLostPair
    BY DEF IInv, Trail, Excused, ReuseMeansLostPair
  <1> QED
    BY <1>1, Invariant, PTL

(* `rotateOrAdopt` gives a session up only when it is over, or was lost.    *)
THEOREM NoLiveSessionIsDropped == Spec => []OnlyDeadIsDropped
  <1>1. IInv => OnlyDeadIsDropped
    BY DEF IInv, Trail
  <1> QED
    BY <1>1, Invariant, PTL

(* The storage keeps the pair of the last sign-in, through every rotation,  *)
(* refusal and reload of the tabs.                                          *)
THEOREM TheLastSignInStays == Spec => []SignInKept
  <1>1. IInv => SignInKept
    BY DEF IInv, Newest, Kept, SignInKept
  <1> QED
    BY <1>1, Invariant, PTL


===============================================================================
