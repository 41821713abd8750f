---------------------------- MODULE TokenRotation ----------------------------
(***************************************************************************)
(* Refresh-token rotation of one account, between the tabs of one browser  *)
(* (auth.service.ts, session-store.service.ts) and the server's            *)
(* transactions (auth/db.rs).  A refresh consumes the token it presents    *)
(* and issues the next; a consumed token that comes back is answered       *)
(* "already rotated" within a grace, or while its successor was never      *)
(* used, and otherwise revokes the session.  The tabs share one stored     *)
(* token with a version, and one Web Lock around a refresh.                *)
(*                                                                         *)
(* The database runs at READ COMMITTED: a statement waits for a locked     *)
(* row, then sees its committed value, but every other row as it was when  *)
(* the statement began.  Times are left out but for the grace; a token's   *)
(* expiry, a disabled account and a change of account are not modelled.    *)
(***************************************************************************)
EXTENDS Integers, Sequences, FiniteSets

CONSTANTS
    Tab, None,
    MaxToken, MaxSession, MaxRequest,   \* bounds on what is ever made
    MaxFaults   \* bound on lost calls, refused writes and crossed sign-ins

ASSUME RotationAssumption ==
    /\ IsFiniteSet(Tab)
    /\ {MaxToken, MaxSession, MaxRequest} \subseteq Nat \ {0}
    /\ MaxFaults \in Nat
    /\ None \notin Nat \cup Tab
    /\ None \notin [token : Nat, version : Nat]

VARIABLES
    (* The server's database. *)
    rows,       \* refresh_tokens, in the order of their insertion
    sessions,   \* how many sessions there are
    ended,      \* sessions.revokedAt
    revoke,     \* the revocation of each session and the rows it saw
    requests,   \* POST /auth/refresh, each with its transaction
    (* The browser. *)
    store,      \* the stored session's token and version
    active,     \* the active-session key is stored
    notice,     \* tabs with an event that the key was removed
    holder,     \* the tab that holds the lock of a refresh
    tab,        \* the memory of each tab
    (* History. *)
    faults,     \* counts to the bound
    lossy,      \* sessions of a pair no storage received, or of a lost logout
    crossed,    \* sessions of a sign-in while a tab is still in the one before
    lost,       \* tokens issued in an answer that no tab heard
    late,       \* tokens issued once their session was revoked
    reused      \* tokens whose reuse revoked a live session

serverVars == <<rows, sessions, ended, revoke, requests>>
browserVars == <<store, active, notice, holder, tab>>
history == <<faults, lossy, crossed, lost, late, reused>>
vars == <<serverVars, browserVars, history>>

Token == 1 .. MaxToken
Session == 1 .. MaxSession
Row == [session : Session, parent : Token \cup {None}, used : BOOLEAN,
        revoked : {"no", "grace", "old"}]
Stored == [token : Token, version : Nat]
Revoke == [step : {"no", "started", "done"}, saw : SUBSET Token]
Request == [step : {"sent", "asking", "revoking", "answered", "over"},
            token : Token \cup {None}, dead : BOOLEAN, answer : Token \cup {None}]
Memory == [token : Token \cup {None}, version : Nat, key : BOOLEAN,
           known : Stored \cup {None},
           step : {"idle", "waiting", "sent", "dropping"},
           start : Nat, sent : Nat, at : 0 .. MaxRequest, target : BOOLEAN,
           moved : BOOLEAN, leaving : BOOLEAN, signing : BOOLEAN]

SessionOf(i) == rows[i].session
SignedOut == [token |-> None, version |-> 0, key |-> FALSE, known |-> None,
              step |-> "idle", start |-> 0, sent |-> 0, at |-> 0,
              target |-> FALSE, moved |-> FALSE, leaving |-> FALSE,
              signing |-> FALSE]

Init ==
    /\ rows = <<>> /\ sessions = 0 /\ ended = {}
    /\ revoke = [s \in Session |-> [step |-> "no", saw |-> {}]]
    /\ requests = <<>>
    /\ store = None /\ active = FALSE /\ notice = {} /\ holder = None
    /\ tab = [t \in Tab |-> SignedOut]
    /\ faults = 0
    /\ lossy = {} /\ crossed = {} /\ lost = {} /\ late = {} /\ reused = {}

-----------------------------------------------------------------------------
(* The server.                                                              *)

RefreshLocks == {requests[r].token : r \in {q \in DOMAIN requests :
                                            requests[q].step = "revoking"}}
(* `refresh` begins: its SELECT sees the session as it is now. *)
RefreshAsks(r) ==
    /\ requests[r].step = "sent"
    /\ requests' = [requests EXCEPT
                      ![r].step = "asking",
                      ![r].dead = SessionOf(requests[r].token) \in ended]
    /\ UNCHANGED <<rows, sessions, ended, revoke, browserVars, history>>

Live == {s \in 1 .. sessions : s \notin ended /\ revoke[s].step = "no"}
Successors(i) == {j \in DOMAIN rows : rows[j].parent = i}

(* Mutant: the successor is not looked at. *)
BugLostPair(i) == rows[i].revoked = "grace"

(* The token was rotated, but its answer may not have arrived yet, or ever. *)
LostPair(i) ==
    \/ rows[i].revoked = "grace"
    \/ rows[i].revoked = "old" /\ \E j \in Successors(i) : ~rows[j].used

Over == [step |-> "over", token |-> None, dead |-> FALSE, answer |-> None]
Heard(r) == \E t \in Tab : tab[t].step = "sent" /\ tab[t].at = r

Answer(r, i) ==
    requests' = [requests EXCEPT ![r] =
        IF Heard(r) THEN [@ EXCEPT !.step = "answered", !.answer = i] ELSE Over]

(* The snapshot of an UPDATE: the live tokens of the session. *)
LiveTokens(s) == {i \in DOMAIN rows : SessionOf(i) = s /\ rows[i].revoked = "no"}

StartsRevoke(s) ==
    revoke' = [revoke EXCEPT ![s] =
                 IF @.step # "no" THEN @
                 ELSE [step |-> "started", saw |-> LiveTokens(s)]]

(* What becomes of the token that r is issued, beside the answer. *)
Issues(r) ==
    LET n == Len(rows) + 1
    IN /\ Answer(r, n)
       /\ lost' = IF Heard(r) THEN lost ELSE lost \cup {n}
       /\ late' = IF SessionOf(requests[r].token) \in ended THEN late \cup {n} ELSE late

(* Mutant: the presented token is not consumed. *)
BugRotate(r) ==
    LET i == requests[r].token
    IN /\ rows[i].revoked = "no" /\ Len(rows) < MaxToken
       /\ rows' = Append([rows EXCEPT ![i].used = TRUE],
                         [session |-> SessionOf(i), parent |-> i,
                          used |-> FALSE, revoked |-> "no"])
       /\ Issues(r)
       /\ UNCHANGED revoke

(* The live token is consumed and the next one of its session issued. *)
Rotate(r) ==
    LET i == requests[r].token
    IN /\ rows[i].revoked = "no" /\ Len(rows) < MaxToken
       /\ rows' = Append([rows EXCEPT ![i].revoked = "grace", ![i].used = TRUE],
                         [session |-> SessionOf(i), parent |-> i,
                          used |-> FALSE, revoked |-> "no"])
       /\ Issues(r)
       /\ UNCHANGED revoke

(* Mutant: a refresh does not look at its session. *)
BugRefused(r) == LostPair(requests[r].token)

(* "Invalid refresh token", "already rotated". *)
Refused(r) == requests[r].dead \/ LostPair(requests[r].token)

(* FOR UPDATE, once no other transaction holds the row, and the rest of     *)
(* `refresh`: up to its commit, or to the revocation it waits for.          *)
RefreshDecides(r) ==
    /\ requests[r].step = "asking"
    /\ requests[r].token \notin RefreshLocks
    /\ LET i == requests[r].token IN
         \/ /\ Refused(r) /\ Answer(r, None)
            /\ UNCHANGED <<rows, revoke, lost, late, reused>>
         \/ /\ ~Refused(r) /\ Rotate(r) /\ UNCHANGED reused
         \/ /\ ~Refused(r) /\ rows[i].revoked # "no"
            /\ StartsRevoke(SessionOf(i))
            /\ requests' = [requests EXCEPT ![r].step = "revoking"]
            /\ reused' = IF SessionOf(i) \in Live THEN reused \cup {i} ELSE reused
            /\ UNCHANGED <<rows, lost, late>>
    /\ UNCHANGED <<sessions, ended, browserVars, faults, lossy, crossed>>

(* A reuse: answered once its session is revoked. *)
ReuseAnswered(r) ==
    /\ requests[r].step = "revoking"
    /\ revoke[SessionOf(requests[r].token)].step = "done"
    /\ Answer(r, None)
    /\ UNCHANGED <<rows, sessions, ended, revoke, browserVars, history>>

(* The last session is only revoked for a reuse: a bound. *)
Revocable(s) == s <= sessions /\ s < MaxSession

(* `revoke_session`, `revoke_user_session`: by a logout, or from another    *)
(* device.                                                                  *)
RevokeStarts(s) ==
    /\ Revocable(s) /\ revoke[s].step = "no"
    /\ StartsRevoke(s)
    /\ UNCHANGED <<rows, sessions, ended, requests, browserVars, history>>

(* The tokens it saw, those still live, then the session: it waits for a    *)
(* refresh that holds one of them.                                          *)
RevokeEnds(s) ==
    /\ revoke[s].step = "started" /\ revoke[s].saw \cap RefreshLocks = {}
    /\ revoke' = [revoke EXCEPT ![s] = [step |-> "done", saw |-> {}]]
    /\ rows' = [i \in DOMAIN rows |->
                  IF i \in revoke[s].saw /\ rows[i].revoked = "no"
                    THEN [rows[i] EXCEPT !.revoked = "grace"] ELSE rows[i]]
    /\ ended' = ended \cup {s}
    /\ UNCHANGED <<sessions, requests, browserVars, history>>

(* REUSE_GRACE_MS is over for a consumed token; a revocation takes less.    *)
GraceEnds(i) ==
    /\ rows[i].revoked = "grace" /\ SessionOf(i) \in Live
    /\ rows' = [rows EXCEPT ![i].revoked = "old"]
    /\ UNCHANGED <<sessions, ended, revoke, requests, browserVars, history>>

-----------------------------------------------------------------------------
(* A tab.                                                                   *)

(* The key is written with every write of the store; the other tabs hear of *)
(* its removal.                                                             *)
WritesKey(t, key) ==
    /\ active' = key
    /\ notice' = IF active /\ ~key
                    THEN notice \cup {u \in Tab \ {t} : tab[u] # SignedOut}
                    ELSE notice

(* `load`: what a tab reads back. *)
Loaded(m) == [m EXCEPT !.known = IF active THEN store ELSE None,
                       !.key = active /\ store # None]
Active(m) == IF m.key THEN m.known ELSE None

(* The refresh is over. *)
Rest(m) == [m EXCEPT !.step = "idle", !.start = 0, !.sent = 0, !.at = 0,
                     !.target = FALSE, !.moved = FALSE]

(* `refreshAccessToken`, single-flight: it queues for the lock. *)
Refreshes(t) ==
    /\ tab[t].step = "idle" /\ ~tab[t].signing /\ tab[t].token # None
    /\ tab' = [tab EXCEPT ![t].step = "waiting", ![t].start = tab[t].version,
                          ![t].moved = FALSE]
    /\ UNCHANGED <<serverVars, store, active, notice, holder, history>>

(* Another tab rotated while this one waited. *)
Newer(m) == m.key /\ m.known.version > m.start

(* Mutant: the tab keeps its token. *)
BugAdopt(m) == [Rest(m) EXCEPT !.version = m.known.version]

Adopt(m) == [Rest(m) EXCEPT !.token = m.known.token,
                            !.version = m.known.version]

(* `rotateOrAdopt`, under the lock. *)
Acquires(t) ==
    LET m == Loaded(tab[t])
        newest == m.key /\ m.known.version > m.version
        token == IF newest \/ (m.key /\ m.token = None) THEN m.known.token
                                                        ELSE m.token
    IN /\ tab[t].step = "waiting" /\ holder = None
       /\ \/ /\ Newer(m)
             /\ tab' = [tab EXCEPT ![t] = Adopt(m)]
             /\ UNCHANGED <<holder, requests>>
          \/ /\ ~Newer(m) /\ token = None
             /\ tab' = [tab EXCEPT ![t] = Rest(m)]
             /\ UNCHANGED <<holder, requests>>
          \/ /\ ~Newer(m) /\ token # None /\ Len(requests) < MaxRequest
             /\ holder' = t
             /\ requests' = Append(requests,
                   [step |-> "sent", token |-> token, dead |-> FALSE,
                    answer |-> None])
             /\ tab' = [tab EXCEPT ![t] =
                   [m EXCEPT !.step = "sent", !.start = 0, !.at = Len(requests) + 1,
                             !.sent = IF newest THEN m.known.version
                                                ELSE m.version,
                             !.target = Active(m) # None, !.moved = FALSE]]
       /\ UNCHANGED <<rows, sessions, ended, revoke, store, active, notice, history>>

Request_(t) == requests[tab[t].at]
Closes(t) == /\ holder' = None
             /\ requests' = [requests EXCEPT ![tab[t].at] = Over]

(* Mutant: the pair is stored without counting the rotation. *)
BugUpdated(n) == IF store = None THEN None ELSE [store EXCEPT !.token = n]

(* `updateTokens`: the pair replaces the one stored, if one is. *)
Updated(n) == IF store = None THEN None
              ELSE [token |-> n, version |-> store.version + 1]

(* A pair arrives: stored first, unless storage refuses it, then used if    *)
(* the tab is still in the session that asked.                              *)
Rotated(t, saved) ==
    LET m == tab[t]
        n == Request_(t).answer
        s == SessionOf(Request_(t).token)
        kept == [Rest(m) EXCEPT !.known = IF m.target THEN Updated(n) ELSE @]
    IN /\ m.step = "sent" /\ Request_(t).step = "answered" /\ n # None
       /\ Closes(t)
       /\ IF m.target
            THEN /\ store' = IF saved THEN Updated(n) ELSE store
                 /\ WritesKey(t, m.key)
            ELSE UNCHANGED <<store, active, notice>>
       /\ tab' = [tab EXCEPT ![t] =
             IF m.moved THEN kept
             ELSE [kept EXCEPT !.token = n,
                               !.version = IF Active(kept) # None
                                             THEN kept.known.version
                                             ELSE m.version + 1]]
       /\ saved \/ (faults < MaxFaults /\ m.target)
       /\ faults' = IF saved THEN faults ELSE faults + 1
       /\ lossy' = IF saved /\ m.target /\ store # None THEN lossy
                   ELSE lossy \cup {s}
       /\ UNCHANGED <<rows, sessions, ended, revoke, crossed, lost, late, reused>>

(* `remove`, and what it leaves in memory. *)
Removes(t) == /\ store' = None /\ WritesKey(t, FALSE)

(* Mutant: the version goes with the token. *)
BugCleared(m) == [m EXCEPT !.token = None, !.version = None,
                           !.moved = m.step # "idle"]

(* `clearInMemorySession`. *)
Cleared(m) == [m EXCEPT !.token = None, !.version = 0,
                        !.moved = m.step # "idle"]

(* Another tab stored a newer pair than the one refused. *)
Stale(m) == m.key /\ m.known.version > m.sent

(* The server refuses: a newer pair is adopted, else the session goes.      *)
IsRefused(t) ==
    LET m == Loaded(tab[t]) IN
    /\ tab[t].step = "sent"
    /\ Request_(t).step = "answered" /\ Request_(t).answer = None
    /\ \/ /\ tab[t].moved
          /\ Closes(t)
          /\ IF tab[t].target
               THEN /\ Removes(t)
                    /\ tab' = [tab EXCEPT ![t] =
                          [Rest(@) EXCEPT !.known = None, !.key = FALSE]]
               ELSE /\ tab' = [tab EXCEPT ![t] = Rest(@)]
                    /\ UNCHANGED <<store, active, notice>>
       \/ /\ ~tab[t].moved /\ Stale(m)
          /\ Closes(t)
          /\ tab' = [tab EXCEPT ![t] = Adopt(m)]
          /\ UNCHANGED <<store, active, notice>>
       \/ /\ ~tab[t].moved /\ ~Stale(m)
          /\ tab' = [tab EXCEPT ![t] = [m EXCEPT !.step = "dropping"]]
          /\ UNCHANGED <<store, active, notice, holder, requests>>
    /\ UNCHANGED <<rows, sessions, ended, revoke, history>>

(* `dropActiveSession`. *)
Dropped(t, m) ==
    IF Active(m) # None
      THEN /\ Removes(t)
           /\ tab' = [tab EXCEPT ![t] =
                        Cleared([m EXCEPT !.known = None, !.key = FALSE])]
      ELSE /\ tab' = [tab EXCEPT ![t] = Cleared(m)]
           /\ UNCHANGED <<store, active, notice>>

Drops(t) ==
    /\ tab[t].step = "dropping"
    /\ Closes(t)
    /\ Dropped(t, Rest(tab[t]))
    /\ UNCHANGED <<rows, sessions, ended, revoke, history>>

(* The sessions whose pair is lost when a request is no longer heard. *)
Unheard(t) ==
    IF tab[t].step = "sent" /\ ~(Request_(t).step = "answered"
                                    /\ Request_(t).answer = None)
      THEN {SessionOf(Request_(t).token)} ELSE {}

(* The token of an answer that is no longer heard. *)
UnheardToken(t) ==
    IF tab[t].step = "sent" /\ Request_(t).step = "answered"
      THEN {Request_(t).answer} \ {None} ELSE {}

(* Status 0 or 5xx, before the server saw the request or after it answered: *)
(* the tokens are kept.                                                     *)
Loses(t) ==
    /\ tab[t].step = "sent" /\ faults < MaxFaults
    /\ faults' = faults + 1
    /\ lossy' = lossy \cup Unheard(t) /\ lost' = lost \cup UnheardToken(t)
    /\ tab' = [tab EXCEPT ![t] = Rest(@)]
    /\ holder' = None
    /\ requests' = [requests EXCEPT ![tab[t].at] =
                      IF @.step \in {"sent", "answered"} THEN Over ELSE @]
    /\ UNCHANGED <<rows, sessions, ended, revoke, store, active, notice,
                   crossed, late, reused>>

(* The page is opened or loaded again: by hand, or as the key was removed   *)
(* by another tab while this one is signed in.                              *)
Reloads(t) ==
    /\ LET m == Loaded(SignedOut) IN
       tab' = [tab EXCEPT ![t] =
                 IF Active(m) = None THEN m
                 ELSE [m EXCEPT !.token = store.token, !.version = store.version]]
    /\ notice' = notice \ {t}
    /\ holder' = IF holder = t THEN None ELSE holder
    /\ lossy' = lossy \cup Unheard(t) /\ lost' = lost \cup UnheardToken(t)
    /\ Unheard(t) # {} => faults < MaxFaults
    /\ faults' = IF Unheard(t) # {} THEN faults + 1 ELSE faults
    /\ requests' = IF tab[t].at # 0 /\ Request_(t).step = "answered"
                      THEN [requests EXCEPT ![tab[t].at] = Over] ELSE requests
    /\ UNCHANGED <<rows, sessions, ended, revoke, store, active, crossed, late, reused>>

(* An event that finds the tab signed out. *)
Ignores(t) ==
    /\ t \in notice /\ tab[t].token = None
    /\ notice' = notice \ {t}
    /\ UNCHANGED <<serverVars, store, active, holder, tab, history>>

(* `logout`: the session of the token is revoked, unless the call is lost. *)
LogsOut(t, heard) ==
    LET s == SessionOf(tab[t].token) IN
    /\ tab[t].token # None /\ ~tab[t].leaving /\ ~tab[t].signing
    /\ \/ /\ heard /\ Revocable(s) /\ StartsRevoke(s)
          /\ UNCHANGED <<faults, lossy>>
       \/ /\ ~heard /\ faults < MaxFaults /\ faults' = faults + 1
          /\ lossy' = lossy \cup {s}
          /\ UNCHANGED revoke
    /\ tab' = [tab EXCEPT ![t].leaving = TRUE]
    /\ UNCHANGED <<rows, sessions, ended, requests, store, active, notice,
                   holder, crossed, lost, late, reused>>

(* Then, whatever became of the call, the tab forgets it. *)
Leaves(t) ==
    /\ tab[t].leaving
    /\ Dropped(t, [tab[t] EXCEPT !.leaving = FALSE])
    /\ UNCHANGED <<serverVars, holder, history>>

(* `login`, then `save`: the other tabs may not know of the logout yet, or  *)
(* still wait for an answer.                                                *)
SignsIn(t) ==
    LET crosses == \E u \in Tab : \/ tab[u].step # "idle" \/ tab[u].leaving
                                   \/ tab[u].token # None \/ tab[u].signing
    IN
    /\ tab[t].token = None /\ ~tab[t].key /\ ~tab[t].signing /\ ~tab[t].leaving
    /\ sessions < MaxSession /\ Len(rows) < MaxToken
    /\ sessions' = sessions + 1
    /\ rows' = Append(rows, [session |-> sessions + 1, parent |-> None,
                             used |-> FALSE, revoked |-> "no"])
    /\ store' = [token |-> Len(rows) + 1,
                 version |-> (IF store = None THEN 0 ELSE store.version) + 1]
    /\ tab' = [tab EXCEPT ![t].token = Len(rows) + 1, ![t].version = 0,
                          ![t].signing = TRUE]
    /\ WritesKey(t, FALSE)
    /\ IF crosses
         THEN /\ faults < MaxFaults /\ faults' = faults + 1
              /\ crossed' = crossed \cup {sessions, sessions + 1}
         ELSE UNCHANGED <<faults, crossed>>
    /\ UNCHANGED <<ended, revoke, requests, holder, lossy, lost, late, reused>>

(* `setActive`, and the version of what is stored. *)
SetsActive(t) ==
    /\ tab[t].signing
    /\ WritesKey(t, TRUE)
    /\ tab' = [tab EXCEPT ![t].key = TRUE, ![t].known = store,
                          ![t].version = IF store = None THEN 0
                                                         ELSE store.version,
                          ![t].signing = FALSE,
                          ![t].moved = tab[t].step # "idle"]
    /\ UNCHANGED <<serverVars, store, holder, history>>

Next ==
    \/ \E r \in DOMAIN requests : \/ RefreshAsks(r) \/ RefreshDecides(r)
                                  \/ ReuseAnswered(r)
    \/ \E s \in Session : RevokeStarts(s) \/ RevokeEnds(s)
    \/ \E i \in DOMAIN rows : GraceEnds(i)
    \/ \E t \in Tab : \/ Refreshes(t) \/ Acquires(t) \/ IsRefused(t) \/ Drops(t)
                      \/ \E ok \in BOOLEAN : Rotated(t, ok) \/ LogsOut(t, ok)
                      \/ Loses(t) \/ Reloads(t) \/ Ignores(t)
                      \/ Leaves(t) \/ SignsIn(t) \/ SetsActive(t)

Spec == Init /\ [][Next]_vars

-----------------------------------------------------------------------------
(* Properties.                                                              *)

(* Every variable holds what its declaration says.                          *)
TypeOK ==
    /\ rows \in Seq(Row) /\ sessions \in 0 .. MaxSession
    /\ ended \cup lossy \cup crossed \subseteq Session
    /\ lost \cup late \cup reused \subseteq DOMAIN rows
    /\ revoke \in [Session -> Revoke]
    /\ requests \in Seq(Request)
    /\ store \in Stored \cup {None} /\ active \in BOOLEAN
    /\ notice \subseteq Tab /\ holder \in Tab \cup {None}
    /\ tab \in [Tab -> Memory]

(* Rules 34 and 35: however the tabs' requests, reloads and lost answers    *)
(* interleave, the server takes a reuse for a theft only in a session where *)
(* a pair never reached the storage, or its logout the server, or where two *)
(* tabs signed in across each other.                                        *)
ReuseMeansLostPair == \A i \in reused : SessionOf(i) \in lossy \cup crossed

(* Rule 34: a token whose rotation was never heard of is no theft, whoever  *)
(* of the tabs presents it again, and however late.                         *)
LostAnswerIsForgiven == \A j \in lost : rows[j].parent \notin reused

(* Rule 35: a session has one live token however many requests present its  *)
(* tokens at once, and a refresh that races its revocation leaves one at    *)
(* most.                                                                    *)
OneUsableToken ==
    /\ \A s \in Live : Cardinality(LiveTokens(s)) = 1
    /\ \A s \in 1 .. sessions : Cardinality(LiveTokens(s)) <= 1

(* Rules 34, 36, 66: a refresh that the server had begun may still issue a  *)
(* token of a session that was revoked meanwhile, but only one, and nobody  *)
(* can rotate it.                                                           *)
LateTokenIsLast ==
    \A i \in late : /\ ~rows[i].used
                    /\ \A j \in late : SessionOf(i) = SessionOf(j) => i = j

(* A tab gives up a session that is alive only where a pair was lost: a     *)
(* refusal of a token that another tab rotated is never the end.            *)
OnlyDeadIsDropped ==
    \A t \in Tab : tab[t].step = "dropping" /\ ~tab[t].moved
        => SessionOf(Request_(t).token) \notin Live \ (lossy \cup crossed)

(* The last sign-in stays stored until it is revoked, but for a lost pair   *)
(* or a sign-in that crossed a tab of the session before.                   *)
SignInKept ==
    sessions \in Live \ (lossy \cup crossed)
        => store # None /\ SessionOf(store.token) = sessions

=============================================================================
