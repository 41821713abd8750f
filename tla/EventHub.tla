------------------------------ MODULE EventHub ------------------------------
(***************************************************************************)
(* The hub of server-sent events (events/hub.rs) as the registry of remote *)
(* targets: the open streams with their bounded queues, the polled         *)
(* targets, and who is told that a user's targets changed: the user by the *)
(* hub itself, the household by a hook that runs later (remote/fanout.rs). *)
(*                                                                         *)
(* Every action but a registration runs under the hub's mutex once; what   *)
(* is done after the unlock only starts a task, whose delay covers the     *)
(* interleaving.  A frame is counted, not read, but for                    *)
(* remote.targets_changed; several announcements to one household that     *)
(* wait together are one.  The grants are constant, and the replay of      *)
(* downloads is some number of frames.                                     *)
(***************************************************************************)
EXTENDS Integers, Sequences, FiniteSets

CONSTANTS
    User, Target, None,
    Household,   \* the users told of each user's targets
    Session,
    Asked,       \* the streams that are asked for
    Device,      \* the polled targets there may be
    ConnQueueMax, PolledQueueMax,   \* CONN_QUEUE_MAX, POLLED_QUEUE_MAX
    MaxStreams, MaxOpening   \* bounds: streams ever, requests at once

ASSUME HubAssumption ==
    /\ Household \in [User -> SUBSET User]
    /\ \A u \in User : u \notin Household[u]
    /\ Asked \subseteq [user : User, session : Session \cup {None},
                      target : Target \cup {None}]
    /\ Device \subseteq User \X Target
    /\ {ConnQueueMax, PolledQueueMax, MaxStreams, MaxOpening} \subseteq Nat \ {0}
    /\ None \notin User \cup Target \cup Session

VARIABLES
    streams,   \* every stream, in the order of its registration
    polled,    \* the polled targets
    evicted,   \* owners of targets closed for a full queue, not yet announced
    down,      \* the shutdown: begun, then done
    opening,   \* requests for a stream past their authentication
    ended,     \* revoked sessions, and those whose streams were dropped
    emits,     \* users whose first registration is still to be announced
    fans,      \* owners whose household is still to be told
    commands,  \* commands between the resolution and the delivery
    behind,    \* history: <<stream, owner>> not told of the owner's targets,
               \* nor given up by a fan-out that failed
    unheard    \* history: streams left open that miss an accepted command

registry == <<streams, polled, evicted>>
vars == <<registry, down, opening, ended, emits, fans, commands, behind, unheard>>

Stream == [user : User, session : Session \cup {None},
           target : Target \cup {None}, registered : BOOLEAN, alive : BOOLEAN,
           queue : 0 .. ConnQueueMax, late : BOOLEAN]
Polled == [here : BOOLEAN, stale : BOOLEAN, queue : 0 .. PolledQueueMax]
Absent == [here |-> FALSE, stale |-> FALSE, queue |-> 0]

Init ==
    /\ streams = <<>> /\ polled = [d \in Device |-> Absent]
    /\ evicted = {} /\ down = "no" /\ opening = {}
    /\ ended = [revoked |-> {}, dropped |-> {}]
    /\ emits = {} /\ fans = {} /\ commands = {}
    /\ behind = {} /\ unheard = {}

-----------------------------------------------------------------------------
(* The registry under the lock.                                             *)

Registered(S) == {c \in DOMAIN S : S[c].registered}
OfUser(S, U) == {c \in Registered(S) : S[c].user \in U}
Targets(S, C) == {c \in C : S[c].target # None}

(* Removal from the map: the sender is dropped, so the stream ends after    *)
(* its queue, whether or not the end marker still fits.                     *)
Unregistered(s) ==
    [s EXCEPT !.registered = FALSE, !.queue = 0, !.session = None, !.late = FALSE]

(* `close_locked` announces a closed target to its owner's other streams:   *)
(* what c is told when the streams X are closed.                            *)
Announced(S, X, c) == Cardinality({x \in Targets(S, X \ {c}) : S[x].user = S[c].user})

(* The queue of c has room for what it is sent, and told.                   *)
Fits(S, X, sent, c) == S[c].queue + sent[c] + Announced(S, X, c) <= ConnQueueMax

(* `dispatch` and `close_locked` call each other: a stream that misses a    *)
(* frame is closed, which announces it, which may close another.  They end  *)
(* with the least set that has K and every stream that what is told of the  *)
(* set does not fit, whatever the map's order.                              *)
Settles(S, X, K, sent) ==
    K \subseteq X /\ \A c \in Registered(S) \ X : Fits(S, X, sent, c)

Closing(S, K, sent) ==
    {c \in Registered(S) :
        \A X \in SUBSET Registered(S) : c \in X \/ ~Settles(S, X, K, sent)}

(* Mutant: an owner's target closed for a full queue is not remembered.     *)
BugEvicts(S, gone, sent) == {}

(* The owners of the targets closed for a full queue.                       *)
Evicts(S, gone, sent) ==
    {S[c].user : c \in {d \in Targets(S, Registered(S)) : ~Fits(S, gone, sent, d)}}

(* The streams that show the list of u's targets to another user.           *)
Watching(S, u) == OfUser(S, Household[u])

(* What a critical section does to the streams S: it closes K, each stream  *)
(* c is sent sent[c] frames, the lists of `changed` change besides those    *)
(* of the targets closed, and `heard` reads the list in what it is sent.    *)
(* Whoever is told that the list changed reads it again; the household is   *)
(* not yet.                                                                 *)
Section(S, K, sent, changed, heard) ==
    LET gone == Closing(S, K, sent)
        left == Registered(S) \ gone
        stale == changed \cup {S[c].user : c \in Targets(S, gone)}
    IN [streams |-> [c \in DOMAIN S |->
                       IF c \in gone THEN [Unregistered(S[c]) EXCEPT !.alive = @ /\ c \in K]
                       ELSE IF c \in left
                         THEN [S[c] EXCEPT !.queue = @ + sent[c] + Announced(S, gone, c)]
                       ELSE S[c]],
        evicted |-> evicted \cup Evicts(S, gone, sent),
        behind |-> {p \in behind : p[1] \in left \ (heard \cup OfUser(S, stale))}
                     \cup UNION {(left \cap Watching(S, u)) \X {u} : u \in stale}]

(* Mutant: a frame that does not fit is dropped. *)
BugOnce(C) ==
    [c \in DOMAIN streams |->
        IF c \in C /\ streams[c].queue < ConnQueueMax THEN 1 ELSE 0]

(* One frame each. *)
Once(C) == [c \in DOMAIN streams |-> IF c \in C THEN 1 ELSE 0]

(* `dispatch` of one frame to C.                                            *)
Dispatch(C, heard) == Section(streams, {}, Once(C), {}, heard)

(* K is closed, then n[u] further changes of u's list are announced.        *)
CloseAll(S, K, n) ==
    Section(S, K, [c \in DOMAIN S |-> n[S[c].user]], {u \in User : n[u] > 0}, {})

(* The owners whose households a close of `C` announces.                    *)
Owners(C) == {streams[c].user : c \in Targets(streams, C)}

One(U) == [u \in User |-> IF u \in U THEN 1 ELSE 0]

(* The server ends the streams C.                                           *)
Dropped(C) ==
    [c \in DOMAIN streams |->
        IF c \in C THEN [streams[c] EXCEPT !.alive = FALSE] ELSE streams[c]]

Becomes(R) == streams' = R.streams /\ behind' = R.behind

(* A section whose end does not announce the evicted.                       *)
Leaves(R, owners) ==
    Becomes(R) /\ evicted' = R.evicted /\ fans' = fans \cup owners

(* `send`: a section that does, `announce_evicted`.                         *)
Sends(R, owners) ==
    Becomes(R) /\ evicted' = {} /\ fans' = fans \cup owners \cup R.evicted

-----------------------------------------------------------------------------
(* Streams.                                                                 *)

(* The extractor reads the session; the stream is registered later.         *)
Authenticates(i) ==
    /\ Cardinality(opening) < MaxOpening
    /\ Len(streams) + Cardinality(opening) < MaxStreams
    /\ i.session \notin ended.revoked
    /\ opening' = opening \cup {i}
    /\ UNCHANGED <<registry, down, ended, emits, fans, commands, behind, unheard>>

(* The streams a new one of the same target replaces: each is out of the    *)
(* map, and alive until its own teardown, which then finds nothing.         *)
Superseded(i) ==
    {c \in OfUser(streams, {i.user}) : i.target # None /\ streams[c].target = i.target}

Replaced(i) ==
    [c \in DOMAIN streams |->
        IF c \in Superseded(i) THEN Unregistered(streams[c]) ELSE streams[c]]

(* Mutant: a request is accepted while shutting down. *)
BugRefuses == FALSE

Refuses == down # "no"

(* `connect_session`, with `replayed` frames after sse.connected.  Its own  *)
(* announcement goes out before it is registered.                           *)
Connects(i, replayed) ==
    LET owner == IF i.target = None THEN {} ELSE {i.user}
        told == CloseAll(Replaced(i), {}, One(owner))
        new == [user |-> i.user, session |-> i.session, target |-> i.target,
                registered |-> ~Refuses, alive |-> ~Refuses,
                queue |-> IF Refuses THEN 0 ELSE 1 + replayed,
                late |-> i.session \in ended.dropped]
    IN /\ i \in opening /\ opening' = opening \ {i}
       /\ 1 + replayed <= ConnQueueMax
       /\ streams' = Append(told.streams, new) /\ behind' = told.behind
       /\ evicted' = told.evicted /\ fans' = fans \cup owner
       /\ UNCHANGED <<polled, down, ended, emits, commands, unheard>>

(* Mutant: the registry is asked by target, not by connection. *)
BugOwn(c) ==
    {d \in Registered(streams) :
        d = c \/ (streams[c].target # None /\ streams[d].user = streams[c].user
                    /\ streams[d].target = streams[c].target)}

(* A stream evicted or dropped is already gone and says nothing. *)
Own(c) == Registered(streams) \cap {c}

(* The client is gone: `Teardown` is dropped with the stream. *)
TearsDown(c) ==
    /\ streams[c].alive
    /\ Leaves(CloseAll([streams EXCEPT ![c].alive = FALSE], Own(c), One({})),
              Owners(Own(c)))
    /\ UNCHANGED <<polled, down, opening, ended, emits, commands, unheard>>

(* A frame goes out. *)
Reads(c) ==
    /\ streams[c].alive /\ streams[c].queue > 0
    /\ streams' = [streams EXCEPT ![c].queue = @ - 1]
    /\ UNCHANGED <<polled, evicted, down, opening, ended, emits, fans, commands,
                   behind, unheard>>

(* `emit`, `emit_raw`: any other event, to every stream or to one user's.   *)
Emits(U) ==
    /\ Sends(Dispatch(OfUser(streams, U), {}), {})
    /\ UNCHANGED <<polled, down, opening, ended, emits, commands, unheard>>

(* `emit_to_user` of a polled target's first registration.                  *)
Announces(u) ==
    /\ u \in emits /\ emits' = emits \ {u}
    /\ Sends(Dispatch(OfUser(streams, {u}), OfUser(streams, {u})), {u})
    /\ UNCHANGED <<polled, down, opening, ended, commands, unheard>>

(* The hook's task: `emit_to_users`, unless the household is empty.         *)
FansOut(u) ==
    /\ u \in fans
    /\ IF Household[u] = {} THEN fans' = fans \ {u} /\ UNCHANGED <<streams, evicted, behind>>
       ELSE LET R == Dispatch(Watching(streams, u), Watching(streams, u))
            IN /\ Becomes(R) /\ evicted' = {}
               /\ fans' = (fans \ {u}) \cup R.evicted
    /\ UNCHANGED <<polled, down, opening, ended, emits, commands, unheard>>

(* The database fails the task: `audience` returns the error, which is only *)
(* logged.  Nobody asks again, so the household is given up, unless a first *)
(* registration is still to tell it.                                        *)
FansOutFails(u) ==
    /\ u \in fans /\ fans' = fans \ {u}
    /\ behind' = {p \in behind : p[2] = u => u \in emits \/ streams[p[1]].user = u}
    /\ UNCHANGED <<registry, down, opening, ended, emits, commands, unheard>>

-----------------------------------------------------------------------------
(* Drops.                                                                   *)

(* Closes, then drops the polled targets `P` of `u`: announced if any is.   *)
(* With nothing to drop nothing changes.                                    *)
Drops(C, u, P) ==
    LET here == {d \in P : polled[d].here}
        owner == IF here = {} THEN {} ELSE {u}
    IN /\ C # {} \/ here # {}
       /\ polled' = [d \in Device |-> IF d \in here THEN Absent ELSE polled[d]]
       /\ Leaves(CloseAll(Dropped(C), C, One(owner)), Owners(C) \cup owner)
       /\ UNCHANGED <<down, opening, emits, commands, unheard>>

(* `drop_connections_for_user`. *)
DropsUser(u) == Drops(OfUser(streams, {u}), u, {d \in Device : d[1] = u}) /\ UNCHANGED ended

(* `drop_connections_for_target`: a logout of one device. *)
DropsTarget(u, t) ==
    Drops({c \in OfUser(streams, {u}) : streams[c].target = t}, u,
          Device \cap {<<u, t>>})
    /\ UNCHANGED ended

(* A session is revoked in the database. *)
Revokes(s) ==
    /\ s \notin ended.revoked
    /\ ended' = [ended EXCEPT !.revoked = @ \cup {s}]
    /\ UNCHANGED <<registry, down, opening, emits, fans, commands, behind, unheard>>

(* Mutant: only the streams that are targets. *)
BugOfSession(s) ==
    {c \in Registered(streams) : streams[c].session = s /\ streams[c].target # None}

OfSession(s) == {c \in Registered(streams) : streams[c].session = s}

(* Then its streams: `drop_connections_for_session`. *)
DropsSession(s) ==
    /\ s \in ended.revoked \ ended.dropped
    /\ ended' = [ended EXCEPT !.dropped = @ \cup {s}]
    /\ Leaves(CloseAll(Dropped(OfSession(s)), OfSession(s), One({})), Owners(OfSession(s)))
    /\ UNCHANGED <<polled, down, opening, emits, commands, unheard>>

(* `shutdown`: new streams are refused first, then the registry is drained  *)
(* without a word.                                                          *)
ShutsDown ==
    /\ down = "no" /\ down' = "begun"
    /\ UNCHANGED <<registry, opening, ended, emits, fans, commands, behind, unheard>>

Drains ==
    /\ down = "begun" /\ down' = "done"
    /\ streams' = [c \in DOMAIN streams |->
                     IF streams[c].registered THEN [Unregistered(streams[c]) EXCEPT !.alive = FALSE]
                     ELSE streams[c]]
    /\ behind' = {}
    /\ UNCHANGED <<polled, evicted, opening, ended, emits, fans, commands, unheard>>

-----------------------------------------------------------------------------
(* Polled targets and commands.                                             *)

(* `register_polled_target`: its queue outlives a registration.             *)
Registers(d) ==
    /\ polled' = [polled EXCEPT ![d].here = TRUE, ![d].stale = FALSE]
    /\ emits' = IF polled[d].here THEN emits ELSE emits \cup {d[1]}
    /\ behind' = IF polled[d].here THEN behind
                 ELSE behind \cup (OfUser(streams, {d[1]} \cup Household[d[1]]) \X {d[1]})
    /\ UNCHANGED <<streams, evicted, down, opening, ended, fans, commands, unheard>>

(* POLLED_TARGET_TTL passes without a poll. *)
StopsPolling(d) ==
    /\ polled[d].here /\ ~polled[d].stale
    /\ polled' = [polled EXCEPT ![d].stale = TRUE]
    /\ UNCHANGED <<streams, evicted, down, opening, ended, emits, fans, commands,
                   behind, unheard>>

(* `drain_commands`, which no longer looks at the time. *)
Polls(d) ==
    /\ polled[d].here
    /\ polled' = [polled EXCEPT ![d].stale = FALSE, ![d].queue = 0]
    /\ UNCHANGED <<streams, evicted, down, opening, ended, emits, fans, commands,
                   behind, unheard>>

(* `collect`: whoever lists, whichever account's targets, also removes      *)
(* every target that stopped polling.                                       *)
Collects ==
    LET expired == {d \in Device : polled[d].stale}
        changes == [u \in User |-> Cardinality({d \in expired : d[1] = u})]
    IN IF expired = {} THEN UNCHANGED <<registry, fans, behind>>
       ELSE /\ polled' = [d \in Device |-> IF d \in expired THEN Absent ELSE polled[d]]
            /\ Leaves(CloseAll(streams, {}, changes), {d[1] : d \in expired})

Lists ==
    /\ Collects
    /\ UNCHANGED <<down, opening, ended, emits, commands, unheard>>

(* `resolve_target`: the newest stream, or the polled target (which of the  *)
(* two is newer is left open); the grants are read before it is used.       *)
Resolves(u, t) ==
    LET found == {c \in OfUser(streams, {u}) : streams[c].target = t} IN
    /\ commands = {}
    /\ Collects
    /\ \/ \E c \in found : /\ \A d \in found : d <= c
                           /\ commands' = {[user |-> u, target |-> t, to |-> c]}
       \/ /\ <<u, t>> \in Device /\ polled'[<<u, t>>].here
          /\ commands' = {[user |-> u, target |-> t, to |-> 0]}
    /\ UNCHANGED <<down, opening, ended, emits, unheard>>

(* Mutant: one command too many. *)
BugHasRoom(p) == p.queue <= PolledQueueMax

HasRoom(p) == p.queue < PolledQueueMax

(* `emit_to_connection`.  The caller is told of a polled target that is     *)
(* gone or full and of a stream that is gone, but not of one that is full.  *)
Commands(k) ==
    LET d == <<k.user, k.target>> IN
    /\ k \in commands /\ commands' = {}
    /\ \/ /\ k.to = 0
          /\ polled' = IF polled[d].here /\ HasRoom(polled[d])
                         THEN [polled EXCEPT ![d].queue = @ + 1] ELSE polled
          /\ UNCHANGED <<streams, evicted, fans, behind, unheard>>
       \/ /\ k.to # 0 /\ k.to \notin Registered(streams)
          /\ UNCHANGED <<registry, fans, behind, unheard>>
       \/ /\ k.to \in Registered(streams)
          /\ Sends(Dispatch({k.to}, {}), {})
          /\ unheard' = IF streams[k.to].queue < ConnQueueMax THEN unheard
                        ELSE unheard \cup {c \in {k.to} : streams'[c].registered}
          /\ UNCHANGED polled
    /\ UNCHANGED <<down, opening, ended, emits>>

-----------------------------------------------------------------------------
Next ==
    \/ \E i \in Asked : \/ Authenticates(i)
                        \/ \E replayed \in 0 .. 1 : Connects(i, replayed)
    \/ \E c \in DOMAIN streams : TearsDown(c) \/ Reads(c)
    \/ \E U \in {User} \cup {{u} : u \in User} : Emits(U)
    \/ \E u \in User : \/ Announces(u) \/ FansOut(u) \/ FansOutFails(u) \/ DropsUser(u)
                       \/ \E t \in Target : DropsTarget(u, t) \/ Resolves(u, t)
    \/ \E d \in Device : Registers(d) \/ StopsPolling(d) \/ Polls(d)
    \/ \E s \in Session : Revokes(s) \/ DropsSession(s)
    \/ Lists \/ ShutsDown \/ Drains
    \/ \E k \in commands : Commands(k)

Spec == Init /\ [][Next]_vars

-----------------------------------------------------------------------------
(* Properties.                                                              *)

(* Every variable holds what its declaration says. *)
TypeOK ==
    /\ streams \in Seq(Stream) /\ Len(streams) <= MaxStreams
    /\ polled \in [Device -> Polled]
    /\ evicted \cup emits \cup fans \subseteq User
    /\ down \in {"no", "begun", "done"} /\ opening \subseteq Asked
    /\ ended \in [revoked : SUBSET Session, dropped : SUBSET Session]
    /\ commands \subseteq [user : User, target : Target, to : 0 .. MaxStreams]
    /\ behind \subseteq (DOMAIN streams) \X User /\ unheard \subseteq DOMAIN streams

(* Rules 15, 22, 28-32: whatever makes or ends a target, a stream that      *)
(* shows it either has the announcement queued since, or will by what is    *)
(* under way: also where the announcement finds queues full and so closes   *)
(* other targets.  Only a fan-out that fails leaves streams untold, those   *)
(* of the household and never the owner's, and only until the next change.  *)
EveryChangeIsTold ==
    \A p \in behind : p[2] \in emits \/ (p[2] \in fans /\ streams[p[1]].user # p[2])

(* Rule 22: the last stream of a device stays registered while it is read,  *)
(* unless it was ended itself: neither the teardown of the one it replaced  *)
(* nor an older request touches it, and there is no other.                  *)
NewestIsRegistered ==
    \A c \in DOMAIN streams :
        streams[c].target # None
            => LET same == {d \in DOMAIN streams :
                              /\ streams[d].user = streams[c].user
                              /\ streams[d].target = streams[c].target}
               IN IF \A d \in same : d <= c
                    THEN streams[c].alive => streams[c].registered
                    ELSE ~streams[c].registered

(* Rule 28a: once a session's streams are dropped, those left are of        *)
(* requests that were authenticated before.                                 *)
RevokedIsClosed ==
    \A c \in Registered(streams) : streams[c].session \in ended.dropped => streams[c].late

(* A shutdown leaves no stream open, those whose request it overlaps        *)
(* included.                                                                *)
ShutdownIsFinal == down = "done" => Registered(streams) = {}

(* A command that was accepted and not queued closed its stream, so that    *)
(* the device comes back and is listed anew.                                *)
UnheardIsClosed == unheard = {}

=============================================================================
