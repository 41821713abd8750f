------------------------------ MODULE LiveTuners ------------------------------
(***************************************************************************)
(* The host's registry of live TV sessions (livetv/session.rs and          *)
(* session/events.rs): the viewers it knows, the holds it counts against   *)
(* each source's connection limit, and the closed connections it still     *)
(* counts for a grace.  The streaming engine runs the sessions and is      *)
(* external: it joins a running session of the channel or opens an         *)
(* upstream, fails over by itself, ends what is idle, and tells the host   *)
(* by a feed of events that one task follows in order.  A feed that breaks *)
(* loses its events and is followed by a resync from the engine's list.    *)
(*                                                                         *)
(* An open is named by the capacity token it mints; its viewer session has *)
(* the same name.  All opens are by one user.  A channel has at most one   *)
(* stream of each source, in a fixed order.                                *)
(***************************************************************************)
EXTENDS Integers, Sequences, FiniteSets, SequencesExt

CONSTANTS
    Open,           \* opens, the tokens they mint and the viewers they become
    Channel, Source,
    Streams,        \* the sources of each channel, in the order of the streams
    MaxStreams,     \* the connections a source allows; 0: no limit
    Limits,         \* livetv_max_viewers_per_user; 0: no limit
    None,
    MaxBreaks,      \* bound on the feed's breaks and the engine's restarts
    MaxFailovers    \* bound on the failovers

ASSUME TunerAssumption ==
    /\ IsFiniteSet(Open) /\ IsFiniteSet(Source)
    /\ Streams \in [Channel -> Seq(Source) \ {<<>>}]
    /\ MaxStreams \in [Source -> Nat]
    /\ Limits \subseteq Nat /\ MaxBreaks \in Nat /\ MaxFailovers \in Nat
    /\ None \notin Open \cup Source

VARIABLES
    limit,      \* the user's cap
    (* The host. *)
    request,    \* each open's request: how far it got, and its vetoes
    hold,       \* Inner.holds
    viewer,     \* Inner.viewers: the token of each viewer
    closing,    \* Inner.releases: closed connections within the grace
    resync,     \* the resync under way and what it listed
    lookup,     \* viewers a data-plane request looked up in the engine
    (* The engine. *)
    upstream,   \* the source that feeds each session, and its channel
    watching,   \* the session of each viewer
    feed,       \* events on their way to the host
    breaks, failovers,
    (* History. *)
    left,       \* opens whose request was cut short
    strayed,    \* sessions that run on a source where they had no hold
    uncounted,  \* those of them that have no hold at all
    forgotten,  \* viewers that ran when the host restarted
    mislaid,    \* sessions whose move to a source the host was never told
    ghosts,     \* viewers that the host entered after it was told of their end
    stuck       \* holds that it kept after it was told of their end

hostVars == <<request, hold, viewer, closing, resync, lookup>>
engineVars == <<upstream, watching, feed, breaks, failovers>>
history == <<left, strayed, uncounted, forgotten, mislaid, ghosts, stuck>>
vars == <<limit, hostVars, engineVars, history>>

Request == [step: {"new", "sent", "cancelled", "fed", "refused", "dead", "done"},
            channel: Channel \cup {None}, vetoed: SUBSET Source,
            token: Open \cup {None}]
Hold == [source: Source, fed: Source \cup {None}, pending: BOOLEAN]
Upstream == [source: Source, channel: Channel]
Event == [kind: {"ok", "error"}, of: Open, source: Source]
            \cup [kind: {"released", "ended"}, of: Open]
            \cup [kind: {"resync"}]

(* Nothing is no hold and no upstream. *)
ASSUME NoneAssumption == None \notin Hold /\ None \notin Upstream

NoList == [step |-> "idle", upstream |-> [t \in Open |-> None],
           watching |-> [v \in Open |-> None], known |-> {}]

Live == {t \in Open : upstream[t] # None}
Watched == {v \in Open : watching[v] # None}
Held == {t \in Open : hold[t] # None}
Known == {v \in Open : viewer[v] # None}

Init ==
    /\ limit \in Limits
    /\ request = [o \in Open |-> [step |-> "new", channel |-> None,
                                  vetoed |-> {}, token |-> None]]
    /\ hold = [t \in Open |-> None] /\ viewer = [v \in Open |-> None]
    /\ closing = [s \in Source |-> 0]
    /\ resync = NoList /\ lookup = {}
    /\ upstream = [t \in Open |-> None] /\ watching = [v \in Open |-> None]
    /\ feed = <<>> /\ breaks = 0 /\ failovers = 0
    /\ left = {} /\ strayed = {} /\ uncounted = {} /\ mislaid = {}
    /\ forgotten = {} /\ ghosts = {} /\ stuck = {}

-----------------------------------------------------------------------------
(* The host opens a channel.                                                *)

(* Mutant: a hold counts once the engine has answered. *)
BugHoldsOn(s) == {t \in Held : hold[t].source = s /\ ~hold[t].pending}

HoldsOn(s) == {t \in Held : hold[t].source = s}

(* `verdict`: the source is at its limit, with n closed connections. *)
Full(s, n) == /\ MaxStreams[s] # 0
              /\ Cardinality(HoldsOn(s)) + n >= MaxStreams[s]

(* Mutant: an open that waits for the engine is not counted yet. *)
BugTaken == Known

(* The viewers of the user and the opens of theirs that are pending. *)
Taken == Known \cup {t \in Held : hold[t].pending}

(* `prune`, when a verdict asks: what is past its grace is forgotten.       *)
Pruned(ss) == {n \in [Source -> UNION {0 .. closing[s] : s \in Source}] :
                  /\ \A s \in Source : n[s] <= closing[s]
                  /\ \A s \in Source \ ss : n[s] = closing[s]}

(* The streams of c whose source is not vetoed, and the first of the        *)
(* streams, such a one if there is one.                                     *)
Free(c, vetoed) == {i \in DOMAIN Streams[c] : Streams[c][i] \notin vetoed}

First(c, vetoed, i) ==
    IF Free(c, vetoed) = {} THEN i = 1
    ELSE i \in Free(c, vetoed) /\ \A j \in Free(c, vetoed) : i <= j

(* `open`: the cap, the verdict of each stream and the hold in one critical *)
(* section.  The hold sits on the first stream that is free.                *)
OpenLive(o, c) ==
    /\ request[o].step = "new"
    /\ limit = 0 \/ Cardinality(Taken) < limit
    /\ closing' \in Pruned({s \in Range(Streams[c]) : MaxStreams[s] # 0})
    /\ LET vetoed == {s \in Range(Streams[c]) : Full(s, closing'[s])}
       IN /\ request' = [request EXCEPT ![o] =
                [step |-> "sent", channel |-> c, vetoed |-> vetoed,
                 token |-> None]]
          /\ \E i \in DOMAIN Streams[c] :
                /\ First(c, vetoed, i)
                /\ hold' = [hold EXCEPT ![o] =
                      [source |-> Streams[c][i], fed |-> None, pending |-> TRUE]]
    /\ UNCHANGED <<viewer, resync, lookup, engineVars, history>>

(* An event is still on its way. *)
Coming(kind, o) == \E i \in DOMAIN feed : feed[i].kind = kind /\ feed[i].of = o

(* What is entered after the end was told, or the telling lost, stays. *)
Ghostly(v) == watching[v] = None /\ ~Coming("ended", v)
Sticks(t) == upstream[t] = None /\ ~Coming("released", t)

(* Mutant: the joined open keeps the hold it no longer needs. *)
BugSettle(o, t) == [hold EXCEPT ![t] =
                        IF @ = None THEN None ELSE [@ EXCEPT !.pending = FALSE]]

(* The hold after the answer: dropped if the open joined a running session. *)
Settle(o, t) ==
    IF t # o THEN [hold EXCEPT ![o] = None]
             ELSE [hold EXCEPT ![o] =
                      IF @ = None THEN None ELSE [@ EXCEPT !.pending = FALSE]]

Answered(o) ==
    /\ request[o].step = "fed"
    /\ request' = [request EXCEPT ![o].step = "done"]
    /\ hold' = Settle(o, request[o].token)
    /\ viewer' = [viewer EXCEPT ![o] = request[o].token]
    /\ ghosts' = IF Ghostly(o) THEN ghosts \cup {o} ELSE ghosts
    /\ stuck' = IF request[o].token = o /\ o \in Held /\ Sticks(o) THEN stuck \cup {o} ELSE stuck
    /\ UNCHANGED <<closing, resync, lookup, engineVars,
                   left, strayed, uncounted, forgotten, mislaid>>

(* `release`: the hold goes, its connection counts for the grace. *)
Released(t) ==
    IF t \in Held
    THEN /\ hold' = [hold EXCEPT ![t] = None]
         /\ closing' = [closing EXCEPT ![hold[t].source] = @ + 1]
    ELSE UNCHANGED <<hold, closing>>

(* `open_failed`: every stream failed, or any other refusal. *)
Refused(o) ==
    /\ request[o].step \in {"refused", "dead"}
    /\ request' = [request EXCEPT ![o].step = "done"]
    /\ IF request[o].step = "dead"
         THEN Released(o)
         ELSE hold' = [hold EXCEPT ![o] = None] /\ UNCHANGED closing
    /\ UNCHANGED <<viewer, resync, lookup, engineVars, history>>

LosesHold(ts) == /\ strayed' = strayed \cup ts
                 /\ uncounted' = uncounted \cup ts

(* `PendingHold`, or a transport failure: the client left or the answer was *)
(* lost, and the hold goes whatever the engine made of the request.         *)
Cancel(o) ==
    /\ request[o].step \in {"sent", "fed", "refused", "dead"}
    /\ request' = [request EXCEPT ![o].step =
                      IF @ = "sent" THEN "cancelled" ELSE "done"]
    /\ hold' = [hold EXCEPT ![o] = None]
    /\ left' = left \cup {o}
    /\ LosesHold(Live \cap {o})
    /\ UNCHANGED <<viewer, closing, resync, lookup, engineVars,
                   forgotten, mislaid, ghosts, stuck>>

-----------------------------------------------------------------------------
(* The engine.                                                              *)

Tell(events) == feed' = feed \o events

(* The session's source is another than the one the open counted. *)
Stray(t, s) ==
    /\ strayed' = IF hold[t] = None \/ hold[t].source # s
                    THEN strayed \cup {t} ELSE strayed
    /\ uncounted' = IF hold[t] = None THEN uncounted \cup {t} ELSE uncounted

Reply(o, step, t) ==
    request' = [request EXCEPT
                  ![o].step = IF @ = "cancelled" THEN "done" ELSE step,
                  ![o].token = t]

(* A running session of the channel is joined. *)
EngineJoins(o, t) ==
    /\ request[o].step \in {"sent", "cancelled"}
    /\ t \in Live /\ upstream[t].channel = request[o].channel
    /\ watching' = [watching EXCEPT ![o] = t]
    /\ Reply(o, "fed", t)
    /\ UNCHANGED <<hold, viewer, closing, resync, lookup, upstream, feed,
                   breaks, failovers, history>>

(* The numbers of a set, as a sequence in their order. *)
InOrder(S) == {f \in [1 .. Cardinality(S) -> S] :
                  \A j, k \in DOMAIN f : j < k => f[j] < f[k]}

(* Or a stream that was not vetoed feeds a new one, after those before it   *)
(* failed.                                                                  *)
EngineOpens(o, s) ==
    LET c == request[o].channel
        tried == Free(c, request[o].vetoed)
    IN /\ request[o].step \in {"sent", "cancelled"}
       /\ \A t \in Live : upstream[t].channel # c
       /\ \E i \in tried :
            LET failed == {j \in tried : j < i}
            IN /\ Streams[c][i] = s
               /\ failed = {} \/ failovers < MaxFailovers
               /\ failovers' = IF failed = {} THEN failovers ELSE failovers + 1
               /\ \E f \in InOrder(failed) :
                    Tell([j \in DOMAIN f |-> [kind |-> "error", of |-> o,
                                             source |-> Streams[c][f[j]]]]
                           \o <<[kind |-> "ok", of |-> o, source |-> s]>>)
       /\ upstream' = [upstream EXCEPT ![o] = [source |-> s, channel |-> c]]
       /\ watching' = [watching EXCEPT ![o] = o]
       /\ Reply(o, "fed", o)
       /\ Stray(o, s)
       /\ UNCHANGED <<hold, viewer, closing, resync, lookup, breaks,
                      left, forgotten, mislaid, ghosts, stuck>>

(* Every stream is vetoed, or every one that is not fails. *)
EngineRefuses(o) ==
    LET c == request[o].channel
        all == Range(Streams[c]) \subseteq request[o].vetoed
    IN /\ request[o].step \in {"sent", "cancelled"}
       /\ \A t \in Live : upstream[t].channel # c
       /\ all \/ failovers < MaxFailovers
       /\ failovers' = IF all THEN failovers ELSE failovers + 1
       /\ Reply(o, IF all THEN "refused" ELSE "dead", None)
       /\ UNCHANGED <<hold, viewer, closing, resync, lookup, upstream, watching,
                      feed, breaks, history>>

(* Sessions end. *)
Ends(ts) ==
    /\ upstream' = [t \in Open |-> IF t \in ts THEN None ELSE upstream[t]]
    /\ strayed' = strayed \ ts /\ uncounted' = uncounted \ ts
    /\ mislaid' = mislaid \ ts

Ended(gone) == [i \in DOMAIN gone |-> [kind |-> "ended", of |-> gone[i]]]

(* A feeding upstream fails: another stream of its open takes over.         *)
FailsOver(t, s) ==
    /\ t \in Live /\ s # upstream[t].source
    /\ s \in Range(Streams[upstream[t].channel]) \ request[t].vetoed
    /\ failovers < MaxFailovers
    /\ failovers' = failovers + 1
    /\ Tell(<<[kind |-> "error", of |-> t, source |-> upstream[t].source],
              [kind |-> "ok", of |-> t, source |-> s]>>)
    /\ upstream' = [upstream EXCEPT ![t].source = s]
    /\ strayed' = strayed \cup {t}
    /\ UNCHANGED <<hostVars, watching, breaks,
                   left, uncounted, forgotten, mislaid, ghosts, stuck>>

(* Every stream failed: the session and its viewers end. *)
Dies(t) ==
    /\ t \in Live /\ failovers < MaxFailovers
    /\ failovers' = failovers + 1
    /\ LET gone == SetToSeq({v \in Open : watching[v] = t})
       IN Tell(<<[kind |-> "error", of |-> t, source |-> upstream[t].source]>>
               \o Ended(gone) \o <<[kind |-> "released", of |-> t]>>)
    /\ Ends({t})
    /\ watching' = [v \in Open |-> IF watching[v] = t THEN None ELSE watching[v]]
    /\ UNCHANGED <<hostVars, breaks, left, forgotten, ghosts, stuck>>

(* A viewer that asks for no more data ends. *)
ViewerIdles(v) ==
    /\ v \in Watched
    /\ watching' = [watching EXCEPT ![v] = None]
    /\ Tell(<<[kind |-> "ended", of |-> v]>>)
    /\ UNCHANGED <<hostVars, upstream, breaks, failovers, history>>

(* An upstream without viewers is closed. *)
UpstreamIdles(t) ==
    /\ t \in Live /\ \A v \in Open : watching[v] # t
    /\ Ends({t})
    /\ Tell(<<[kind |-> "released", of |-> t]>>)
    /\ UNCHANGED <<hostVars, watching, breaks, failovers,
                   left, forgotten, ghosts, stuck>>

(* The feed breaks: what it held is lost, and a resync follows.             *)
FeedBreaks ==
    /\ breaks < MaxBreaks
    /\ breaks' = breaks + 1
    /\ feed' = <<[kind |-> "resync"]>>

Mislays == mislaid' = mislaid \cup {t \in Live : Coming("ok", t)}

(* Also a resync whose list fails: the host drops the feed and asks again.  *)
LosesFeed ==
    /\ FeedBreaks /\ Mislays
    /\ UNCHANGED <<hostVars, upstream, watching, failovers,
                   left, strayed, uncounted, forgotten, ghosts, stuck>>

(* The engine restarts: its sessions and the opens it had not answered end. *)
EngineRestarts ==
    /\ FeedBreaks
    /\ Ends(Open)
    /\ watching' = [v \in Open |-> None]
    /\ request' = [o \in Open |->
          [request[o] EXCEPT !.step =
              CASE @ \in {"sent", "fed"} -> "refused"
                [] @ = "cancelled" -> "done"
                [] OTHER -> @]]
    /\ UNCHANGED <<hold, viewer, closing, resync, lookup, failovers,
                   left, forgotten, ghosts, stuck>>

(* The host restarts: the registry is only in memory. *)
HostRestarts ==
    /\ FeedBreaks /\ mislaid' = {}
    /\ LET cut == {o \in Open : request[o].step
                                  \in {"sent", "fed", "refused", "dead"}}
       IN /\ request' = [o \in Open |->
                [request[o] EXCEPT !.step =
                    IF @ = "sent" THEN "cancelled"
                    ELSE IF o \in cut THEN "done" ELSE @]]
          /\ left' = left \cup cut
    /\ hold' = [t \in Open |-> None] /\ viewer' = [v \in Open |-> None]
    /\ closing' = [s \in Source |-> 0]
    /\ resync' = NoList /\ lookup' = {}
    /\ LosesHold(Live)
    /\ forgotten' = forgotten \cup Watched
    /\ ghosts' = {} /\ stuck' = {}
    /\ UNCHANGED <<upstream, watching, failovers>>

-----------------------------------------------------------------------------
(* The host follows.                                                        *)

(* The client knows its viewer's name: the open has answered it. *)
Answers(v) == request[v].step = "done" /\ v \notin left

(* `leave`, or a grant taken away: the engine ends the viewer, then the     *)
(* host drops it.                                                           *)
Leave(v) ==
    /\ v \in Known \/ (Answers(v) /\ v \in Watched)
    /\ watching' = [watching EXCEPT ![v] = None]
    /\ Tell(IF v \in Watched THEN <<[kind |-> "ended", of |-> v]>> ELSE <<>>)
    /\ viewer' = [viewer EXCEPT ![v] = None]
    /\ ghosts' = ghosts \ {v}
    /\ UNCHANGED <<request, hold, closing, resync, lookup, upstream,
                   breaks, failovers, left, strayed, uncounted, forgotten, mislaid, stuck>>

(* A stream feeds: the hold sits on its source. *)
MoveHold(h, s) == [h EXCEPT !.source = s, !.fed = s]

(* `attempt`: a stream feeds or failed; the one that fed and failed counts  *)
(* for the grace.                                                           *)
Attempt(e) ==
    LET t == e.of
        h == hold[t]
    IN IF h = None THEN UNCHANGED <<hold, closing>>
       ELSE IF e.kind = "ok"
       THEN hold' = [hold EXCEPT ![t] = MoveHold(h, e.source)]
            /\ UNCHANGED closing
       ELSE IF h.fed = e.source
       THEN /\ hold' = [hold EXCEPT ![t].fed = None]
            /\ closing' = [closing EXCEPT ![e.source] = @ + 1]
       ELSE UNCHANGED <<hold, closing>>

(* `on_event`, one at a time, never during a resync. *)
OnEvent ==
    /\ feed # <<>> /\ resync.step = "idle"
    /\ feed' = Tail(feed)
    /\ LET e == Head(feed) IN
         \/ /\ e.kind \in {"ok", "error"} /\ Attempt(e)
            /\ UNCHANGED <<viewer, resync>>
         \/ /\ e.kind = "released" /\ Released(e.of)
            /\ UNCHANGED <<viewer, resync>>
         \/ /\ e.kind = "ended"
            /\ viewer' = [viewer EXCEPT ![e.of] = None]
            /\ UNCHANGED <<hold, closing, resync>>
         \/ /\ e.kind = "resync"
            /\ resync' = [step |-> "listed", upstream |-> upstream,
                          watching |-> watching, known |-> Known \cup lookup]
            /\ UNCHANGED <<hold, viewer, closing>>
    /\ UNCHANGED <<request, lookup, upstream, watching, breaks, failovers,
                   history>>

(* Mutant: the list is read for the session instead of its viewer. *)
BugListed(v) == IF viewer[v] = None THEN resync.upstream[v] ELSE viewer[v]

(* The viewers of the list, and those entered after it was taken. *)
FollowList(v) ==
    IF viewer[v] = None THEN resync.watching[v]
    ELSE IF resync.watching[v] = None /\ v \in resync.known THEN None
    ELSE viewer[v]

(* The sessions of the list that have no hold. *)
Unheld == {t \in Open : hold[t] = None /\ resync.upstream[t] # None}

(* `restore_holds`, then the viewers, from the list.  A session is passed   *)
(* over, and only the next resync asks again, if the channel's streams      *)
(* cannot be loaded or the one that feeds it is no longer among them.       *)
ResyncApplies ==
    /\ resync.step = "listed"
    /\ resync' = [NoList EXCEPT !.step = "applied", !.upstream = resync.upstream]
    /\ \E skipped \in SUBSET Unheld :
         /\ hold' = [t \in Open |->
                       IF t \notin Unheld \ skipped THEN hold[t]
                       ELSE [source |-> resync.upstream[t].source,
                             fed |-> resync.upstream[t].source,
                             pending |-> FALSE]]
         /\ uncounted' = {t \in uncounted : resync.upstream[t] = None \/ t \in skipped}
    /\ viewer' = [v \in Open |-> FollowList(v)]
    /\ ghosts' = {v \in Open : /\ FollowList(v) # None /\ Ghostly(v)
                               /\ viewer[v] = None \/ v \in ghosts}
    /\ UNCHANGED <<request, closing, lookup, engineVars,
                   left, strayed, forgotten, mislaid, stuck>>

(* What the list misses is released, but for what is pending. *)
ResyncEnds ==
    /\ resync.step = "applied"
    /\ resync' = NoList
    /\ LET gone == {t \in Held : resync.upstream[t] = None /\ ~hold[t].pending}
       IN /\ hold' = [t \in Open |-> IF t \in gone THEN None ELSE hold[t]]
          /\ closing' = [s \in Source |->
                closing[s] + Cardinality(gone \cap HoldsOn(s))]
          /\ LosesHold(gone \cap Live)
          /\ stuck' = stuck \ gone
    /\ UNCHANGED <<request, viewer, lookup, engineVars,
                   left, forgotten, mislaid, ghosts>>

(* `resolve_live`: a viewer the host does not know is looked up in the      *)
(* engine, then entered.                                                    *)
LooksUp(v) ==
    /\ Answers(v) /\ v \in Watched \ (Known \cup lookup)
    /\ lookup' = lookup \cup {v}
    /\ UNCHANGED <<request, hold, viewer, closing, resync, engineVars, history>>

Enters(v) ==
    /\ v \in lookup
    /\ lookup' = lookup \ {v}
    /\ viewer' = [viewer EXCEPT ![v] =
                    IF @ = None THEN IF watching[v] # None THEN watching[v]
                                                           ELSE request[v].token
                                ELSE @]
    /\ ghosts' = IF v \notin Known /\ Ghostly(v) THEN ghosts \cup {v} ELSE ghosts
    /\ UNCHANGED <<request, hold, closing, resync, engineVars,
                   left, strayed, uncounted, forgotten, mislaid, stuck>>

Next ==
    /\ UNCHANGED limit
    /\ \/ \E o \in Open : \/ \E c \in Channel : OpenLive(o, c)
                          \/ Answered(o) \/ Refused(o) \/ Cancel(o)
                          \/ \E t \in Open : EngineJoins(o, t)
                          \/ \E s \in Source : EngineOpens(o, s)
                          \/ EngineRefuses(o)
                          \/ \E s \in Source : FailsOver(o, s)
                          \/ Dies(o) \/ UpstreamIdles(o)
                          \/ ViewerIdles(o) \/ Leave(o)
                          \/ LooksUp(o) \/ Enters(o)
       \/ LosesFeed \/ EngineRestarts \/ HostRestarts
       \/ OnEvent \/ ResyncApplies \/ ResyncEnds

Spec == Init /\ [][Next]_vars

-----------------------------------------------------------------------------
(* Properties.                                                              *)

(* Every variable holds what its declaration says.                          *)
TypeOK ==
    /\ request \in [Open -> Request]
    /\ hold \in [Open -> Hold \cup {None}]
    /\ viewer \in [Open -> Open \cup {None}]
    /\ closing \in [Source -> Nat]
    /\ resync.step \in {"idle", "listed", "applied"}
    /\ upstream \in [Open -> Upstream \cup {None}]
    /\ watching \in [Open -> Open \cup {None}]
    /\ feed \in Seq(Event)
    /\ lookup \cup left \cup strayed \cup uncounted \cup forgotten
        \cup mislaid \cup ghosts \cup stuck \subseteq Open

(* Rule 7 and 36: the sessions on a source stay within its limit, however   *)
(* opens, ends and late events interleave, but for those that failed over   *)
(* to it or whose hold was given up while they ran.                         *)
CapacityKept ==
    \A s \in Source : MaxStreams[s] # 0 =>
        Cardinality({t \in Live \ strayed : upstream[t].source = s})
            <= MaxStreams[s]

(* Rule 39: a user never watches more than the cap allows, with opens at    *)
(* the same time and whatever a resync drops; an open whose request was cut *)
(* short is not counted, nor a viewer the host forgot in a restart.         *)
ViewerCapKept ==
    limit # 0 => Cardinality(Watched \ (left \cup forgotten)) <= limit

Quiet ==
    /\ feed = <<>> /\ resync.step = "idle" /\ lookup = {}
    /\ \A o \in Open : request[o].step \in {"new", "done"}

(* Rules 20, 23 to 26, 28: with nothing under way the host knows the        *)
(* engine's viewers and holds every session at the source that feeds it,    *)
(* except what the histories record until a resync repairs it: a session    *)
(* that a resync passes over stays without a hold, and on record.           *)
RegistryFollowsEngine ==
    Quiet => /\ \A v \in Open \ (ghosts \cup left) : viewer[v] = watching[v]
             /\ Held \ stuck = Live \ uncounted
             /\ \A t \in (Held \cap Live) \ mislaid : hold[t].source = upstream[t].source

(* Rule 24, as it says it: capacity follows the upstream that feeds the     *)
(* session, and a resync restores it.                                       *)
HoldFollowsUpstream ==
    Quiet => \A t \in Held \cap Live : hold[t].source = upstream[t].source

=============================================================================
