---------------------------- MODULE PartyMachine ----------------------------
(***************************************************************************)
(* The pure watch-party machine of crates/domain/src/party.rs: one party's *)
(* room (members, host, policy, voice, the emptiness countdown) and its    *)
(* playback (what plays, its state, its anchor and the waiting phase).     *)
(*                                                                         *)
(* The machine is one record `live`, as `Live` is one struct, and every    *)
(* operation is a function from a record to the next one: the helpers      *)
(* below compose exactly as the methods call each other (a leave removes   *)
(* the member, announces the members, then settles the phase).             *)
(*                                                                         *)
(* The clock is passed to every method; here it is `now`, counted in       *)
(* periods of the registry's tick, which runs once per period.  `alive` is *)
(* the hub's view: the seats whose recorded connection is still open.      *)
(*                                                                         *)
(* A refused call changes nothing, so its refusal is a guard.  Chat, rate  *)
(* windows, names and the attribution of events are left out.              *)
(***************************************************************************)
EXTENDS Integers, FiniteSets

CONSTANTS
    User,           \* accounts
    Device,         \* device ids of one account (one member per tab)
    Seat,           \* the (user, device) pairs that may take part
    Item,           \* rows of a programme: (media, episode) pairs
    NoItem,         \* no item: nothing plays before the start
    Pos,            \* the positions clients seek to or report
    StartDelay,     \* max(2 * rtt, MIN_START_DELAY): the delays a start may have
    WaitTimeout,    \* WAIT_TIMEOUT_MS
    AwayGrace,      \* AWAY_GRACE_MS
    EmptyTTL,       \* EMPTY_TTL_MS
    ReadyTolerance, \* READY_TOLERANCE_S
    VoiceMax,       \* VOICE_MAX
    MaxNow,         \* bound: the clock stops here
    MaxRev          \* bound: no client call once this many revisions were made

ASSUME MachineAssumption ==
    /\ Seat \subseteq User \X Device
    /\ NoItem \notin Item
    /\ Pos \subseteq Nat /\ 0 \in Pos
    /\ StartDelay \subseteq Nat
    /\ WaitTimeout \in Nat \ {0}
    /\ AwayGrace \in Nat \ {0}
    /\ EmptyTTL \in Nat \ {0}
    /\ ReadyTolerance \in Nat
    /\ VoiceMax \in Nat
    /\ MaxNow \in Nat /\ MaxRev \in Nat

VARIABLES
    live,       \* the machine
    now,        \* the clock, in tick periods
    ticked,     \* whether this period's tick ran
    alive,      \* the members whose recorded connection is open (the hub)
    closed      \* the machine asked to be closed as expired

vars == <<live, now, ticked, alive, closed>>

Never == -1                                  \* None of an Option<i64> time
NoPhase == [target |-> FALSE, since |-> Never]

UserOf(m) == m[1]
SeatsOf(u) == {m \in Seat : UserOf(m) = u}

MemberStatus == {"ready", "buffering", "waiting", "away"}
State == {"lobby", "idle", "waiting", "paused", "playing"}
Policy == {"everyone", "host_only"}
Time == Nat \cup {Never}
Phase == [target: BOOLEAN, since: Time]
Row == [item: Item \cup {NoItem}, pos: Nat]

LiveType ==
    [status: [Seat -> MemberStatus \cup {"out"}],
     awaySince: [Seat -> Time],
     voice: SUBSET Seat,
     host: User,
     policy: Policy,
     rev: Nat,
     emptySince: Time,
     state: State,
     item: Item \cup {NoItem},
     pos: Nat,
     at: Nat,
     phase: Phase,
     saved: Row]

-----------------------------------------------------------------------------
(* Reading the machine.                                                     *)

Members(s) == {m \in Seat : s.status[m] # "out"}

Present(s) == {m \in Seat : s.status[m] \notin {"out", "away"}}

AllReady(s) == \A m \in Present(s) : s.status[m] = "ready"

HostAway(s) == Present(s) \cap SeatsOf(s.host) = {}

(* Mutant: no clamp before the anchor. *)
BugPositionAt(s, t) ==
    IF s.state = "playing" THEN s.pos + (t - s.at) ELSE s.pos

(* Never before the anchor: during the start delay it is the anchor. *)
PositionAt(s, t) ==
    IF s.state = "playing" /\ t > s.at THEN s.pos + (t - s.at) ELSE s.pos

(* `ended` counts on what plays, from the host, or from anyone who names   *)
(* the item while the host is away.                                        *)
CanEnd(s, m, seen) ==
    /\ m \in Members(s)
    /\ s.state \in {"playing", "paused"}
    /\ seen \in {s.item, NoItem}
    /\ UserOf(m) = s.host \/ (seen # NoItem /\ HostAway(s))

MayControl(s, m) ==
    /\ s.state # "lobby"
    /\ m \in Members(s)
    /\ s.policy = "host_only" => UserOf(m) = s.host

-----------------------------------------------------------------------------
(* Steps every operation is made of.                                        *)

(* members_effect, and the Settings and Programme effects. *)
Bump(s) == [s EXCEPT !.rev = @ + 1]

(* state_effect: a new revision, and the position written to the row. *)
Announce(s, t) ==
    [s EXCEPT !.rev = @ + 1,
              !.saved = [item |-> s.item, pos |-> PositionAt(s, t)]]

(* Mutant: a seek while waiting forgets what the phase was for. *)
BugForgetTarget(s, p, target, t) ==
    Announce([s EXCEPT !.state = "waiting", !.pos = p, !.at = t,
        !.status = [m \in Seat |-> IF m \in Present(s) THEN "waiting" ELSE @[m]],
        !.phase = [target |-> target, since |-> t]], t)

(* Mutant: the row is written before the anchor moves. *)
BugPersistFirst(s, p, target, t) ==
    [Announce(s, t) EXCEPT !.state = "waiting", !.pos = p, !.at = t,
        !.status = [m \in Seat |-> IF m \in Present(s) THEN "waiting" ELSE @[m]],
        !.phase = [target |-> IF s.state = "waiting" THEN @.target ELSE target,
                   since |-> t]]

(* A phase already waiting keeps its target; its timeout restarts. *)
EnterWaiting(s, p, target, t) ==
    Announce([s EXCEPT
        !.state = "waiting",
        !.pos = p,
        !.at = t,
        !.status = [m \in Seat |-> IF m \in Present(s) THEN "waiting"
                                                       ELSE s.status[m]],
        !.phase = [target |-> IF s.state = "waiting" THEN s.phase.target
                                                     ELSE target,
                   since |-> t]], t)

(* Mutant: the phase is read but not taken. *)
BugKeepPhase(s, t, delay) ==
    IF s.phase = NoPhase THEN s
    ELSE Announce([s EXCEPT
            !.state = IF s.phase.target THEN "playing" ELSE "paused",
            !.at = IF s.phase.target THEN t + delay ELSE t], t)

Complete(s, t, delay) ==
    IF s.phase = NoPhase THEN s
    ELSE Announce([s EXCEPT
            !.state = IF s.phase.target THEN "playing" ELSE "paused",
            !.at = IF s.phase.target THEN t + delay ELSE t,
            !.phase = NoPhase], t)

Settle(s, t, delay) ==
    IF s.state = "waiting" /\ AllReady(s) THEN Complete(s, t, delay) ELSE s

ChangeItem(s, i, t) ==
    EnterWaiting([s EXCEPT !.item = i], 0, s.state = "playing", t)

Idle(s, t) ==
    Announce([s EXCEPT !.state = "idle",
                       !.pos = PositionAt(s, t),
                       !.at = t,
                       !.phase = NoPhase], t)

(* A step along the programme; `next` is NoItem when nothing is left. *)
Walk(s, forward, next, t) ==
    CASE next # NoItem -> ChangeItem(s, next, t)
      [] next = NoItem /\ forward /\ s.state # "idle" -> Idle(s, t)
      [] OTHER -> s

(* The member records of `gone` are dropped, their voice with them. *)
Remove(s, gone) ==
    [s EXCEPT !.status = [m \in Seat |-> IF m \in gone THEN "out" ELSE @[m]],
              !.awaySince = [m \in Seat |-> IF m \in gone THEN Never ELSE @[m]],
              !.voice = @ \ gone]

-----------------------------------------------------------------------------
(* What the room and the playback are made as.                              *)

NewRoom(host, policy, t) ==
    [status |-> [m \in Seat |-> "out"],
     awaySince |-> [m \in Seat |-> Never],
     voice |-> {},
     host |-> host,
     policy |-> policy,
     rev |-> 0,
     emptySince |-> t,
     state |-> "lobby",
     item |-> NoItem,
     pos |-> 0,
     at |-> t,
     phase |-> NoPhase,
     saved |-> [item |-> NoItem, pos |-> 0]]

(* Live::boot: after a restart, paused at the stored position, nobody in. *)
Boot(host, policy, i, p, t) ==
    [NewRoom(host, policy, t) EXCEPT
        !.state = "paused", !.item = i, !.pos = p,
        !.saved = [item |-> i, pos |-> p]]

Init ==
    /\ now = 0
    /\ ticked = FALSE
    /\ alive = {}
    /\ closed = FALSE
    /\ \E h \in User, y \in Policy :
         \/ live = NewRoom(h, y, 0)
         \/ \E i \in Item, p \in Pos : live = Boot(h, y, i, p, 0)

-----------------------------------------------------------------------------
(* Membership.                                                              *)

(* One client call: the machine becomes `s`, the clock does not move. *)
Call(s) ==
    /\ ~closed
    /\ live.rev < MaxRev
    /\ live' = s
    /\ alive' = alive \cap Members(s)
    /\ UNCHANGED <<now, ticked, closed>>

(* Mutant: only the tick stops the emptiness countdown. *)
BugJoinKeepsCountdown(m) ==
    /\ ~closed
    /\ live.rev < MaxRev
    /\ live' = Bump([live EXCEPT
                 !.status[m] = IF live.state \in {"lobby", "waiting"}
                               THEN "waiting" ELSE "ready",
                 !.awaySince[m] = Never])
    /\ alive' = alive \cup {m}
    /\ UNCHANGED <<now, ticked, closed>>

(* A join or rejoin with an open connection; it does not settle the phase. *)
Join(m) ==
    /\ ~closed
    /\ live.rev < MaxRev
    /\ live' = Bump([live EXCEPT
                 !.status[m] = IF live.state \in {"lobby", "waiting"}
                               THEN "waiting" ELSE "ready",
                 !.awaySince[m] = Never,
                 !.emptySince = Never])
    /\ alive' = alive \cup {m}
    /\ UNCHANGED <<now, ticked, closed>>

(* Mutant: the members are announced only when the phase settles. *)
BugQuietLeave(m) ==
    /\ m \in Members(live)
    /\ \E d \in StartDelay : Call(Settle(Remove(live, {m}), now, d))

Leave(m) ==
    /\ m \in Members(live)
    /\ \E d \in StartDelay :
         Call(Settle(Bump(Remove(live, {m})), now, d))

(* Mutant: the phase of those who stay is left to the tick. *)
BugQuietKick(u) ==
    /\ u # live.host
    /\ SeatsOf(u) \cap Members(live) # {}
    /\ Call(Bump(Remove(live, SeatsOf(u))))

(* Every device of the user goes; the host cannot be kicked. *)
Kick(u) ==
    /\ u # live.host
    /\ SeatsOf(u) \cap Members(live) # {}
    /\ \E d \in StartDelay :
         Call(Settle(Bump(Remove(live, SeatsOf(u))), now, d))

(* Before the start the host is the owner, whoever is in the room. *)
Transfer(u) ==
    /\ live.state # "lobby"
    /\ SeatsOf(u) \cap Members(live) # {}
    /\ Call(Bump([live EXCEPT !.host = u]))

SetSettings(y) == Call(Bump([live EXCEPT !.policy = y]))

(* The host edited the programme: only the queue changes. *)
Programme == Call(Bump(live))

(* Away members are not counted; muting only announces. *)
SetVoice(m, joined) ==
    /\ m \in Members(live)
    /\ joined /\ m \notin live.voice =>
         Cardinality(live.voice \cap Present(live)) < VoiceMax
    /\ Call(Bump([live EXCEPT !.voice = IF joined THEN @ \cup {m} ELSE @ \ {m}]))

-----------------------------------------------------------------------------
(* Playback.                                                                *)

(* The host's present member starts the group; else the party idles. *)
GoLive(i) ==
    /\ live.state = "lobby"
    /\ LET s == [live EXCEPT
                   !.emptySince = IF Present(live) = {} THEN now ELSE Never,
                   !.state = "idle", !.item = i, !.pos = 0, !.at = now]
       IN  Call(IF HostAway(live) THEN Announce(s, now)
                                  ELSE EnterWaiting(s, 0, TRUE, now))

(* While waiting, play and pause only retarget the phase: no revision. *)
Play(m) ==
    /\ MayControl(live, m)
    /\ \/ /\ live.state \in {"idle", "paused"}
          /\ Call(EnterWaiting(live, live.pos, TRUE, now))
       \/ /\ live.state = "waiting"
          /\ Call([live EXCEPT !.phase.target = TRUE])

Pause(m) ==
    /\ MayControl(live, m)
    /\ \/ /\ live.state = "playing"
          /\ Call(Announce([live EXCEPT !.state = "paused",
                                        !.pos = PositionAt(live, now),
                                        !.at = now], now))
       \/ /\ live.state = "waiting"
          /\ Call([live EXCEPT !.phase.target = FALSE])

(* `base` is the revision the caller saw: a move made on an older one is   *)
(* refused.                                                                *)
Seek(m, p, base) ==
    /\ MayControl(live, m)
    /\ base >= live.rev
    /\ Call(EnterWaiting(live, p, live.state = "playing", now))

SetItem(m, i, base) ==
    /\ MayControl(live, m)
    /\ base >= live.rev
    /\ Call(ChangeItem(live, i, now))

(* next and previous: the step the server chose along the programme. *)
Advance(m, forward, next, base) ==
    /\ MayControl(live, m)
    /\ base >= live.rev
    /\ Call(Walk(live, forward, next, now))

(* `ended` with an empty programme only idles. *)
Ended(m, seen) ==
    /\ CanEnd(live, m, seen)
    /\ Call(Idle(live, now))

(* `ended` that moves the queue on, if the party still is on `from`. *)
AdvanceAfterEnded(m, seen, from, next) ==
    /\ CanEnd(live, m, seen)
    /\ from = live.item
    /\ Call(Walk(Idle(live, now), TRUE, next, now))

(* Mutant: a status from an away member leaves its removal scheduled. *)
BugStatusStaysAway(m, status, p) ==
    /\ m \in Members(live)
    /\ LET far == live.state = "waiting" /\ ~ (p - live.pos \in
                     -ReadyTolerance .. ReadyTolerance)
           new == IF status = "ready" /\ far THEN live.status[m] ELSE status
           s == IF new = live.status[m] THEN live
                ELSE Bump([live EXCEPT !.status[m] = new])
       IN  \E d \in StartDelay : Call(Settle(s, now, d))

(* While waiting, only a `ready` near the anchor counts. *)
Status(m, status, p) ==
    /\ m \in Members(live)
    /\ LET far == live.state = "waiting" /\ ~ (p - live.pos \in
                     -ReadyTolerance .. ReadyTolerance)
           new == IF status = "ready" /\ far THEN live.status[m] ELSE status
           s == IF new = live.status[m] THEN live
                ELSE Bump([live EXCEPT !.status[m] = new,
                                       !.awaySince[m] = Never])
       IN  \E d \in StartDelay : Call(Settle(s, now, d))

-----------------------------------------------------------------------------
(* The hub and the clock.                                                   *)

(* An event stream ends; only the next tick notices. *)
Disconnect(m) ==
    /\ ~closed
    /\ m \in alive
    /\ alive' = alive \ {m}
    /\ UNCHANGED <<live, now, ticked, closed>>

(* Members whose connection is gone become away, those away too long leave. *)
Reap(s, t) ==
    LET lost == Present(s) \ alive
        since == [m \in Seat |-> IF m \in lost THEN t ELSE s.awaySince[m]]
        gone == {m \in Members(s) : since[m] # Never /\ t - since[m] >= AwayGrace}
        marked == [s EXCEPT
                     !.status = [m \in Seat |-> IF m \in lost THEN "away" ELSE @[m]],
                     !.awaySince = since]
    IN  IF lost \cup gone = {} THEN s ELSE Bump(Remove(marked, gone))

(* Mutant: off by one at the timeout. *)
BugLateTimeOut(s, t, delay) ==
    IF s.state = "waiting" /\ (AllReady(s) \/ t - s.phase.since > WaitTimeout)
    THEN Complete(s, t, delay) ELSE s

(* A phase ends when everyone is ready, or at its timeout. *)
TimeOut(s, t, delay) ==
    IF s.state = "waiting" /\ (AllReady(s) \/ t - s.phase.since >= WaitTimeout)
    THEN Complete(s, t, delay) ELSE s

CountEmpty(s, t) ==
    [s EXCEPT !.emptySince = IF Present(s) # {} THEN Never
                             ELSE IF @ = Never THEN t ELSE @]

Tick ==
    /\ ~closed
    /\ ~ticked
    /\ \E d \in StartDelay :
         live' = CountEmpty(TimeOut(Reap(live, now), now, d), now)
    /\ ticked' = TRUE
    /\ closed' = (/\ live'.emptySince # Never
                  /\ now - live'.emptySince >= EmptyTTL)
    /\ alive' = alive \cap Members(live')
    /\ UNCHANGED now

Clock ==
    /\ ~closed
    /\ ticked
    /\ now < MaxNow
    /\ now' = now + 1
    /\ ticked' = FALSE
    /\ UNCHANGED <<live, alive, closed>>

-----------------------------------------------------------------------------

MemberCall(m) ==
    \/ Join(m)
    \/ Leave(m)
    \/ \E joined \in BOOLEAN : SetVoice(m, joined)
    \/ \E status \in MemberStatus \ {"away"}, p \in Pos : Status(m, status, p)

(* The revision a caller acts on: the current one, or one it is behind. *)
Base == {live.rev - 1, live.rev}

Control(m) ==
    \/ Play(m)
    \/ Pause(m)
    \/ \E base \in Base :
         \/ \E p \in Pos : Seek(m, p, base)
         \/ \E i \in Item : SetItem(m, i, base)
         \/ \E forward \in BOOLEAN, next \in Item \cup {NoItem} :
              Advance(m, forward, next, base)
    \/ \E seen \in Item \cup {NoItem} :
         \/ Ended(m, seen)
         \/ \E from \in Item, next \in Item \cup {NoItem} :
              AdvanceAfterEnded(m, seen, from, next)

HostCall ==
    \/ \E u \in User : Kick(u) \/ Transfer(u)
    \/ \E y \in Policy : SetSettings(y)
    \/ Programme
    \/ \E i \in Item : GoLive(i)

Next ==
    \/ \E m \in Seat : MemberCall(m) \/ Control(m) \/ Disconnect(m)
    \/ HostCall
    \/ Tick
    \/ Clock

Spec == Init /\ [][Next]_vars

-----------------------------------------------------------------------------
(* Properties.                                                              *)

(* Every field keeps its type: no position before zero, no time before the *)
(* clock's start, whatever order the calls come in (a pause inside the     *)
(* start delay reads a position from an anchor still in the future).       *)
TypeOK ==
    /\ live \in LiveType
    /\ now \in Nat
    /\ ticked \in BOOLEAN
    /\ alive \subseteq Seat
    /\ closed \in BOOLEAN

(* A waiting party has a phase, with its target and its timeout, and no    *)
(* other party has one: a phase left behind would release the group later, *)
(* a waiting party without one would never be released.                    *)
PhaseIsWaiting ==
    /\ live.state = "waiting" <=> live.phase # NoPhase
    /\ live.phase # NoPhase => live.phase.since \in 0 .. now
    /\ live.state = "lobby" <=> live.item = NoItem

(* A member is away exactly while a removal is scheduled for it, and one   *)
(* whose connection is open is never away: a rejoin, or a status call,     *)
(* cancels the removal whatever the tick did in between.                   *)
AwayIsScheduled ==
    /\ \A m \in Seat : live.status[m] = "away" <=> live.awaySince[m] # Never
    /\ \A m \in Seat : live.awaySince[m] <= now
    /\ alive \subseteq Present(live)

(* The emptiness countdown never runs while a member is connected: what    *)
(* the registry reads to expire a party is never a stale countdown.        *)
NoCountdownWhileConnected ==
    /\ alive # {} => live.emptySince = Never
    /\ live.emptySince <= now

(* No phase outlives WAIT_TIMEOUT by more than the tick that notices it.   *)
PhaseEndsInTime ==
    live.state = "waiting" =>
        /\ now - live.phase.since <= WaitTimeout
        /\ ticked => now - live.phase.since < WaitTimeout

(* An away member is gone once AWAY_GRACE has passed.                      *)
AwayEndsInTime ==
    \A m \in Seat : live.status[m] = "away" =>
        /\ now - live.awaySince[m] <= AwayGrace
        /\ ticked => now - live.awaySince[m] < AwayGrace

(* A countdown that reached EMPTY_TTL has closed the party, and only then. *)
EmptyEndsInTime ==
    /\ live.emptySince # Never /\ ~closed =>
        /\ now - live.emptySince <= EmptyTTL
        /\ ticked => now - live.emptySince < EmptyTTL
    /\ closed => /\ alive = {}
                 /\ now - live.emptySince >= EmptyTTL

(* The three limits together, as they share the tick: a phase, an absence  *)
(* and an empty party each end by the tick that follows their limit,       *)
(* whatever calls and disconnections come in between, and no party expires *)
(* before its limit or with somebody connected.                            *)
LimitsAreMet == PhaseEndsInTime /\ AwayEndsInTime /\ EmptyEndsInTime

(* The row holds the item and position of the last anchor announced, so a  *)
(* restart reopens the party where its members were told it is.            *)
RowFollowsAnchor ==
    live.state # "lobby" => live.saved = [item |-> live.item, pos |-> live.pos]

(* What clients are shown of a machine. *)
Shown(s) == <<s.status, s.voice, s.host, s.policy, s.state, s.item, s.pos, s.at>>

(* Clients drop events whose revision they have seen, so whatever changes  *)
(* what they are shown takes a new revision, and revisions never go back.  *)
ShownChangeIsRevised ==
    [][ /\ live'.rev >= live.rev
        /\ Shown(live') # Shown(live) => live'.rev > live.rev ]_vars

(* A waiting group still has somebody to wait for, unless nobody is        *)
(* present at all (an away member may seek).                               *)
SomebodyIsAwaited ==
    live.state = "waiting" =>
        Present(live) = {} \/ \E m \in Present(live) : live.status[m] # "ready"

(* The group is released when it is due and never before: the call that    *)
(* makes the last present member ready, or takes the last unready one out, *)
(* releases it itself and leaves nothing to the tick; and no call does it  *)
(* earlier, but the tick once the phase has waited for WAIT_TIMEOUT.       *)
ReleaseIsEarned ==
    [][ /\ live.state = "waiting" /\ live'.state \in {"playing", "paused"} =>
             \/ \A m \in Seat : live'.status[m] \in {"out", "away", "ready"}
             \/ now - live.phase.since >= WaitTimeout
        /\ SomebodyIsAwaited' ]_vars

(* What the room asked for last: the phase's target, or what plays.        *)
Wish == IF live.state = "waiting" THEN live.phase.target
                                  ELSE live.state = "playing"

Group == INSTANCE GroupPlayback
         WITH mode <- live.state, wish <- Wish, item <- live.item, pos <- live.pos

(* The machine keeps the group's promise (GroupPlayback): it plays exactly *)
(* when the last play, pause or end it accepted says so, and resumes from  *)
(* the anchor the last seek or item change set, through timeouts and       *)
(* members coming and going while it waits.                                *)
GroupKeepsPromise == Group!Spec

(* VOICE_MAX members in the voice channel, away members not counted.       *)
VoiceCap == Cardinality(live.voice \cap Present(live)) <= VoiceMax

=============================================================================
