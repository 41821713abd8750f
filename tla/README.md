# Fliks: TLA+ models of the server's concurrent core

Fliks is a self-hosted media server: a Rust server (`src/server`), an Angular
client (`src/client`) and native clients. This directory holds TLA+ models of its
concurrent core, the TLC configurations that check them on small instances, and
the theorems that TLAPS proves about them for every value of the constants.

Five parts are modelled, those whose state is hardest to keep: the watch party
(its machine, its registry and routes, and the client that follows it), the hub of
server-sent events with its remote targets, the rotation of refresh tokens
between the tabs of a browser, and the live TV tuners that an external engine
feeds. In each of them several actors change one state with awaits, lost messages
or lost answers in between.

## 1. Inventory

### 1.1 Components

| component | state it keeps | operations | hard behaviour |
| --- | --- | --- | --- |
| Party machine, `domain/src/party.rs` | one `Live`: members, host, policy, voice, chat ring, revision, emptiness; playback item, state, anchor, waiting phase | one method per call (`join`, `leave`, `kick`, `set_status`, `play`, `pause`, `seek`, `set_item`, `advance`, `ended`, `go_live`, `set_host`, `tick`, ...), pure: returns effects | any order of calls of any member; timeouts against answers; revisions that clients filter by |
| Party registry, `party/registry.rs` | `Inner`: machines, gates (one mutex per party, made on demand), reaction windows | `ensure`, `hold`, `mutate`, `note`, `end`, `tick`, `sweep`, `boot` | the gate is replaced when a party is forgotten; data read before the gate is stale after it; an end is several awaits |
| Party routes, `party/routes.rs`, `db.rs` | `watch_parties`, `watch_party_invitees`, programme and messages | REST handlers; each reads the row, decides, takes the gate, changes the row or the machine, delivers events | check then act, two writes in a fixed order, a request dropped with its client |
| Proposals, votes, programme, cover, `party/{proposals,queue,cover}.rs` | proposals and votes, programme rows | propose, vote, withdraw, edit; the top vote at `ended` | a vote racing the end of an item |
| Party client, `client/.../party.service.ts` | the snapshot, `lastRev`, a pending refetch | apply event, apply snapshot, refetch, rejoin | events older or newer than the snapshot, a stream that drops |
| Voice mesh and reactions, `client/.../voice*.ts` | WebRTC peers | offer, answer, candidates relayed by the party | glare, peers that vanish |
| Events hub, `events/{hub,sse,replay,ticket}.rs` | connections with bounded queues, targets, claims | connect, emit, drain, teardown | a full queue closes its connection; a reconnection evicts the older one |
| Jobs, `jobs/{runner,audit,cron}.rs` | the set of running names, audit rows | claim, run, release | a restore excludes everything; a crash leaves audit rows |
| Auth, `auth/{db,routes,throttle}.rs`, `oidc` | sessions and refresh tokens, pairings, lockout windows | issue, refresh (rotation), revoke, pair | a refresh retried after a lost answer, two tabs refreshing |
| Media requests, `requests/{flow,lifecycle,db}.rs` | the request's status, followers | create, approve, decline, update, remove | the detached follow-up work of an approval |
| Live TV, `livetv/session.rs` | viewers and holds of the tuners | open, play, heartbeat, leave, revoke | tuner limits, a viewer that stops beating |
| Playback and presence, `playback`, `presence` | progress rows, the presence map | beat, watched, clear | late or duplicated beats |
| Remote control, `remote`; cast receiver | targets and their commands | send, poll, fan out | a target that moved to another connection |
| Streaming, `stream`, `engine` | sessions of the external engine | start, seek, stop, prune | an engine session that outlives its client |
| Ingest, importers, metadata, libraries | catalogue rows, queues of imports | scan, match, import | long jobs against edits |
| Catalogue (books, comics, collections, playlists, persons, annotations) | database rows | CRUD | little |
| Sync protocols (Kobo, KOReader, OPDS) | reading positions | wire formats | conflict of positions |
| Subtitles, cleanup, plugins, notifications, email, settings, images, roles, users | rows and job queues | CRUD, jobs | limiter, grace periods |
| Domain helpers, `domain/src` | none | pure functions | none: tables and parsing under unit tests |
| Clients other than the party | user interface | - | - |

### 1.2 How the modelled parts interact

A client calls a REST route. The handler reads the row and the caller's access
without any lock. It then either calls `mutate`, which takes the party's gate and
runs one method of the machine, or takes the gate itself, writes the row, and runs
the machine under the gate it holds. The method returns effects: events for
members (with a revision) and writes to the row. They are delivered under the
gate, so events leave in the order of the revisions. The background task ticks every machine (members lost
by the hub become away, the waiting phase times out, an empty party expires) and
sweeps the schedules that nobody started. After a restart, `boot` recreates the
machine of each live row, paused at the stored position.

Events leave by the hub, which queues a bounded number of frames for each
connection. The party's client applies them by revision and repairs what it sees is
missing with a snapshot. A connection that has a target is also a device that others can
command; each change of the targets is announced to the owner and, by a task that
runs later, to the household.

Every request carries an access token, which a refresh renews. The refresh
token is used once; all tabs of a browser share it in the local storage, each with
a copy in memory, and a revocation closes the session's streams of the hub.

A live channel is opened by the host, which judges the limits of sources and
viewers, and run by the streaming engine, which moves a session to another
source by itself and tells the host afterwards.

### 1.3 What makes them correct

* Machine: the waiting phase exists exactly while waiting and always ends, for
  the reasons the code gives and in the very call that gives them; a member that is away is scheduled for removal, one
  that came back is not; the group ends up in the state it was last asked for;
  what clients see changes only with a new revision; what is stored is where a
  restart must reopen the party.
* Registry: handlers that hold the gate exclude one another although the gate's
  mutex is replaced; an ended party never comes back; machine and row agree on
  what is started and on who is host whenever nobody is writing; an expiry evicts
  nobody and goes by the date as it is now; every call is answered; an abandoned party ends.
* Client of a party: what it shows never steps back; at rest it shows the
  server's party and is bound to its own stream, but for the losses that the
  model names; a rejoin is never forgotten.
* Hub: whoever shows a target list is told of each change of it, also where the
  telling closes further streams, but for the household when the database fails its
  announcement; the newest stream of a device is the one
  registered; what was revoked, replaced or shut down is closed.
* Tokens: a token whose rotation was never heard of is not taken for stolen when it is
  presented again; a session has one usable token; one revoked during a refresh gives at most
  one more, which nobody can rotate; no tab gives up a live session.
* Tuners: a source is never promised beyond its connections nor a user beyond
  the cap; the registry follows the engine, but for what only a resync could repair.

`PROJECT.json` lists under `hazards` the places of the code where these could go
wrong, each at its line, with the properties that watch over it.

## 2. Modules

| module | what it is |
| --- | --- |
| `PartyMachine` | the pure machine: one record `live`, one action per method, a clock in tick periods |
| `GroupPlayback` | the abstract promise of the machine: a mode, a wish, an item and a position; `PartyMachine` implements it |
| `PartyMachineProofs` | the machine's inductive invariant and theorems |
| `PartyPlaybackProofs` | its action properties and its refinement of `GroupPlayback`, proved |
| `PartyRegistry` | the registry, the routes and the background task for one party: row, guests, machine, gate, processes |
| `PartyRegistryProofs` | the registry's inductive invariant and theorems |
| `PartySession` | one client of a party against the server's row, machine and stream |
| `PartySessionProofs` | the client's inductive invariant and theorems |
| `EventHub` | the hub's streams, polled targets, commands and announcements |
| `HubCascade` | the hub's chains of closes as the recursion that the code runs, compared with `EventHub` for TLC |
| `EventHubProofs` | the hub's inductive invariant and theorems |
| `TokenRotation` | refresh tokens: the server's transactions and the tabs of one browser |
| `TokenRotationProofs` | their inductive invariant and theorems |
| `TokenHistoryProofs` | what becomes of the tokens nobody heard of, and of those issued late, proved on top of it |
| `LiveTuners` | the host's holds and viewers of live TV against the engine's events |
| `LiveTunersProofs` | their inductive invariant and theorems |
| `MC...` | constants and symmetry of each for TLC |

### 2.1 PartyMachine and the code

`live` is the struct `Live`. Its fields map to the code as follows: `status`,
`awaySince` and `voice` are the member records; `host`, `policy`, `rev` and
`emptySince` are the room; `state`, `item`, `pos`, `at` and `phase` are the
playback; `state = "lobby"` is `playback: None`. `saved` is what the `Persist`
effects tell the row: the registry only logs a write that fails, so `RowFollowsAnchor` is about what
the machine asks for, not about the database. `alive` is the hub's view of the recorded
connections, and only the tick looks at it. Methods compose as in the code: `Leave` removes the
member, announces, then settles the phase; `AdvanceAfterEnded` idles, then walks.

A refused call changes nothing and is a guard. The data that no property tells
apart is left out: names, chat text, reactions, rate windows, round-trip times
(the start delay is any member of `StartDelay`), the queue (the item a step leads to is
any item or none), the attribution of events. `closed` is terminal here: that
the expiry is judged again under the gate is in `PartyRegistry`.

`ReleaseIsEarned` has two halves. A waiting group plays only when everyone is ready or its time is
over; and after every step a group that still waits has somebody to wait for
(`SomebodyIsAwaited`), so that the call which takes the last unready member out releases it itself
and leaves nothing to the tick. A second report of an item's end, and a step on an older
revision, are refused by one condition each of the machine's own call; the model has them as guards
and claims nothing more of them.

Bounds: `MaxNow` stops the clock, `MaxRev` stops client calls. A bounded clock
really stops, so these runs do not check deadlock.

### 2.2 GroupPlayback

What a member may rely on, without phases, members or clocks: the group plays
exactly when the last accepted play, pause, item change or end says so, and a wait in between
changes neither the wish nor the anchor. `PartyMachine` shows its state as a
refinement: the wish is the phase's target while waiting, otherwise whether it
plays.

### 2.3 PartyRegistry and the code

One party. `row` is its `watch_parties` row, `guest` the `source` of each user's
guest row, `room` the machine in `Inner.live`, `gate` the entry of `Inner.gates`,
`overdue` whether `SCHEDULE_EXPIRY` passed, and `call[p]` what handler `p` is
doing: the step it is at, whom it is about, and what it read before it held the
gate. Each step runs from one await to the next. A handler that needs the gate
first takes the map's mutex (`Ask`), which is made when there is none, then waits for that
very mutex (`Enters`): a handler that asked before an end waits on the old one.
Steps in `Held` follow the first write of a handler that keeps the gate.

`Fault` stops a handler where it is: a database call failed, or the request was
dropped with its client (`requests/flow.rs:431` says that axum drops a handler
whose client left). `faulted` remembers that one was stopped between two writes
under the gate. `Restart` empties memory and runs `boot`.

The expiry of a party, and the sweep of a schedule, are decided before the gate is taken.
`ExpiryFindsNobody` says that whoever the task ends has nobody in it by then, and that a party which
never started is ended at the date it has now, not at one that a reschedule has replaced. A party
whose start was cut between its two writes (`faulted`) is live without having started, and is
excepted from the second half.

Left out: the party is public, so every account may join (`token` still
separates those who must pass the `kicked` check); nobody has the Manage
permission; covers, chat, programme edits, proposals. Bounds: no call begins
once the party ended, nor, unless `GoesOn`, between a cut under the gate and the
restart; those under way go on. A finished party does stop, so these runs do not check deadlock.

### 2.4 PartySession and the code

The client is `party.service.ts`: `inParty` is `party()`, `lastRev`, `needsRejoin`,
`refetchAgain` are its fields, `retry` the timer that a failed rejoin arms, and
`fetch`, `join` the calls under way. `shown` says, for each facet of the party
(playback, members, settings), the revision of the change it shows: that is
all one can compare without contents. A call is served in the steps of its
handler: it reads the row, a join also finds the connection of its device (refused
without one), binds the member under the gate, and reads the machine's view last
(`routes.rs`, `dto`). A settings PATCH is two steps for the same reason. `hub`, `up` and
`wire` are one device's stream: the server may notice a dropped stream late,
a new one evicts the older, and what was on its way is lost.

Three history variables record what no code of the client can see: `owed` (a gap
no snapshot has filled), `missed` (a change was lost that nothing will ask for)
and `deaf` (a reconnection was left to a join that took an older stream). They
are set only where the code makes that loss, so `CurrentUnlessMissed` says that
there is no other way to lose a change. Left out: chat, proposals, the end of
the party, the correction of playback (`party-sync.ts`).

### 2.5 EventHub and the code

`streams` has every stream in the order of its registration; one that is not
`registered` is out of the map of `hub.rs`, one that is `alive` has not yet run its own
`Teardown`. A queue is a number of frames.

A critical section of the hub is the operator `Section`: it closes some streams, sends
each of the others a number of frames and changes some lists. In the code `dispatch` and
`close_locked` call each other: a target that is closed is announced to its owner's
other streams, which may fill one of those and close it in turn. `Closing` is where they
end: the least set that has what was asked for and every stream that does not hold what it is then told
(`Fits`, `Settles`). It does not depend on the order in which the map is walked.
`HubCascade` has the recursion itself, and TLC compares the two on every hub of three
streams (`CascadeIsClosing`). What a client reads while a section runs counts as read before it or after.

`Dispatch` (one frame each) and `CloseAll` are the two uses of `Section`. An action composes them as a
method does, then either announces the evicted owners (`Sends`) or leaves that to
the next one that does (`Leaves`). The hook of `remote/fanout.rs` is a task of
its own (`FansOut`). Its queries may fail, which is only logged (`FansOutFails`): the
household is then given up and stays with what it shows until the next change of that list, so
`EveryChangeIsTold` says nothing of it, while the owner is told in any case. Polled targets, listing, resolution of a target and
delivery of a command are actions too; a command is resolved, then delivered, with
anything in between.

`behind` (which streams were not told of a change of which targets) and `unheard` (a
stream that misses a command which its sender believes delivered) are history.
`late` marks a stream whose request was authenticated before its session was
dropped: the code registers it, and `RevokedIsClosed` excepts just these.
Left out: the contents of a replay, tickets, attribution claims, changes of
grants (and with them the fan-out's cache of grantees), the activity registry.

### 2.6 TokenRotation and the code

`rows` is the table `refresh_tokens` of one account, each with its parent and whether its
consumption is younger than `REUSE_GRACE_MS`. The server's transactions run at
READ COMMITTED: a refresh reads its session when its statement begins
(`RefreshAsks`), waits for the row's lock, then sees the row as committed
(`RefreshDecides`); a revocation takes the tokens it saw when it began and waits for a
refresh that holds one of them. A reuse revokes the session in the same way before it is
answered. A tab is its memory (token, version, the stored session it knows), the
store is what `session-store.service.ts` keeps, `holder` the Web Lock around a
refresh, `notice` the tabs with a pending storage event.

Faults are requests that are no longer heard, before or after the server
decided, a write that storage refuses, and a logout that never reaches
the server. `lossy` names the sessions to which one of them happened, `crossed` those of
a sign-in made while another tab is still in the session before; what is said of a session
(`ReuseMeansLostPair`, `OnlyDeadIsDropped`, `SignInKept`) excepts these and nothing else.
The other histories are of tokens. `lost` has those issued in an answer that no tab heard, because
the request was given up before or after the server decided: `LostAnswerIsForgiven` says that the
token they were to replace is never taken for stolen, in whatever session, by whatever tab and however
late it is presented again. `late` has those issued once their session was revoked, by a refresh
that had read it before (`LateTokenIsLast`), and `reused` those whose reuse revoked a live session.
Left out: a token's expiry, disabled accounts, several accounts on one
browser, native storage, pairing, OIDC, the throttle.

### 2.7 LiveTuners and the code

`hold`, `viewer` and `closing` are `Inner.holds`, `Inner.viewers` and
`Inner.releases` of `livetv/session.rs`; an open is named by the token it mints, and the viewer it
becomes has the same name. `OpenLive` is the critical section of `open`: cap,
verdicts, hold. The request then waits for the engine and may be dropped at
any time (`Cancel`), with or without the engine's having started a session. The engine is external:
it joins a running session or opens an upstream, tries the streams in order,
fails over, ends what idles, restarts. `Free` names the sources with a connection left,
`First` the one that the engine tries first among those the host offers, in the order of the
streams (`InOrder`). Its events reach the host in order by `feed`, which may
break; a resync then lists the sessions, applies the list, and releases what the
list misses, in three steps as `events.rs` does, with opens in between.

The histories name the states that no event repairs until the next resync:
sessions on a source without a hold, viewers or holds entered after their end
was told, sessions whose move the host was never told. The list of a resync does not repair
all: `restore_holds` passes a session over when the channel's streams cannot be loaded or the one that
feeds it is no longer among them. Any subset of the sessions without a hold may be passed over
(`ResyncApplies`); they stay in `uncounted` until a later resync takes them up. Left out: grace periods as times
(`closing` may be pruned at any verdict), modes, heartbeats, recordings,
quality data, several streams of one source.

## 3. Runs

| run | instance | what it shows |
| --- | --- | --- |
| `party_machine` | host and guest on one tab each, two items, two positions, five revisions, three ticks | the invariants, the action properties and the refinement of `GroupPlayback`, with timeouts, away periods and expiry inside the clock's bound; a group is released neither early nor late |
| `party_voice` (violation) | voice cap 1, seven revisions | finding 1 |
| `party_registry` | two accounts, two requests and the task, three mutexes; a call may be cut short at any await, the server may restart at any time; `GoesOn` is false | the gate's exclusion, the agreement of row and machine, also after a restart, a single start, the end is final, no expiry goes by stale data |
| `party_expiry` | one request and the task, fair, no faults | every call is answered, an abandoned party ends |
| `party_host_quits`, `party_cut_end` (violations) | as `party_registry` with `GoesOn`, the first without faults | findings 2 and 3 |
| `party_session` | one client, six revisions, three streams one after the other, one failed call | nothing shown rolls back, the rejoin is pursued, at rest the client is bound and current |
| `party_gap` (violation) | as `party_session`, two streams, no failed call | finding 4 |
| `live_tuners` | two opens of one user, two channels that two sources carry with one connection each, no cap or one viewer, one broken feed or restart, one failover, resyncs that take up any of the sessions without a hold | capacity and cap are kept, the registry follows the engine |
| `live_resync` (violation) | the same with one open | finding 5 |
| `token_rotation` | two tabs, four tokens, two sessions, four requests, one fault (a crossed sign-in is one) | a lost answer is forgiven and no rotation taken for a theft, one usable token, a late token is the last, a live session is not given up |
| `event_hub` | an owner with a target, a tab and a polled target, one household member; queues of one frame and one command, three streams, one request at a time | changes are told through every eviction and beside failed fan-outs, the newest is registered, revocation and shutdown close |

Why the bounds are enough. In the machine each of the three time limits is 2
ticks and the clock runs past each of them, so every order of an answer, a
disconnection and a timeout occurs; two members suffice for "the last one not
ready", two items for a step that skips one. In the registry two concurrent
requests and the task give every pairwise race; the third mutex is what a call needs that
comes after an end while two others wait on the older ones. The client needs three
streams for a reconnection during a rejoin that itself follows one, and its
revisions leave room for a gap, a snapshot and an event that overtakes it. Two
sessions and four requests give a reuse of the first session's token (two rotations,
then the consumed token again) and a sign-in beside it. The last session is revoked
only for a reuse (a bound). While a call was cut under the gate, the invariants of
the registry that say "unless cut" hold trivially, so what `GoesOn` leaves out concerns the
gate alone; the proofs hold for either value.
One broken feed and one failover are enough for either to hit an open before, at or
after its answer. A queue of one frame either has room or is closed by the next frame; three
streams are an owner's device, its replacement and someone who watches both.

A bounded clock, budget or list of tokens is used up and the model then stops, and a
finished party does stop: every run states `CHECK_DEADLOCK FALSE`. That no handler
waits for ever is `CallsAreAnswered`.

Fairness. `Spec` has none; all safety properties are checked under it.
`FairSpec` is for `party_expiry` only. A request's steps are strongly fair: tokio
polls every ready future, and a tokio mutex is served in order, so a
handler that can get it again and again does get it. The task's loop calls the
tick and the sweep at each period (`registry.rs:706-723`), hence strong fairness
of each; a room that stays empty does reach `EMPTY_TTL`. No fairness is assumed
of what people do, nor of faults, restarts or dates.

## 4. Findings

1. `VoiceCap`. The spec says at most `VOICE_MAX` members who are not away are in
   the voice channel. An away member keeps its voice and is not counted; it comes
   back after others filled the channel.
2. `HostIsAdmitted`. `quit` refuses the host before it takes the gate, and drops
   the guest row before it too: a transfer to the same guest in between leaves a
   live party whose host is neither admitted nor in the room.
3. `EndedIsClosed`. When the end is cut short after `set_ended` (a failed write,
   a request dropped with its client), the machine stays and its members are
   never told; a later end sees an ended row and does nothing. A restart
   repairs it, which `EndedIsClosedUnlessCut` shows.
4. `GapIsFilled`. A comment says that the snapshot fills the gap that asked for it
   (`party.service.ts:582`). An event that arrives before the snapshot makes it
   older than `lastRev`; it is dropped (line 423), the next events are
   consecutive, and nothing asks again.
5. `HoldFollowsUpstream`. The spec says that a resync restores which source
   feeds a session (`docs/spec/livetv-sessions.md:57`). For a hold the host
   already has, `restore_holds` (`events.rs:259`) sets only the mode: after a
   failover that was lost with the feed, the hold stays on the source it left.

Two more places where code and words differ have no run. A join whose checks ran
before an end is answered 200 although `mutate` found no machine
(`docs/spec/watch-party.md:164` promises 409); no state is wrong, only the answer. And
`emit_to_connection` says that it returns false when nothing was queued
(`hub.rs:237-238`), but returns true for a stream it has just closed because its queue was
full; `UnheardIsClosed` shows that the device then at least comes back.

## 5. Proofs

`PartyMachineProofs` proves, for every set of users, devices, seats, items and
positions, for every timeout and with no use of the bounds:

* `TypeCorrect`: `Spec => []TypeOK`.
* `PhaseIsNeverLost`: `Spec => []PhaseIsWaiting`.
* `AwayIsBounded`: `Spec => [](AwayIsScheduled /\ AwayEndsInTime)`.
* `TimeLimitsHold`: `Spec => []LimitsAreMet`, the three time limits at once: a waiting
  phase, an absence and an empty party end by the tick after their limit.
* `OnlyEmptyPartiesExpire`: the countdown never runs while a member is
  connected, and expires in time.
* `RowIsCurrent`: `Spec => []RowFollowsAnchor`.

They follow from `Invariance`, the invariance of one inductive invariant: the
conjunction of these properties. None is inductive without the others. That no
countdown outlives its limit needs that the tick of a period saw the member's
removal scheduled; that the expired party is empty needs that a connected member
is present. The proof lays out one lemma per helper (`Announce`, `EnterWaiting`,
`Complete`, `Settle`, `Remove`, `Reap`, `TimeOut`), which says what the helper
does to the invariant's parts, then one step per action that composes them as
the action does.

They assume only `MachineAssumption`. The clock's and the revisions' bounds are guards
of actions, so the theorems hold for every bound.

`PartyRegistryProofs` proves, for every set of users, requests and mutexes, and
with faults and restarts at any await:

* `TypeCorrect`: `Spec => []TypeOK`.
* `GateIsExclusive`: `Spec => []GateExcludes`.
* `EndIsFinal`: `Spec => []EndedIsClosedUnlessCut`.
* `StartedAsStored` and `HostAsStored`: machine and row agree on what is started
  and on the host (`StartedIsLiveUnlessCut`, `HostIsStoredUnlessCut`).
* `NobodyIsEvicted`: `Spec => []ExpiryFindsNobody`, and `ConcurrentStartsStartOnce`:
  `Spec => []StartsOnce`.

Exclusion is what has to be strengthened. "No two handlers hold one mutex" is
trivial and not enough, because an end drops the map's mutex and the next call
makes another. `GateKept` says that while the party is open, or is being closed,
every handler that waits for a mutex or holds one has the map's. From it a handler that has written
under the gate finds itself alone (`HolderAlone`), so each intermediate step of an
end, a start or a transfer may promise what it left half done (`EndCounts`,
`StartCounts`, `TransferCounts`), and nothing else can undo it. The agreement
of machine and row is then an implication that excepts exactly these steps. Faults weaken
the agreement to executions where no handler was stopped between two writes
(`faulted`), and a restart restores it. The proof has one lemma per kind of
step (quiet, gated, takes or drops the gate, makes the machine, goes live, ends,
transfers, faults, restarts), which says what the step does to the invariant, then one
lemma per group of actions that finds the kind of each.
That the task ends a party at its date is an invariant on top of the others (`DateIsOver`): once the task
is ending, it is alone under the gate, so neither a reschedule nor a start follows.

They assume `RegistryAssumption` (what the constants are) and `RoomAssumption`
(no machine is not a machine).

`PartyPlaybackProofs` proves of the machine, from the same invariant:

* `EveryChangeIsRevised`: `Spec => ShownChangeIsRevised`.
* `ReleaseIsNeitherEarlyNorLate`: `Spec => ReleaseIsEarned`.
* `MachineKeepsPromise`: `Spec => GroupKeepsPromise`, that the machine implements
  `GroupPlayback`.

A step is a call that turns the machine's record into another one. So one lemma for each helper
says what it returns, and one for each call that the step is a `GoodStep`: the revision tells of
what clients are shown (`Revised`), a release was earned (`Earned`), and the step is one of
`GroupPlayback` or none. The theorems read this off. That somebody is awaited after each step
is an invariant of its own, with one lemma for each helper that enters, settles or times out the phase
(`EnterWaitingAwaits`, `SettleAwaits`, ...): a call settles as its last act, after the members changed.

`PartySessionProofs` proves for every bound on revisions, streams and failures:

* `TypeCorrect`: `Spec => []TypeOK`.
* `NoRollback`: `Spec => NothingRollsBack`.
* `RejoinIsNeverForgotten`: `Spec => []RejoinIsPursued`.
* `QuietHears`: `Spec => []HearsUnlessDeaf`.
* `QuietIsCurrent`: `Spec => []CurrentUnlessMissed`.

What is shown at rest says nothing of what happens on the way there, so the invariant is about the
way. It has four layers, each proved from those before it. `StreamInv`: what is on the wire is
the newest of the party, revision by revision without a gap. `AnswerInv`: how old an answer
under way may be, compared with the party, with what is shown and with the other answer. `HearInv`: which
connection each join is about to bind, or has bound. `ViewInv`: what is
shown, and what an answer would show, is the party as of its revision, unless a gap is owed or a change
was missed. They assume `SessionAssumption`.

`TokenRotationProofs` proves for every number of tabs, tokens, sessions, requests and
faults:

* `OneTokenPerSession`: `Spec => []OneUsableToken`.
* `NoFalseTheft`: `Spec => []ReuseMeansLostPair`.
* `NoLiveSessionIsDropped`: `Spec => []OnlyDeadIsDropped`.
* `TheLastSignInStays`: `Spec => []SignInKept`.

`Ties` says that whatever a row, request, tab or the storage names exists, and that at most
the holder of the Web Lock has a request in flight. `OneToken` is the server's own: a live session has
exactly one token that is not consumed; it needs nothing of the browser. That a reuse is never
a false alarm needs to know which token the browser will present next: `Newest` says that while
the last sign-in is kept, the storage has the newest pair of its session, each tab is at that pair
or at an older version, and the request in flight presents just the stored token, or its answer is
the newer pair. `Trail` ties the clean live session to that last sign-in. They assume
`RotationAssumption`.

`TokenHistoryProofs` goes on from that invariant, for the same constants:

* `TypeCorrect`: `Spec => []TypeOK`, the histories included.
* `LostAnswersAreForgiven`: `Spec => []LostAnswerIsForgiven`.
* `LateTokensEnd`: `Spec => []LateTokenIsLast`.

`LostInv` says that a token whose answer is lost or still under way is a secret of the server: no
tab, storage or request names it. So it is never used, and the token it came from still counts as a
lost pair when it is presented again. `LateInv` says that a late token stays live and unused: whoever
presents it asked after the revocation and found the session dead. As it is live, and a session has
one live token, there is no second.

`LiveTunersProofs` proves for every number of opens, channels, sources, streams of a
channel, limits and faults:

* `TypeCorrect`: `Spec => []TypeOK`.
* `SourcesStayWithinLimits`: `Spec => []CapacityKept`.
* `ViewersStayWithinCap`: `Spec => []ViewerCapKept`.
* `TheRegistryFollows`: `Spec => []RegistryFollowsEngine`.

What runs cannot be bounded alone: the engine may start one more session for any open it was
sent. The layers `Capacity` and `Viewers` therefore count together what runs and the requests
that may still run, and show that each is behind a hold, or a viewer, that the host counted when it
judged the limit (`HoldsWhileSent`, `FeedsWhereHeld`, `ViewersAreTaken`). They rest on `Base`: what
runs, is told or is known was answered by the engine before. `Follows` says of each thing
that the registry lacks, or has too long, where its repair is: an event in the feed, a step of
the resync under way, the resync to come, or one of the histories that the property excepts (a
session that the resync passes over enters `uncounted` in the same step); and
that of the moves of a session that are still in the feed the last one names its source
(`LastMove`). They assume `TunerAssumption` and `NoneAssumption`.

`EventHubProofs` proves for every number of users, targets, streams and polled targets, every
household, and queues of every length:

* `TypeCorrect`: `Spec => []TypeOK`, where no chain of closes fills a queue beyond its length.
* `NobodyStaysBehind`: `Spec => []EveryChangeIsTold`, with a fan-out that fails at any time.
* `TheNewestStays`: `Spec => []NewestIsRegistered`.
* `RevokedStaysClosed`: `Spec => []RevokedIsClosed`.
* `ShutdownIsComplete`: `Spec => []ShutdownIsFinal`.
* `CommandsAreHeard`: `Spec => []UnheardIsClosed`.

Four lemmas say what a chain closes: the set settles, so nobody left has more than its queue holds
(`ClosingSettles`); it is the least that does (`ClosingIsLeast`); so whoever is closed was asked for
or did overflow (`ClosingHasCause`); and where no frame is sent the chain stays among the
users whose lists change (`ClosingStaysAmong`). They rest on the fact that what a stream is told grows with what is
closed (`AnnouncedGrows`). `SectionStreams` and `SectionTells` then say what a section does to each stream
and to each list, and the invariants are proved from these alone. Two lemmas decide who announces: the targets closed by a
dispatch are all remembered as evicted (`StaleAreEvicted`), so `send` may announce them, while a
close touches only the lists that the caller announces itself (`StaleStaysAmong`), which is
why leaving the evicted to a later `send` is no loss. `EveryChangeIsTold` is inductive only with
`BehindSound`: who is behind is registered and is the owner or of the household, hence is reached by
the announcement under way. The proof assumes `HubAssumption`.

None of these proofs needs a bound to be small: bounds are guards, so the theorems hold for all of
them. (`TypeOK` of the hub states its bound on streams, which `Counted` keeps.)

Only model-checked: liveness (`CallsAreAnswered`, `EmptyPartyEnds`), which is out of the prover's
reach, and `CascadeIsClosing`, which compares a recursion with its result, hence needs an induction
that the prover cannot do: TLC evaluates it on all hubs of three streams. It is an assumption of
`HubCascade` alone, which no proof extends.

## 6. Plan

1. Properties for the hazards of the party's routes that have none: a join that checks the kick and the
   end before it takes the gate, a kick that judges the host on the row it read before the gate, and
   the programme that `ended`, next and previous read before the gate.
2. The proposals and votes of a party, which race the end of an item under the gate that
   `PartyRegistry` has.
3. Of the parts in section 7, the media requests and the job runner.

## 7. Not modelled

* Proposals, votes, programme and cover of a party; chat, reactions and voice signalling.
  They change rows under the gate that `PartyRegistry` already models.
* Media requests, jobs, cleanup, playback progress and presence, the subtitle
  queue. Each has a status or a claim that several actors change; these are the next
  parts worth a module.
* Streaming and the engine: the engine is another program; of its live sessions
  `LiveTuners` models what the host can observe.
* Ingest, importers, metadata, catalogue, sync protocols: long sequential jobs
  over files, HTTP and database rows, with no shared state in memory.
* Parsing, naming, matching and language helpers: pure functions under unit tests.
* Plugins: a JavaScript runtime and its permissions.
* The user interfaces and the native clients.
