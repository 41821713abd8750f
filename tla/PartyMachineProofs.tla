------------------------- MODULE PartyMachineProofs -------------------------
(***************************************************************************)
(* What holds of the watch-party machine for every set of users, devices,  *)
(* items and positions and every value of the delays: the invariants of    *)
(* PartyMachine, proved together because each deadline rests on the phase, *)
(* and the away members, being recorded when they begin.                   *)
(*                                                                         *)
(* The helpers are functions on the machine's record, so their lemmas say  *)
(* what they do to a record: `Sound` is what holds of a record at a time,  *)
(* `Follows` what a call, made of those helpers, may turn it into.         *)
(***************************************************************************)
EXTENDS PartyMachine, TLAPS

PhaseSound(s, t) ==
    /\ s.state = "waiting" <=> s.phase # NoPhase
    /\ s.phase # NoPhase => s.phase.since \in 0 .. t
    /\ s.state = "lobby" <=> s.item = NoItem

AwaySound(s, t) ==
    \A m \in Seat : /\ s.status[m] = "away" <=> s.awaySince[m] # Never
                    /\ s.awaySince[m] <= t

RowSound(s) ==
    s.state # "lobby" => s.saved = [item |-> s.item, pos |-> s.pos]

Sound(s, t) ==
    /\ s \in LiveType
    /\ PhaseSound(s, t)
    /\ AwaySound(s, t)
    /\ RowSound(s)

(* A call never schedules a removal, nor starts or stops a countdown, and  *)
(* a phase it leaves running is the one it found, or starts now.           *)
Follows(s, r, t) ==
    /\ Sound(r, t)
    /\ \A m \in Seat : r.status[m] = "away" =>
         s.status[m] = "away" /\ r.awaySince[m] = s.awaySince[m]
    /\ r.state = "waiting" =>
         \/ r.phase.since = t
         \/ s.state = "waiting" /\ r.phase.since = s.phase.since
    /\ r.emptySince = s.emptySince

(* The inductive invariant: every invariant of PartyMachine. *)
IInv ==
    /\ TypeOK
    /\ PhaseIsWaiting
    /\ AwayIsScheduled
    /\ NoCountdownWhileConnected
    /\ PhaseEndsInTime
    /\ AwayEndsInTime
    /\ EmptyEndsInTime
    /\ RowFollowsAnchor

-----------------------------------------------------------------------------
(* The helpers.                                                             *)

(* A position is a natural number: it never counts before the anchor. *)
LEMMA PositionIsNat ==
    ASSUME NEW s \in LiveType, NEW t \in Nat
    PROVE  PositionAt(s, t) \in Nat
  BY DEF PositionAt, LiveType

(* Calls compose: what one helper leaves, the next one starts from. *)
LEMMA FollowsTransitive ==
    ASSUME NEW t \in Nat, NEW s, NEW r, NEW q,
           Follows(s, r, t), Follows(r, q, t)
    PROVE  Follows(s, q, t)
  BY DEF Follows

LEMMA FollowsReflexive ==
    ASSUME NEW t \in Nat, NEW s, Sound(s, t)
    PROVE  Follows(s, s, t)
  BY DEF Follows

LEMMA BumpFollows ==
    ASSUME NEW t \in Nat, NEW s, Sound(s, t)
    PROVE  Follows(s, Bump(s), t)
  BY DEF Follows, Bump, Sound, LiveType, PhaseSound, AwaySound, RowSound, NoPhase

(* The announced machine may be in any state but playing from the past. *)
LEMMA AnnounceFollows ==
    ASSUME NEW t \in Nat, NEW s \in LiveType, PhaseSound(s, t), AwaySound(s, t),
           s.state = "playing" => s.at >= t
    PROVE  Follows(s, Announce(s, t), t)
  <1> DEFINE r == Announce(s, t)
  <1>1. PositionAt(s, t) = s.pos
    BY DEF PositionAt, LiveType
  <1> DEFINE saved == [item |-> s.item, pos |-> PositionAt(s, t)]
  <1>2. r \in LiveType
    <2>1. saved \in Row
      BY <1>1 DEF LiveType, Row
    <2>2. s.rev + 1 \in Nat
      BY DEF LiveType
    <2>3. r = [s EXCEPT !.rev = s.rev + 1, !.saved = saved]
      BY DEF Announce
    <2> HIDE DEF r, saved
    <2> QED
      BY <2>1, <2>2, <2>3, Zenon DEF LiveType
  <1>3. /\ r.state = s.state /\ r.phase = s.phase /\ r.item = s.item
        /\ r.status = s.status /\ r.awaySince = s.awaySince
        /\ r.emptySince = s.emptySince /\ r.pos = s.pos
    BY DEF Announce, LiveType
  <1>4. RowSound(r)
    BY <1>1 DEF Announce, LiveType, RowSound
  <1>5. PhaseSound(r, t) /\ AwaySound(r, t)
    BY <1>3 DEF PhaseSound, AwaySound
  <1> QED
    BY <1>2, <1>3, <1>4, <1>5 DEF Follows, Sound

LEMMA EnterWaitingFollows ==
    ASSUME NEW t \in Nat, NEW s \in LiveType, PhaseSound(s, t),
           AwaySound(s, t), s.item # NoItem, NEW p \in Nat,
           NEW target \in BOOLEAN
    PROVE  Follows(s, EnterWaiting(s, p, target, t), t)
  <1> DEFINE q == [s EXCEPT
        !.state = "waiting",
        !.pos = p,
        !.at = t,
        !.status = [m \in Seat |-> IF m \in Present(s) THEN "waiting"
                                                       ELSE s.status[m]],
        !.phase = [target |-> IF s.state = "waiting" THEN s.phase.target
                                                     ELSE target,
                   since |-> t]]
  <1>1. q \in LiveType
    <2> DEFINE status == [m \in Seat |-> IF m \in Present(s) THEN "waiting"
                                                           ELSE s.status[m]]
               phase == [target |-> IF s.state = "waiting" THEN s.phase.target
                                                           ELSE target,
                         since |-> t]
    <2>1. status \in [Seat -> MemberStatus \cup {"out"}]
      BY DEF Sound, LiveType, MemberStatus
    <2>2. phase \in Phase
      BY DEF Sound, LiveType, Phase, Time
    <2>3. "waiting" \in State
      BY DEF State
    <2> HIDE DEF status, phase
    <2> QED
      BY <2>1, <2>2, <2>3, Zenon DEF Sound, LiveType, status, phase
  <1>2. PhaseSound(q, t)
    BY DEF Sound, LiveType, PhaseSound, NoPhase, Never
  <1>3. AwaySound(q, t)
    BY DEF Sound, LiveType, AwaySound, Present
  <1>4. Follows(q, Announce(q, t), t)
    BY <1>1, <1>2, <1>3, AnnounceFollows DEF Sound, LiveType
  <1> QED
    BY <1>4, <1>1 DEF Follows, EnterWaiting, Present, Sound, LiveType

(* A released group plays from an instant that has not come yet. *)
LEMMA CompleteFollows ==
    ASSUME NEW t \in Nat, NEW s, Sound(s, t), NEW d \in Nat
    PROVE  Follows(s, Complete(s, t, d), t)
  <1>1. CASE s.phase = NoPhase
    BY <1>1, FollowsReflexive DEF Complete
  <1>2. CASE s.phase # NoPhase
    <2> DEFINE q == [s EXCEPT
            !.state = IF s.phase.target THEN "playing" ELSE "paused",
            !.at = IF s.phase.target THEN t + d ELSE t,
            !.phase = NoPhase]
    <2>1. s.state = "waiting" /\ s.item # NoItem
      BY <1>2 DEF Sound, PhaseSound
    <2>2. q \in LiveType
      <3>1. (IF s.phase.target THEN "playing" ELSE "paused") \in State
        BY DEF State
      <3>2. (IF s.phase.target THEN t + d ELSE t) \in Nat
        OBVIOUS
      <3>3. NoPhase \in Phase
        BY DEF NoPhase, Phase, Time, Never
      <3> QED
        BY <3>1, <3>2, <3>3, Zenon DEF Sound, LiveType
    <2>3. PhaseSound(q, t)
      BY <2>1 DEF Sound, LiveType, PhaseSound
    <2>4. AwaySound(q, t)
      BY DEF Sound, LiveType, AwaySound
    <2>5. Follows(q, Announce(q, t), t)
      <3>1. q.state = "playing" => q.at >= t
        BY DEF Sound, LiveType
      <3> HIDE DEF q
      <3> QED
        BY <2>2, <2>3, <2>4, <3>1, AnnounceFollows
    <2> QED
      BY <1>2, <2>5, <2>2 DEF Follows, Complete, Sound, LiveType
  <1> QED
    BY <1>1, <1>2

LEMMA SettleFollows ==
    ASSUME NEW t \in Nat, NEW s, Sound(s, t), NEW d \in Nat
    PROVE  Follows(s, Settle(s, t, d), t)
  BY CompleteFollows, FollowsReflexive DEF Settle

LEMMA ChangeItemFollows ==
    ASSUME NEW t \in Nat, NEW s \in LiveType, PhaseSound(s, t),
           AwaySound(s, t), s.item # NoItem, NEW i \in Item
    PROVE  Follows(s, ChangeItem(s, i, t), t)
  <1> DEFINE q == [s EXCEPT !.item = i]
  <1>1. q \in LiveType
    BY Zenon DEF LiveType
  <1>2. q.item # NoItem
    BY MachineAssumption DEF LiveType
  <1>3. PhaseSound(q, t) /\ AwaySound(q, t)
    BY <1>2 DEF LiveType, PhaseSound, AwaySound
  <1>4. Follows(q, ChangeItem(s, i, t), t)
    BY <1>1, <1>2, <1>3, MachineAssumption, EnterWaitingFollows DEF ChangeItem
  <1> QED
    BY <1>4 DEF Follows, LiveType

LEMMA IdleFollows ==
    ASSUME NEW t \in Nat, NEW s, Sound(s, t), s.item # NoItem
    PROVE  Follows(s, Idle(s, t), t)
  <1> DEFINE q == [s EXCEPT !.state = "idle", !.pos = PositionAt(s, t),
                            !.at = t, !.phase = NoPhase]
  <1>1. q \in LiveType
    <2>1. PositionAt(s, t) \in Nat
      BY PositionIsNat DEF Sound
    <2>2. NoPhase \in Phase /\ "idle" \in State
      BY DEF NoPhase, Phase, Time, Never, State
    <2> QED
      BY <2>1, <2>2, Zenon DEF Sound, LiveType
  <1>2. PhaseSound(q, t) /\ AwaySound(q, t) /\ q.state = "idle"
    BY DEF Sound, LiveType, PhaseSound, AwaySound
  <1>3. Follows(q, Announce(q, t), t)
    BY <1>1, <1>2, AnnounceFollows
  <1> QED
    BY <1>3, <1>1, <1>2 DEF Follows, Idle, Sound, LiveType

LEMMA WalkFollows ==
    ASSUME NEW t \in Nat, NEW s, Sound(s, t), s.item # NoItem,
           NEW forward \in BOOLEAN, NEW next \in Item \cup {NoItem}
    PROVE  Follows(s, Walk(s, forward, next, t), t)
  <1>1. CASE next # NoItem
    BY <1>1, ChangeItemFollows DEF Walk, Sound
  <1>2. CASE next = NoItem /\ forward /\ s.state # "idle"
    BY <1>2, IdleFollows DEF Walk
  <1>3. CASE next = NoItem /\ ~ (forward /\ s.state # "idle")
    BY <1>3, FollowsReflexive DEF Walk
  <1> QED
    BY <1>1, <1>2, <1>3

LEMMA RemoveFollows ==
    ASSUME NEW t \in Nat, NEW s, Sound(s, t), NEW gone \in SUBSET Seat
    PROVE  Follows(s, Remove(s, gone), t)
  <1> DEFINE status == [m \in Seat |-> IF m \in gone THEN "out" ELSE s.status[m]]
             since == [m \in Seat |-> IF m \in gone THEN Never ELSE s.awaySince[m]]
             r == [s EXCEPT !.status = status, !.awaySince = since,
                            !.voice = s.voice \ gone]
  <1>1. r \in LiveType
    <2>1. status \in [Seat -> MemberStatus \cup {"out"}]
      BY DEF Sound, LiveType
    <2>2. since \in [Seat -> Time]
      BY DEF Sound, LiveType, Time
    <2>3. s.voice \ gone \in SUBSET Seat
      BY DEF Sound, LiveType
    <2> HIDE DEF status, since
    <2> QED
      BY <2>1, <2>2, <2>3, Zenon DEF Sound, LiveType
  <1>2. PhaseSound(r, t) /\ RowSound(r)
    BY DEF Sound, LiveType, PhaseSound, RowSound
  <1>3. AwaySound(r, t)
    BY DEF Sound, LiveType, AwaySound, Never
  <1>4. r = Remove(s, gone)
    BY DEF Remove
  <1>5. /\ r.state = s.state /\ r.phase = s.phase
        /\ r.emptySince = s.emptySince
    BY DEF Sound, LiveType
  <1>6. \A m \in Seat : r.status[m] = "away" =>
          s.status[m] = "away" /\ r.awaySince[m] = s.awaySince[m]
    BY DEF Sound, LiveType
  <1> QED
    BY <1>1, <1>2, <1>3, <1>4, <1>5, <1>6 DEF Follows, Sound

-----------------------------------------------------------------------------
(* What a call leaves.                                                      *)

(* The invariant says of the machine that it is sound now. *)
LEMMA InvariantIsSound ==
    ASSUME IInv
    PROVE  Sound(live, now)
  BY DEF IInv, TypeOK, PhaseIsWaiting, AwayIsScheduled, RowFollowsAnchor, Sound,
         PhaseSound, AwaySound, RowSound

(* The countdown is the only thing a call may do more to than `Follows`. *)
LEMMA CallKeeps ==
    ASSUME IInv, NEW s, Call(s),
           Follows([live EXCEPT !.emptySince = s.emptySince], s, now),
           \/ s.emptySince \in {Never, live.emptySince}
           \/ s.emptySince = now /\ Present(s) = {}
    PROVE  IInv'
  <1> USE DEF IInv
  <1>1. /\ live' = s /\ alive' = alive \cap Members(s)
        /\ now' = now /\ ticked' = ticked /\ closed' = closed /\ ~closed
    BY DEF Call
  <1>2. Sound(s, now)
    BY DEF Follows
  <1>3. \A m \in Seat : s.status[m] = "away" =>
          live.status[m] = "away" /\ s.awaySince[m] = live.awaySince[m]
    BY DEF Follows, TypeOK, LiveType
  <1>4. s.state = "waiting" =>
          \/ s.phase.since = now
          \/ live.state = "waiting" /\ s.phase.since = live.phase.since
    BY DEF Follows, TypeOK, LiveType
  <1>5. alive' \subseteq Present(s)
    BY <1>1, <1>3 DEF AwayIsScheduled, Present, Members
  <1>6. TypeOK'
    BY <1>1, <1>2 DEF TypeOK, Sound
  <1>7. PhaseIsWaiting' /\ RowFollowsAnchor'
    BY <1>1, <1>2 DEF PhaseIsWaiting, RowFollowsAnchor, Sound, PhaseSound, RowSound
  <1>8. AwayIsScheduled'
    BY <1>1, <1>2, <1>5 DEF AwayIsScheduled, Sound, AwaySound, Present
  <1>9. NoCountdownWhileConnected'
    BY <1>1, <1>5 DEF NoCountdownWhileConnected, TypeOK, Never
  <1>10. PhaseEndsInTime'
    BY <1>1, <1>4, MachineAssumption DEF PhaseEndsInTime, TypeOK
  <1>11. AwayEndsInTime'
    BY <1>1, <1>3 DEF AwayEndsInTime
  <1>12. EmptyEndsInTime'
    BY <1>1, MachineAssumption DEF EmptyEndsInTime, TypeOK
  <1> QED
    BY <1>6, <1>7, <1>8, <1>9, <1>10, <1>11, <1>12

COROLLARY FollowingCallKeeps ==
    ASSUME IInv, NEW s, Call(s), Follows(live, s, now)
    PROVE  IInv'
  <1>1. s.emptySince = live.emptySince
    BY DEF Follows
  <1>2. [live EXCEPT !.emptySince = s.emptySince] = live
    BY <1>1 DEF IInv, TypeOK, LiveType
  <1> QED
    BY <1>1, <1>2, CallKeeps

-----------------------------------------------------------------------------
(* Every call keeps the invariant.                                          *)

LEMMA DelayIsNat == \A d \in StartDelay : d \in Nat
  BY MachineAssumption

LEMMA JoinKeeps ==
    ASSUME IInv, NEW m \in Seat, Join(m)
    PROVE  IInv'
  <1> USE DEF IInv
  <1> DEFINE status == IF live.state \in {"lobby", "waiting"}
                       THEN "waiting" ELSE "ready"
             q == [live EXCEPT !.status[m] = status,
                               !.awaySince[m] = Never,
                               !.emptySince = Never]
  <1>1. /\ live' = Bump(q) /\ alive' = alive \cup {m}
        /\ now' = now /\ ticked' = ticked /\ closed' = closed /\ ~closed
    BY DEF Join
  <1>2. q \in LiveType
    <2>1. [live.status EXCEPT ![m] = status] \in [Seat -> MemberStatus \cup {"out"}]
      BY DEF TypeOK, LiveType, MemberStatus
    <2>2. [live.awaySince EXCEPT ![m] = Never] \in [Seat -> Time]
      BY DEF TypeOK, LiveType, Time
    <2>3. Never \in Time
      BY DEF Time
    <2> QED
      BY <2>1, <2>2, <2>3, Zenon DEF TypeOK, LiveType
  <1>3. /\ q.state = live.state /\ q.phase = live.phase /\ q.item = live.item
        /\ q.pos = live.pos /\ q.saved = live.saved /\ q.emptySince = Never
    BY DEF TypeOK, LiveType
  <1>4. /\ q.status[m] \in {"ready", "waiting"} /\ q.awaySince[m] = Never
        /\ \A n \in Seat \ {m} : /\ q.status[n] = live.status[n]
                                 /\ q.awaySince[n] = live.awaySince[n]
    BY DEF TypeOK, LiveType
  <1> HIDE DEF q
  <1>5. Sound(q, now)
    <2>1. PhaseSound(q, now) /\ RowSound(q)
      BY <1>3 DEF PhaseIsWaiting, RowFollowsAnchor, PhaseSound, RowSound
    <2>2. AwaySound(q, now)
      BY <1>4 DEF AwayIsScheduled, AwaySound, TypeOK, Never
    <2> QED
      BY <1>2, <2>1, <2>2 DEF Sound
  <1>6. Follows(q, live', now)
    BY <1>1, <1>5, BumpFollows DEF TypeOK
  <1>7. live'.emptySince = Never
    BY <1>3, <1>6 DEF Follows
  <1>8. live'.status = q.status
    BY <1>1, <1>2 DEF Bump, LiveType
  <1>9. TypeOK'
    BY <1>1, <1>6 DEF Follows, Sound, TypeOK
  <1>10. PhaseIsWaiting' /\ RowFollowsAnchor'
    BY <1>1, <1>6 DEF Follows, Sound, PhaseSound, RowSound, PhaseIsWaiting,
                      RowFollowsAnchor
  <1>11. AwayIsScheduled'
    <2>1. alive' \subseteq Present(live')
      BY <1>1, <1>4, <1>8 DEF AwayIsScheduled, Present
    <2> QED
      BY <1>1, <1>6, <2>1 DEF Follows, Sound, AwaySound, AwayIsScheduled
  <1>12. NoCountdownWhileConnected' /\ EmptyEndsInTime'
    BY <1>1, <1>7 DEF NoCountdownWhileConnected, EmptyEndsInTime, TypeOK, Never
  <1>13. PhaseEndsInTime'
    BY <1>1, <1>3, <1>6, MachineAssumption DEF Follows, PhaseEndsInTime, TypeOK
  <1>14. AwayEndsInTime'
    BY <1>1, <1>4, <1>6, <1>8 DEF Follows, AwayEndsInTime
  <1> QED
    BY <1>9, <1>10, <1>11, <1>12, <1>13, <1>14

(* Leave and Kick: members removed, announced, and the phase settled. *)
LEMMA DepartureFollows ==
    ASSUME IInv, NEW gone \in SUBSET Seat, NEW d \in StartDelay
    PROVE  Follows(live, Settle(Bump(Remove(live, gone)), now, d), now)
  <1>1. Follows(live, Remove(live, gone), now)
    BY InvariantIsSound, RemoveFollows DEF IInv, TypeOK
  <1>2. Follows(Remove(live, gone), Bump(Remove(live, gone)), now)
    BY <1>1, BumpFollows DEF IInv, TypeOK, Follows
  <1>3. Follows(Bump(Remove(live, gone)),
                Settle(Bump(Remove(live, gone)), now, d), now)
    BY <1>2, SettleFollows, DelayIsNat DEF IInv, TypeOK, Follows
  <1> QED
    BY <1>1, <1>2, <1>3, FollowsTransitive DEF IInv, TypeOK

(* The room's fields that no part of the invariant reads. *)
LEMMA RoomFieldFollows ==
    ASSUME IInv, NEW u \in User, NEW y \in Policy, NEW v \in SUBSET Seat
    PROVE  Follows(live, [live EXCEPT !.host = u, !.policy = y, !.voice = v], now)
  <1> DEFINE q == [live EXCEPT !.host = u, !.policy = y, !.voice = v]
  <1>1. q \in LiveType
    BY Zenon DEF IInv, TypeOK, LiveType
  <1>2. /\ q.state = live.state /\ q.phase = live.phase /\ q.item = live.item
        /\ q.pos = live.pos /\ q.saved = live.saved /\ q.status = live.status
        /\ q.awaySince = live.awaySince /\ q.emptySince = live.emptySince
    BY DEF IInv, TypeOK, LiveType
  <1> QED
    BY <1>1, <1>2, InvariantIsSound DEF Follows, Sound, PhaseSound, AwaySound,
                                        RowSound

LEMMA RoomCallKeeps ==
    ASSUME IInv, NEW u \in User, NEW y \in Policy, NEW v \in SUBSET Seat,
           Call(Bump([live EXCEPT !.host = u, !.policy = y, !.voice = v]))
    PROVE  IInv'
  <1> DEFINE q == [live EXCEPT !.host = u, !.policy = y, !.voice = v]
  <1>1. Follows(live, q, now)
    BY RoomFieldFollows
  <1> HIDE DEF q
  <1>2. Follows(q, Bump(q), now)
    BY <1>1, BumpFollows DEF Follows, IInv, TypeOK
  <1> QED
    BY <1>1, <1>2, FollowsTransitive, FollowingCallKeeps DEF IInv, TypeOK, q

LEMMA RoomKeeps ==
    ASSUME IInv
    PROVE  /\ \A m \in Seat : Leave(m) => IInv'
           /\ \A u \in User : Kick(u) \/ Transfer(u) => IInv'
           /\ \A y \in Policy : SetSettings(y) => IInv'
           /\ Programme => IInv'
           /\ \A m \in Seat, joined \in BOOLEAN : SetVoice(m, joined) => IInv'
  <1> USE DEF IInv
  <1> live.host \in User /\ live.policy \in Policy /\ live.voice \in SUBSET Seat
    BY DEF TypeOK, LiveType
  <1>1. ASSUME NEW m \in Seat, Leave(m) PROVE IInv'
    BY <1>1, DepartureFollows, FollowingCallKeeps DEF Leave
  <1>2. ASSUME NEW u \in User, Kick(u) PROVE IInv'
    <2>1. SeatsOf(u) \in SUBSET Seat
      BY DEF SeatsOf
    <2> QED
      BY <1>2, <2>1, DepartureFollows, FollowingCallKeeps DEF Kick
  <1>3. ASSUME NEW u \in User, Transfer(u) PROVE IInv'
    <2>1. [live EXCEPT !.host = u] =
            [live EXCEPT !.host = u, !.policy = live.policy, !.voice = live.voice]
      BY DEF TypeOK, LiveType
    <2> QED
      BY <1>3, <2>1, RoomCallKeeps DEF Transfer
  <1>4. ASSUME NEW y \in Policy, SetSettings(y) PROVE IInv'
    <2>1. [live EXCEPT !.policy = y] =
            [live EXCEPT !.host = live.host, !.policy = y, !.voice = live.voice]
      BY DEF TypeOK, LiveType
    <2> QED
      BY <1>4, <2>1, RoomCallKeeps DEF SetSettings
  <1>5. CASE Programme
    BY <1>5, InvariantIsSound, BumpFollows, FollowingCallKeeps DEF Programme, TypeOK
  <1>6. ASSUME NEW m \in Seat, NEW joined \in BOOLEAN, SetVoice(m, joined)
        PROVE  IInv'
    <2> DEFINE v == IF joined THEN live.voice \cup {m} ELSE live.voice \ {m}
    <2>1. v \in SUBSET Seat
      BY DEF TypeOK, LiveType
    <2>2. [live EXCEPT !.voice = v] =
            [live EXCEPT !.host = live.host, !.policy = live.policy, !.voice = v]
      BY DEF TypeOK, LiveType
    <2>3. Call(Bump([live EXCEPT !.voice = v]))
      BY <1>6 DEF SetVoice
    <2> QED
      BY <2>1, <2>2, <2>3, RoomCallKeeps
  <1> QED
    BY <1>1, <1>2, <1>3, <1>4, <1>5, <1>6

(* Retargeting a phase leaves its timeout alone. *)
LEMMA RetargetFollows ==
    ASSUME IInv, live.state = "waiting", NEW target \in BOOLEAN
    PROVE  Follows(live, [live EXCEPT !.phase.target = target], now)
  <1> DEFINE phase == [live.phase EXCEPT !.target = target]
             q == [live EXCEPT !.phase = phase]
  <1>1. phase \in Phase /\ phase.since = live.phase.since
    BY DEF IInv, TypeOK, LiveType, Phase
  <1>2. phase # NoPhase
    BY <1>1 DEF IInv, PhaseIsWaiting, TypeOK, LiveType, Phase, NoPhase, Never
  <1>3. live.phase # NoPhase
    BY DEF IInv, PhaseIsWaiting
  <1> HIDE DEF phase
  <1>4. q \in LiveType
    BY <1>1, Zenon DEF IInv, TypeOK, LiveType
  <1>5. /\ q.state = live.state /\ q.phase = phase /\ q.item = live.item
        /\ q.pos = live.pos /\ q.saved = live.saved /\ q.status = live.status
        /\ q.awaySince = live.awaySince /\ q.emptySince = live.emptySince
    BY DEF IInv, TypeOK, LiveType
  <1>6. q = [live EXCEPT !.phase.target = target]
    BY DEF phase
  <1> HIDE DEF q
  <1>7. PhaseSound(q, now) /\ AwaySound(q, now) /\ RowSound(q)
    BY <1>1, <1>2, <1>3, <1>5, InvariantIsSound
    DEF Sound, PhaseSound, AwaySound, RowSound
  <1>8. Follows(live, q, now)
    BY <1>1, <1>4, <1>5, <1>7 DEF Follows, Sound
  <1> QED
    BY <1>6, <1>8

(* What plays has an item: everything but the lobby does. *)
LEMMA MayControlHasItem ==
    ASSUME IInv, live.state # "lobby"
    PROVE  live.item # NoItem
  BY DEF IInv, PhaseIsWaiting

LEMMA PlaybackKeeps ==
    ASSUME IInv, NEW m \in Seat
    PROVE  /\ Play(m) \/ Pause(m) => IInv'
           /\ \A base \in Base :
                /\ \A p \in Pos : Seek(m, p, base) => IInv'
                /\ \A i \in Item : SetItem(m, i, base) => IInv'
                /\ \A forward \in BOOLEAN, next \in Item \cup {NoItem} :
                     Advance(m, forward, next, base) => IInv'
  <1> USE DEF IInv
  <1> SUFFICES ASSUME live.state # "lobby"
               PROVE  /\ Play(m) \/ Pause(m) => IInv'
                      /\ \A base \in Base :
                           /\ \A p \in Pos : Seek(m, p, base) => IInv'
                           /\ \A i \in Item : SetItem(m, i, base) => IInv'
                           /\ \A forward \in BOOLEAN, next \in Item \cup {NoItem} :
                                Advance(m, forward, next, base) => IInv'
    BY DEF MayControl, Play, Pause, Seek, SetItem, Advance
  <1>1. Sound(live, now) /\ now \in Nat /\ live \in LiveType /\ live.item # NoItem
    BY InvariantIsSound, MayControlHasItem DEF TypeOK
  <1>2. PhaseSound(live, now) /\ AwaySound(live, now)
    BY <1>1 DEF Sound
  <1>3. live.pos \in Nat
    BY <1>1 DEF LiveType
  <1>4. CASE Play(m)
    BY <1>4, <1>1, <1>2, <1>3, EnterWaitingFollows, RetargetFollows,
       FollowingCallKeeps DEF Play
  <1>5. CASE Pause(m)
    <2>1. CASE live.state = "waiting"
      BY <1>5, <2>1, RetargetFollows, FollowingCallKeeps DEF Pause
    <2>2. CASE live.state = "playing"
      <3> DEFINE q == [live EXCEPT !.state = "paused",
                                   !.pos = PositionAt(live, now), !.at = now]
      <3>1. q \in LiveType
        <4>1. PositionAt(live, now) \in Nat /\ "paused" \in State
          BY <1>1, PositionIsNat DEF State
        <4> QED
          BY <1>1, <4>1, Zenon DEF LiveType
      <3>2. /\ q.state = "paused" /\ q.phase = live.phase /\ q.item = live.item
            /\ q.status = live.status /\ q.awaySince = live.awaySince
            /\ q.emptySince = live.emptySince
        BY <1>1 DEF LiveType
      <3>3. Call(Announce(q, now))
        BY <1>5, <2>2 DEF Pause
      <3> HIDE DEF q
      <3>4. PhaseSound(q, now) /\ AwaySound(q, now)
        BY <2>2, <3>2, <1>2 DEF PhaseSound, AwaySound
      <3>5. Follows(q, Announce(q, now), now)
        BY <1>1, <3>1, <3>2, <3>4, AnnounceFollows
      <3>6. Follows(live, Announce(q, now), now)
        BY <3>2, <3>5 DEF Follows
      <3> QED
        BY <3>3, <3>6, FollowingCallKeeps
    <2> QED
      BY <1>5, <2>1, <2>2 DEF Pause
  <1>6. ASSUME NEW base \in Base, NEW p \in Pos, Seek(m, p, base)
        PROVE  IInv'
    BY <1>6, <1>1, <1>2, MachineAssumption, EnterWaitingFollows, FollowingCallKeeps DEF Seek
  <1>7. ASSUME NEW base \in Base, NEW i \in Item, SetItem(m, i, base)
        PROVE  IInv'
    BY <1>7, <1>1, <1>2, ChangeItemFollows, FollowingCallKeeps DEF SetItem
  <1>8. ASSUME NEW base \in Base, NEW forward \in BOOLEAN,
               NEW next \in Item \cup {NoItem}, Advance(m, forward, next, base)
        PROVE  IInv'
    BY <1>8, <1>1, WalkFollows, FollowingCallKeeps DEF Advance
  <1> QED
    BY <1>4, <1>5, <1>6, <1>7, <1>8

LEMMA EndedKeeps ==
    ASSUME IInv, NEW m \in Seat, NEW seen, NEW from,
           NEW next \in Item \cup {NoItem},
           Ended(m, seen) \/ AdvanceAfterEnded(m, seen, from, next)
    PROVE  IInv'
  <1>1. Sound(live, now) /\ now \in Nat /\ live.item # NoItem
    BY InvariantIsSound, MayControlHasItem
    DEF IInv, TypeOK, Ended, AdvanceAfterEnded, CanEnd
  <1>2. Follows(live, Idle(live, now), now)
    BY <1>1, IdleFollows
  <1>3. CASE Ended(m, seen)
    BY <1>2, <1>3, FollowingCallKeeps DEF Ended
  <1>4. CASE AdvanceAfterEnded(m, seen, from, next)
    <2> DEFINE q == Idle(live, now)
    <2>1. Call(Walk(q, TRUE, next, now))
      BY <1>4 DEF AdvanceAfterEnded
    <2>2. q.item # NoItem
      BY <1>1 DEF Idle, Announce, Sound, LiveType
    <2> HIDE DEF q
    <2>3. Sound(q, now)
      BY <1>2 DEF Follows, q
    <2>4. Follows(q, Walk(q, TRUE, next, now), now)
      BY <1>1, <2>2, <2>3, WalkFollows
    <2> QED
      BY <1>1, <1>2, <2>1, <2>4, FollowsTransitive, FollowingCallKeeps DEF q
  <1> QED
    BY <1>3, <1>4

LEMMA StatusKeeps ==
    ASSUME IInv, NEW m \in Seat, NEW status \in MemberStatus \ {"away"},
           NEW p \in Pos, Status(m, status, p)
    PROVE  IInv'
  <1> USE DEF IInv
  <1> DEFINE far == live.state = "waiting" /\ ~ (p - live.pos \in
                     -ReadyTolerance .. ReadyTolerance)
             new == IF status = "ready" /\ far THEN live.status[m] ELSE status
             q == [live EXCEPT !.status[m] = new, !.awaySince[m] = Never]
             s == IF new = live.status[m] THEN live ELSE Bump(q)
  <1>1. PICK d \in StartDelay : Call(Settle(s, now, d))
    BY DEF Status
  <1>2. Sound(live, now) /\ now \in Nat /\ live \in LiveType
    BY InvariantIsSound DEF TypeOK
  <1> HIDE DEF far
  <1>3. CASE new = live.status[m]
    BY <1>1, <1>2, <1>3, SettleFollows, DelayIsNat, FollowingCallKeeps
  <1>4. CASE new # live.status[m]
    <2>1. new = status
      BY <1>4
    <2> HIDE DEF new
    <2>2. q \in LiveType
      <3>1. [live.status EXCEPT ![m] = new] \in [Seat -> MemberStatus \cup {"out"}]
        BY <1>2, <2>1 DEF LiveType
      <3>2. [live.awaySince EXCEPT ![m] = Never] \in [Seat -> Time]
        BY <1>2 DEF LiveType, Time
      <3> QED
        BY <1>2, <3>1, <3>2, Zenon DEF LiveType
    <2>3. /\ q.state = live.state /\ q.phase = live.phase /\ q.item = live.item
          /\ q.pos = live.pos /\ q.saved = live.saved
          /\ q.emptySince = live.emptySince
          /\ q.status[m] = status /\ q.awaySince[m] = Never
          /\ \A n \in Seat \ {m} : /\ q.status[n] = live.status[n]
                                   /\ q.awaySince[n] = live.awaySince[n]
      BY <1>2, <2>1 DEF LiveType
    <2>4. s = Bump(q)
      BY <1>4
    <2> HIDE DEF q, s
    <2>5. PhaseSound(q, now) /\ RowSound(q)
      BY <1>2, <2>3 DEF Sound, PhaseSound, RowSound
    <2>6. AwaySound(q, now)
      BY <1>2, <2>3 DEF Sound, AwaySound, Never
    <2>7. Follows(live, q, now)
      BY <2>2, <2>3, <2>5, <2>6 DEF Follows, Sound
    <2>8. Follows(q, s, now)
      BY <1>2, <2>4, <2>7, BumpFollows DEF Follows
    <2>9. Follows(s, Settle(s, now, d), now)
      BY <1>2, <2>8, SettleFollows, DelayIsNat DEF Follows
    <2> QED
      BY <1>1, <1>2, <2>7, <2>8, <2>9, FollowsTransitive, FollowingCallKeeps
  <1> QED
    BY <1>3, <1>4

(* The start restarts the countdown of a room that may long be empty. *)
LEMMA GoLiveKeeps ==
    ASSUME IInv, NEW i \in Item, GoLive(i)
    PROVE  IInv'
  <1> USE DEF IInv
  <1> DEFINE since == IF Present(live) = {} THEN now ELSE Never
             q == [live EXCEPT !.emptySince = since, !.state = "idle",
                               !.item = i, !.pos = 0, !.at = now]
             s == IF HostAway(live) THEN Announce(q, now)
                                    ELSE EnterWaiting(q, 0, TRUE, now)
  <1>1. Call(s) /\ live.state = "lobby"
    BY DEF GoLive
  <1>2. now \in Nat /\ live \in LiveType
    BY DEF TypeOK
  <1>3. since \in Time /\ "idle" \in State /\ NoItem \notin Item
    BY <1>2, MachineAssumption DEF Time, State
  <1>4. q \in LiveType
    <2> HIDE DEF since
    <2> QED
      BY <1>2, <1>3, Zenon DEF LiveType
  <1>5. /\ q.state = "idle" /\ q.phase = live.phase /\ q.item = i
        /\ q.status = live.status /\ q.awaySince = live.awaySince
        /\ q.emptySince = since
    BY <1>2 DEF LiveType
  <1> HIDE DEF q
  <1>6. PhaseSound(q, now) /\ AwaySound(q, now)
    BY <1>1, <1>3, <1>5 DEF PhaseIsWaiting, AwayIsScheduled, PhaseSound, AwaySound
  <1>7. Follows(q, s, now)
    BY <1>2, <1>3, <1>4, <1>5, <1>6, AnnounceFollows, EnterWaitingFollows
  <1>8. s.emptySince = since
    BY <1>5, <1>7 DEF Follows
  <1>9. Present(s) = Present(live)
    BY <1>4, <1>5 DEF Announce, EnterWaiting, Present, LiveType
  <1> HIDE DEF s
  <1>10. Follows([live EXCEPT !.emptySince = s.emptySince], s, now)
    BY <1>1, <1>2, <1>5, <1>7, <1>8 DEF Follows, LiveType
  <1> QED
    BY <1>1, <1>8, <1>9, <1>10, CallKeeps

-----------------------------------------------------------------------------
(* The tick.                                                                *)

(* After the reaping every away member is still within its grace, and the  *)
(* connected ones are where they were.                                     *)
LEMMA ReapIsSound ==
    ASSUME IInv
    PROVE  /\ Sound(Reap(live, now), now)
           /\ Reap(live, now).emptySince = live.emptySince
           /\ Reap(live, now).state = live.state
           /\ Reap(live, now).phase = live.phase
           /\ \A m \in Seat : Reap(live, now).status[m] = "away" =>
                now - Reap(live, now).awaySince[m] < AwayGrace
           /\ alive \subseteq Present(Reap(live, now))
  <1> USE DEF IInv
  <1> DEFINE lost == Present(live) \ alive
             since == [m \in Seat |-> IF m \in lost THEN now ELSE live.awaySince[m]]
             gone == {m \in Members(live) :
                        since[m] # Never /\ now - since[m] >= AwayGrace}
             status == [m \in Seat |-> IF m \in lost THEN "away" ELSE live.status[m]]
             marked == [live EXCEPT !.status = status, !.awaySince = since]
             q == Remove(marked, gone)
  <1>1. live \in LiveType /\ now \in Nat /\ Sound(live, now)
    BY InvariantIsSound DEF TypeOK
  <1>2. Reap(live, now) = IF lost \cup gone = {} THEN live ELSE Bump(q)
    BY DEF Reap
  <1>3. \A m \in Seat : /\ status[m] = "away" <=> since[m] # Never
                        /\ since[m] \in Time /\ since[m] <= now
                        /\ status[m] \in MemberStatus \cup {"out"}
                        /\ m \in alive =>
                             status[m] \notin {"away", "out"} /\ since[m] = Never
    BY <1>1 DEF Sound, AwaySound, LiveType, Time, Never, AwayIsScheduled, Present,
                MemberStatus
  <1>4. \A m \in Seat : status[m] = "away" => m \in Members(live)
    BY DEF Present, Members
  <1> HIDE DEF lost
  <1>5. marked \in LiveType
    <2>1. status \in [Seat -> MemberStatus \cup {"out"}] /\ since \in [Seat -> Time]
      BY <1>3
    <2> HIDE DEF status, since
    <2> QED
      BY <1>1, <2>1, Zenon DEF LiveType
  <1>6. /\ marked.state = live.state /\ marked.phase = live.phase
        /\ marked.item = live.item /\ marked.pos = live.pos
        /\ marked.saved = live.saved /\ marked.emptySince = live.emptySince
        /\ marked.status = status /\ marked.awaySince = since
        /\ marked.voice = live.voice
    BY <1>1 DEF LiveType
  <1>7. gone \in SUBSET Seat
    BY DEF Members
  <1> HIDE DEF marked, status, since
  <1>8. Sound(marked, now)
    <2>1. PhaseSound(marked, now) /\ RowSound(marked)
      BY <1>1, <1>6 DEF Sound, PhaseSound, RowSound
    <2>2. AwaySound(marked, now)
      BY <1>3, <1>6 DEF AwaySound
    <2> QED
      BY <1>5, <2>1, <2>2 DEF Sound
  <1>9. \A m \in Seat \ gone : status[m] = "away" => now - since[m] < AwayGrace
    BY <1>1, <1>3, <1>4, MachineAssumption DEF Time, Never
  <1>10. alive \cap gone = {}
    BY <1>3, <1>7
  <1> HIDE DEF gone
  <1>11. Follows(marked, q, now)
    BY <1>1, <1>7, <1>8, RemoveFollows
  <1>12. /\ q.state = live.state /\ q.phase = live.phase
         /\ q.emptySince = live.emptySince
         /\ \A m \in Seat : /\ q.status[m] = IF m \in gone THEN "out" ELSE status[m]
                            /\ q.awaySince[m] = IF m \in gone THEN Never ELSE since[m]
    BY <1>5, <1>6 DEF Remove, LiveType
  <1> HIDE DEF q
  <1>13. Sound(q, now)
    BY <1>11 DEF Follows
  <1>14. Sound(Bump(q), now)
    BY <1>1, <1>13, BumpFollows DEF Follows
  <1>15. /\ Bump(q).state = q.state /\ Bump(q).phase = q.phase
         /\ Bump(q).emptySince = q.emptySince /\ Bump(q).status = q.status
         /\ Bump(q).awaySince = q.awaySince
    BY <1>13 DEF Bump, Sound, LiveType
  <1>16. CASE lost \cup gone = {}
    <2>1. Reap(live, now) = live
      BY <1>2, <1>16
    <2>2. \A m \in Seat : status[m] = live.status[m] /\ since[m] = live.awaySince[m]
      BY <1>16 DEF status, since
    <2>3. \A m \in Seat : live.status[m] = "away" =>
            now - live.awaySince[m] < AwayGrace
      BY <1>9, <1>16, <2>2
    <2> QED
      BY <1>1, <2>1, <2>3 DEF AwayIsScheduled
  <1>17. CASE lost \cup gone # {}
    <2>1. Reap(live, now) = Bump(q)
      BY <1>2, <1>17
    <2>2. \A m \in Seat : q.status[m] = "away" => now - q.awaySince[m] < AwayGrace
      BY <1>9, <1>12
    <2>3. alive \subseteq Seat
      BY DEF TypeOK
    <2>4. alive \subseteq Present(Bump(q))
      BY <1>3, <1>10, <1>12, <1>15, <2>3 DEF Present
    <2> QED
      BY <1>12, <1>14, <1>15, <2>1, <2>2, <2>4
  <1> QED
    BY <1>16, <1>17

(* The tick releases a phase that timed out, so what still waits is young. *)
LEMMA TimeOutFollows ==
    ASSUME NEW t \in Nat, NEW s, Sound(s, t), NEW d \in Nat
    PROVE  /\ Follows(s, TimeOut(s, t, d), t)
           /\ TimeOut(s, t, d).status = s.status
           /\ TimeOut(s, t, d).awaySince = s.awaySince
           /\ TimeOut(s, t, d).state = "waiting" =>
                /\ s.state = "waiting" /\ TimeOut(s, t, d).phase = s.phase
                /\ t - s.phase.since < WaitTimeout
  <1>1. Follows(s, TimeOut(s, t, d), t)
    BY CompleteFollows, FollowsReflexive DEF TimeOut
  <1>2. /\ Complete(s, t, d).status = s.status
        /\ Complete(s, t, d).awaySince = s.awaySince
    BY DEF Complete, Announce, Sound, LiveType
  <1>3. s.state = "waiting" => Complete(s, t, d).state # "waiting"
    BY DEF Complete, Announce, Sound, LiveType, PhaseSound
  <1>4. s.state = "waiting" => s.phase.since \in Nat
    BY DEF Sound, PhaseSound
  <1> QED
    BY <1>1, <1>2, <1>3, <1>4, MachineAssumption DEF TimeOut

LEMMA TickKeeps ==
    ASSUME IInv, Tick
    PROVE  IInv'
  <1> USE DEF IInv
  <1>1. PICK d \in StartDelay :
          live' = CountEmpty(TimeOut(Reap(live, now), now, d), now)
    BY DEF Tick
  <1> DEFINE q == Reap(live, now)
             r == TimeOut(q, now, d)
             empty == IF Present(r) # {} THEN Never
                      ELSE IF r.emptySince = Never THEN now ELSE r.emptySince
  <1>2. /\ live' = [r EXCEPT !.emptySince = empty]
        /\ ticked' = TRUE /\ now' = now /\ now \in Nat
        /\ alive' = alive \cap Members(live')
        /\ closed' = (live'.emptySince # Never /\ now - live'.emptySince >= EmptyTTL)
    BY <1>1 DEF Tick, CountEmpty, TypeOK
  <1>3. /\ Sound(q, now) /\ q.emptySince = live.emptySince
        /\ \A m \in Seat : q.status[m] = "away" => now - q.awaySince[m] < AwayGrace
        /\ alive \subseteq Present(q)
    BY ReapIsSound
  <1> HIDE DEF q
  <1>4. /\ Follows(q, r, now) /\ r.status = q.status /\ r.awaySince = q.awaySince
        /\ r.state = "waiting" => /\ q.state = "waiting" /\ r.phase = q.phase
                                  /\ now - q.phase.since < WaitTimeout
    BY <1>2, <1>3, TimeOutFollows, DelayIsNat
  <1> HIDE DEF r
  <1>5. Sound(r, now) /\ r \in LiveType /\ r.emptySince = live.emptySince
    BY <1>3, <1>4 DEF Follows, Sound
  <1>6. empty \in Time /\ empty <= now
    BY <1>2, <1>5 DEF LiveType, Time, Never, NoCountdownWhileConnected
  <1>7. live' \in LiveType
    <2> HIDE DEF empty
    <2> QED
      BY <1>2, <1>5, <1>6, Zenon DEF LiveType
  <1>8. /\ live'.state = r.state /\ live'.phase = r.phase /\ live'.item = r.item
        /\ live'.pos = r.pos /\ live'.saved = r.saved /\ live'.status = r.status
        /\ live'.awaySince = r.awaySince /\ live'.emptySince = empty
    BY <1>2, <1>5 DEF LiveType
  <1>9. Present(live') = Present(r)
    BY <1>8 DEF Present
  <1>10. alive' \subseteq Present(live')
    BY <1>2, <1>3, <1>4, <1>9 DEF Present
  <1>11. TypeOK'
    BY <1>2, <1>7, <1>10 DEF TypeOK, Present
  <1>12. PhaseIsWaiting' /\ RowFollowsAnchor'
    BY <1>2, <1>5, <1>8 DEF Sound, PhaseSound, RowSound, PhaseIsWaiting,
                            RowFollowsAnchor
  <1>13. AwayIsScheduled'
    BY <1>2, <1>5, <1>8, <1>10 DEF Sound, AwaySound, AwayIsScheduled
  <1>14. NoCountdownWhileConnected'
    BY <1>2, <1>6, <1>8, <1>9, <1>10 DEF NoCountdownWhileConnected
  <1>15. PhaseEndsInTime'
    <2>1. live'.state = "waiting" =>
            live'.phase.since \in Nat /\ now - live'.phase.since < WaitTimeout
      BY <1>3, <1>4, <1>8 DEF Sound, PhaseSound
    <2> QED
      BY <1>2, <2>1, MachineAssumption DEF PhaseEndsInTime
  <1>16. AwayEndsInTime'
    <2>1. \A m \in Seat : live'.status[m] = "away" =>
            live'.awaySince[m] \in Int /\ now - live'.awaySince[m] < AwayGrace
      BY <1>3, <1>4, <1>5, <1>8 DEF LiveType, Time, Never
    <2> QED
      BY <1>2, <2>1, MachineAssumption DEF AwayEndsInTime
  <1>17. EmptyEndsInTime'
    <2>1. closed' => alive' = {}
      BY <1>2, <1>8, <1>9, <1>10
    <2>2. empty \in Int
      BY <1>6 DEF Time, Never
    <2>3. closed' <=> empty # Never /\ now - empty >= EmptyTTL
      BY <1>2, <1>8
    <2>4. live'.emptySince # Never /\ ~closed' =>
            now' - live'.emptySince <= EmptyTTL /\ now' - live'.emptySince < EmptyTTL
      BY <1>2, <1>8, <2>2, <2>3, MachineAssumption
    <2>5. closed' => now' - live'.emptySince >= EmptyTTL
      BY <1>2, <1>8, <2>3
    <2> QED
      BY <2>1, <2>4, <2>5 DEF EmptyEndsInTime
  <1> QED
    BY <1>11, <1>12, <1>13, <1>14, <1>15, <1>16, <1>17

(* A period passes only once its tick ran, so a deadline is met with one   *)
(* period to spare.                                                        *)
LEMMA ClockKeeps ==
    ASSUME IInv, Clock
    PROVE  IInv'
  <1> USE DEF IInv
  <1>1. /\ now' = now + 1 /\ ticked /\ ticked' = FALSE /\ ~closed /\ now \in Nat
        /\ live' = live /\ alive' = alive /\ closed' = closed
    BY DEF Clock, TypeOK
  <1>2. /\ live \in LiveType
        /\ live.phase.since \in Time /\ live.emptySince \in Time
        /\ \A m \in Seat : live.awaySince[m] \in Time
    BY DEF TypeOK, LiveType, Phase
  <1>3. TypeOK' /\ RowFollowsAnchor'
    <2>1. now' \in Nat
      BY <1>1
    <2> QED
      BY <1>1, <2>1, Zenon DEF TypeOK, RowFollowsAnchor
  <1>4. PhaseIsWaiting' /\ PhaseEndsInTime'
    BY <1>1, <1>2, MachineAssumption DEF PhaseIsWaiting, PhaseEndsInTime
  <1>5. AwayIsScheduled' /\ AwayEndsInTime'
    BY <1>1, <1>2, MachineAssumption
    DEF AwayIsScheduled, AwayEndsInTime, Present, Time, Never
  <1>6. NoCountdownWhileConnected' /\ EmptyEndsInTime'
    BY <1>1, <1>2, MachineAssumption
    DEF NoCountdownWhileConnected, EmptyEndsInTime, Time, Never
  <1> QED
    BY <1>3, <1>4, <1>5, <1>6

LEMMA DisconnectKeeps ==
    ASSUME IInv, NEW m \in Seat, Disconnect(m)
    PROVE  IInv'
  BY DEF IInv, Disconnect, TypeOK, PhaseIsWaiting, AwayIsScheduled,
         NoCountdownWhileConnected, PhaseEndsInTime, AwayEndsInTime,
         EmptyEndsInTime, RowFollowsAnchor, Present

-----------------------------------------------------------------------------
(* The theorems.                                                            *)

LEMMA InitEstablishes == Init => IInv
  <1> SUFFICES ASSUME Init PROVE IInv
    OBVIOUS
  <1>1. PICK h \in User, y \in Policy :
          \/ live = NewRoom(h, y, 0)
          \/ \E i \in Item, p \in Pos : live = Boot(h, y, i, p, 0)
    BY DEF Init
  <1>2. PICK state \in {"lobby", "paused"}, i \in Item \cup {NoItem}, p \in Nat :
          /\ state = "lobby" <=> i = NoItem
          /\ live = [status |-> [m \in Seat |-> "out"],
                     awaySince |-> [m \in Seat |-> Never],
                     voice |-> {}, host |-> h, policy |-> y, rev |-> 0,
                     emptySince |-> 0, state |-> state, item |-> i, pos |-> p,
                     at |-> 0, phase |-> NoPhase,
                     saved |-> [item |-> i, pos |-> p]]
    <2>1. CASE live = NewRoom(h, y, 0)
      BY <2>1 DEF NewRoom
    <2>2. CASE \E i \in Item, p \in Pos : live = Boot(h, y, i, p, 0)
      <3>1. PICK i \in Item, p \in Pos : live = Boot(h, y, i, p, 0)
        BY <2>2
      <3>2. i # NoItem /\ p \in Nat
        BY MachineAssumption
      <3>3. live = [status |-> [m \in Seat |-> "out"],
                    awaySince |-> [m \in Seat |-> Never],
                    voice |-> {}, host |-> h, policy |-> y, rev |-> 0,
                    emptySince |-> 0, state |-> "paused", item |-> i, pos |-> p,
                    at |-> 0, phase |-> NoPhase,
                    saved |-> [item |-> i, pos |-> p]]
        BY <3>1, Zenon DEF Boot, NewRoom
      <3> QED
        BY <3>2, <3>3
    <2> QED
      BY <1>1, <2>1, <2>2
  <1>4. live \in LiveType
    <2>1. /\ [m \in Seat |-> "out"] \in [Seat -> MemberStatus \cup {"out"}]
          /\ [m \in Seat |-> Never] \in [Seat -> Time]
          /\ {} \in SUBSET Seat /\ 0 \in Nat /\ 0 \in Time
          /\ state \in State
      BY DEF Time, State
    <2>2. NoPhase \in Phase /\ [item |-> i, pos |-> p] \in Row
      BY DEF NoPhase, Phase, Row, Time
    <2> QED
      BY <1>2, <2>1, <2>2, Zenon DEF LiveType
  <1>5. /\ live.phase = NoPhase /\ live.emptySince = 0 /\ live.state = state
        /\ live.item = i /\ live.pos = p /\ live.saved = [item |-> i, pos |-> p]
        /\ \A m \in Seat : live.status[m] = "out" /\ live.awaySince[m] = Never
    BY <1>2
  <1>6. now = 0 /\ ticked = FALSE /\ alive = {} /\ closed = FALSE
    BY DEF Init
  <1>7. TypeOK
    BY <1>4, <1>6, Zenon, 0 \in Nat DEF TypeOK
  <1>8. PhaseIsWaiting /\ PhaseEndsInTime
    BY <1>2, <1>5 DEF PhaseIsWaiting, PhaseEndsInTime
  <1>9. AwayIsScheduled /\ AwayEndsInTime
    BY <1>5, <1>6 DEF AwayIsScheduled, AwayEndsInTime, Never
  <1>10. NoCountdownWhileConnected /\ EmptyEndsInTime
    BY <1>5, <1>6, MachineAssumption DEF NoCountdownWhileConnected, EmptyEndsInTime
  <1>11. RowFollowsAnchor
    BY <1>5 DEF RowFollowsAnchor
  <1> QED
    BY <1>7, <1>8, <1>9, <1>10, <1>11 DEF IInv

LEMMA StepKeeps == IInv /\ [Next]_vars => IInv'
  <1> SUFFICES ASSUME IInv, [Next]_vars PROVE IInv'
    OBVIOUS
  <1>1. CASE UNCHANGED vars
    BY <1>1 DEF vars, IInv, TypeOK, PhaseIsWaiting, AwayIsScheduled,
       NoCountdownWhileConnected, PhaseEndsInTime, AwayEndsInTime,
       EmptyEndsInTime, RowFollowsAnchor, Present
  <1>2. ASSUME NEW m \in Seat, MemberCall(m)
        PROVE  IInv'
    BY <1>2, JoinKeeps, RoomKeeps, StatusKeeps DEF MemberCall
  <1>3. ASSUME NEW m \in Seat, Control(m)
        PROVE  IInv'
    BY <1>3, PlaybackKeeps, EndedKeeps DEF Control
  <1>4. CASE HostCall
    BY <1>4, RoomKeeps, GoLiveKeeps DEF HostCall
  <1> QED
    BY <1>1, <1>2, <1>3, <1>4, DisconnectKeeps, TickKeeps, ClockKeeps DEF Next

(* The invariants hold in every reachable state of every party. *)
THEOREM Invariance == Spec => []IInv
  BY InitEstablishes, StepKeeps, PTL DEF Spec

(* Every field keeps its type: positions and times never go below zero,    *)
(* whatever the order of pauses, seeks and releases (TypeOK).              *)
THEOREM TypeCorrect == Spec => []TypeOK
  BY Invariance, PTL DEF IInv

(* A party waits exactly while it has a phase (PhaseIsWaiting), and no     *)
(* phase outlives its timeout by more than one tick (PhaseEndsInTime).     *)
THEOREM PhaseIsNeverLost == Spec => [](PhaseIsWaiting /\ PhaseEndsInTime)
  BY Invariance, PTL DEF IInv

(* A member is away exactly while its removal is scheduled, a connected    *)
(* one never is, and an away one is removed in time.                       *)
THEOREM AwayIsBounded == Spec => [](AwayIsScheduled /\ AwayEndsInTime)
  BY Invariance, PTL DEF IInv

(* No party with a connected member is counting down, and a countdown that *)
(* ran out closes the party.                                               *)
THEOREM OnlyEmptyPartiesExpire ==
    Spec => [](NoCountdownWhileConnected /\ EmptyEndsInTime)
  BY Invariance, PTL DEF IInv

(* Every phase, absence and empty party ends by the tick after its limit,  *)
(* for any limits, members and order of calls (LimitsAreMet).              *)
THEOREM TimeLimitsHold == Spec => []LimitsAreMet
  BY Invariance, PTL DEF IInv, LimitsAreMet

(* A restart reopens the party at the anchor its members were last told.   *)
THEOREM RowIsCurrent == Spec => []RowFollowsAnchor
  BY Invariance, PTL DEF IInv

=============================================================================
