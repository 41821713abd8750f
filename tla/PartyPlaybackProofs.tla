------------------------- MODULE PartyPlaybackProofs -------------------------
(***************************************************************************)
(* What a step of the watch-party machine may do, for every set of users,  *)
(* devices, items and positions and every value of the delays: the action  *)
(* properties of PartyMachine, and that the machine implements what        *)
(* GroupPlayback promises.                                                 *)
(*                                                                         *)
(* A step is a call that turns the machine's record into another one, so   *)
(* the lemmas say of each helper what it returns: what the group sees of   *)
(* the playback, who is ready, and whether the revision moved.             *)
(***************************************************************************)
EXTENDS PartyMachineProofs

(* Neither what the group plays, nor what it waits for, changed. *)
SamePlayback(s, r) ==
    r.state = s.state /\ r.item = s.item /\ r.pos = s.pos /\ r.phase = s.phase

(* The revision tells clients of every change they are shown. *)
Revised(s, r) == r.rev >= s.rev /\ (Shown(r) # Shown(s) => r.rev > s.rev)

(* A group that stops waiting is ready, or has waited long enough. *)
Earned(s, r, t) ==
    s.state = "waiting" /\ r.state \in {"playing", "paused"} =>
      \/ \A m \in Seat : r.status[m] \in {"out", "away", "ready"}
      \/ t - s.phase.since >= WaitTimeout

(* What every step of the machine is to be. *)
GoodStep ==
    /\ Revised(live, live')
    /\ Earned(live, live', now)
    /\ Group!Next \/ UNCHANGED Group!vars

-----------------------------------------------------------------------------
(* What the helpers return.                                                 *)

LEMMA BumpReturns ==
    ASSUME NEW s \in LiveType
    PROVE  /\ Bump(s) \in LiveType /\ Bump(s).rev = s.rev + 1
           /\ SamePlayback(s, Bump(s)) /\ Bump(s).status = s.status
  <1>1. s.rev + 1 \in Nat
    BY DEF LiveType
  <1>2. Bump(s) \in LiveType
    BY <1>1, Zenon DEF Bump, LiveType
  <1> QED
    BY <1>2 DEF Bump, LiveType, SamePlayback

LEMMA AnnounceReturns ==
    ASSUME NEW s \in LiveType, NEW t \in Nat
    PROVE  /\ Announce(s, t) \in LiveType /\ Announce(s, t).rev = s.rev + 1
           /\ SamePlayback(s, Announce(s, t)) /\ Announce(s, t).status = s.status
  <1> DEFINE saved == [item |-> s.item, pos |-> PositionAt(s, t)]
  <1>1. saved \in Row
    BY PositionIsNat DEF LiveType, Row
  <1>2. s.rev + 1 \in Nat
    BY DEF LiveType
  <1>3. Announce(s, t) = [s EXCEPT !.rev = s.rev + 1, !.saved = saved]
    BY DEF Announce
  <1> HIDE DEF saved
  <1>4. Announce(s, t) \in LiveType
    BY <1>1, <1>2, <1>3, Zenon DEF LiveType
  <1> QED
    BY <1>3, <1>4 DEF LiveType, SamePlayback

LEMMA EnterWaitingFields ==
    ASSUME NEW s \in LiveType, NEW t \in Nat, NEW p \in Nat, NEW target \in BOOLEAN
    PROVE  LET r == EnterWaiting(s, p, target, t) IN
             /\ r \in LiveType /\ r.rev = s.rev + 1
             /\ r.state = "waiting" /\ r.item = s.item /\ r.pos = p
             /\ r.phase.target = IF s.state = "waiting" THEN s.phase.target
                                                       ELSE target
  <1> DEFINE phase == [target |-> IF s.state = "waiting" THEN s.phase.target
                                                        ELSE target,
                       since |-> t]
             status == [m \in Seat |-> IF m \in Present(s) THEN "waiting"
                                                           ELSE s.status[m]]
             q == [s EXCEPT !.state = "waiting", !.pos = p, !.at = t,
                            !.status = status, !.phase = phase]
  <1>1. status \in [Seat -> MemberStatus \cup {"out"}]
    BY DEF LiveType, MemberStatus
  <1>2. phase \in Phase
    BY DEF LiveType, Phase, Time
  <1>3. "waiting" \in State
    BY DEF State
  <1>4. EnterWaiting(s, p, target, t) = Announce(q, t)
    BY DEF EnterWaiting
  <1> HIDE DEF phase, status
  <1>5. q \in LiveType
    BY <1>1, <1>2, <1>3, Zenon DEF LiveType
  <1>6. /\ q.state = "waiting" /\ q.item = s.item /\ q.pos = p
        /\ q.phase = phase /\ q.rev = s.rev
    BY DEF LiveType
  <1> HIDE DEF q
  <1>7. /\ Announce(q, t) \in LiveType /\ Announce(q, t).rev = q.rev + 1
        /\ SamePlayback(q, Announce(q, t))
    BY <1>5, AnnounceReturns
  <1>8. phase.target = IF s.state = "waiting" THEN s.phase.target ELSE target
    BY Zenon DEF phase
  <1> QED
    BY <1>4, <1>6, <1>7, <1>8 DEF SamePlayback

LEMMA EnterWaitingReturns ==
    ASSUME NEW s \in LiveType, NEW t \in Nat, NEW p \in Nat, NEW target \in BOOLEAN
    PROVE  LET r == EnterWaiting(s, p, target, t) IN
             /\ r \in LiveType /\ r.rev = s.rev + 1
             /\ r.state = "waiting" /\ r.item = s.item /\ r.pos = p
  <1>1. PICK r : r = EnterWaiting(s, p, target, t)
    OBVIOUS
  <1>2. /\ r \in LiveType /\ r.rev = s.rev + 1
        /\ r.state = "waiting" /\ r.item = s.item /\ r.pos = p
    BY <1>1, EnterWaitingFields
  <1> QED
    BY <1>1, <1>2

(* A phase already waiting keeps its target. *)
LEMMA EnterWaitingTarget ==
    ASSUME NEW s \in LiveType, NEW t \in Nat, NEW p \in Nat, NEW target \in BOOLEAN
    PROVE  EnterWaiting(s, p, target, t).phase.target =
             IF s.state = "waiting" THEN s.phase.target ELSE target
  BY EnterWaitingFields

LEMMA ChangeItemReturns ==
    ASSUME NEW s \in LiveType, NEW t \in Nat, NEW i \in Item
    PROVE  LET r == ChangeItem(s, i, t) IN
             /\ r \in LiveType /\ r.rev = s.rev + 1
             /\ r.state = "waiting" /\ r.item = i /\ r.pos = 0
             /\ r.phase.target = IF s.state = "waiting" THEN s.phase.target
                                                       ELSE s.state = "playing"
  <1> DEFINE q == [s EXCEPT !.item = i]
  <1>1. q \in LiveType
    BY Zenon DEF LiveType
  <1>2. /\ q.state = s.state /\ q.phase = s.phase /\ q.item = i /\ q.rev = s.rev
    BY DEF LiveType
  <1> DEFINE playing == s.state = "playing"
  <1>3. ChangeItem(s, i, t) = EnterWaiting(q, 0, playing, t)
    BY DEF ChangeItem
  <1>4. playing \in BOOLEAN
    OBVIOUS
  <1> HIDE DEF q, playing
  <1> DEFINE r == EnterWaiting(q, 0, playing, t)
  <1>5. /\ r \in LiveType /\ r.rev = q.rev + 1
        /\ r.state = "waiting" /\ r.item = q.item /\ r.pos = 0
        /\ r.phase.target = IF q.state = "waiting" THEN q.phase.target ELSE playing
    BY <1>1, <1>4, EnterWaitingFields
  <1> HIDE DEF r
  <1>6. r = ChangeItem(s, i, t)
    BY <1>3 DEF r
  <1> QED
    BY <1>2, <1>5, <1>6, Zenon DEF playing

LEMMA CompleteReturns ==
    ASSUME NEW s \in LiveType, NEW t \in Nat, NEW d \in Nat
    PROVE  LET r == Complete(s, t, d) IN
             \/ s.phase = NoPhase /\ r = s
             \/ /\ r.state = IF s.phase.target THEN "playing" ELSE "paused"
                /\ r.item = s.item /\ r.pos = s.pos /\ r.status = s.status
                /\ r.rev = s.rev + 1
  BY DEF Complete, Announce, LiveType

LEMMA IdleReturns ==
    ASSUME NEW s \in LiveType, NEW t \in Nat
    PROVE  LET r == Idle(s, t) IN
             /\ r \in LiveType /\ r.rev = s.rev + 1
             /\ r.state = "idle" /\ r.item = s.item /\ r.pos = PositionAt(s, t)
  <1> DEFINE q == [s EXCEPT !.state = "idle", !.pos = PositionAt(s, t), !.at = t,
                            !.phase = NoPhase]
  <1>1. q \in LiveType
    <2>1. PositionAt(s, t) \in Nat /\ NoPhase \in Phase /\ "idle" \in State
      BY PositionIsNat DEF NoPhase, Phase, Time, Never, State
    <2> QED
      BY <2>1, Zenon DEF LiveType
  <1>2. /\ q.state = "idle" /\ q.item = s.item /\ q.pos = PositionAt(s, t)
        /\ q.rev = s.rev
    BY DEF LiveType
  <1> HIDE DEF q
  <1>3. Idle(s, t) = Announce(q, t)
    BY DEF Idle, q
  <1> QED
    BY <1>1, <1>2, <1>3, AnnounceReturns DEF SamePlayback

LEMMA PositionIsLater ==
    ASSUME NEW s \in LiveType, NEW t \in Nat
    PROVE  PositionAt(s, t) >= s.pos
  BY DEF PositionAt, LiveType

LEMMA RemoveReturns ==
    ASSUME NEW s \in LiveType, NEW gone \in SUBSET Seat
    PROVE  LET r == Remove(s, gone) IN
             /\ r \in LiveType /\ r.rev = s.rev /\ SamePlayback(s, r)
             /\ \A m \in Seat : r.status[m] = IF m \in gone THEN "out" ELSE s.status[m]
  <1> DEFINE status == [m \in Seat |-> IF m \in gone THEN "out" ELSE s.status[m]]
             since == [m \in Seat |-> IF m \in gone THEN Never ELSE s.awaySince[m]]
             r == [s EXCEPT !.status = status, !.awaySince = since,
                            !.voice = s.voice \ gone]
  <1>1. r = Remove(s, gone)
    BY DEF Remove
  <1>2. r \in LiveType
    <2>1. /\ status \in [Seat -> MemberStatus \cup {"out"}]
          /\ since \in [Seat -> Time] /\ s.voice \ gone \in SUBSET Seat
      BY DEF LiveType, Time
    <2> HIDE DEF status, since
    <2> QED
      BY <2>1, Zenon DEF LiveType
  <1>3. r.rev = s.rev /\ SamePlayback(s, r) /\ r.status = status
    BY DEF LiveType, SamePlayback
  <1>4. \A m \in Seat : status[m] = IF m \in gone THEN "out" ELSE s.status[m]
    OBVIOUS
  <1> HIDE DEF r, status
  <1> QED
    BY <1>1, <1>2, <1>3, <1>4

-----------------------------------------------------------------------------
(* From what a step returns to what it is.                                  *)

(* A step that leaves the playback alone is none of the group's. *)
LEMMA RoomStepIsGood ==
    ASSUME IInv, NEW s \in LiveType, live' = s, SamePlayback(live, s),
           s.rev > live.rev \/ s = live
    PROVE  GoodStep
  <1>1. Revised(live, live')
    BY DEF Revised, IInv, TypeOK, LiveType
  <1>2. Earned(live, live', now)
    BY DEF Earned, SamePlayback
  <1>3. UNCHANGED Group!vars
    BY DEF Group!vars, Wish, SamePlayback
  <1> QED
    BY <1>1, <1>2, <1>3 DEF GoodStep

(* A phase that completes is released as it was asked to be. *)
LEMMA ReleaseIsGood ==
    ASSUME IInv, NEW s \in LiveType, NEW d \in Nat,
           SamePlayback(live, s), s.rev > live.rev \/ s = live,
           s.state = "waiting",
           AllReady(s) \/ now - live.phase.since >= WaitTimeout,
           live'.state = Complete(s, now, d).state,
           live'.item = Complete(s, now, d).item,
           live'.pos = Complete(s, now, d).pos,
           live'.status = Complete(s, now, d).status,
           live'.rev = Complete(s, now, d).rev
    PROVE  GoodStep
  <1>1. live \in LiveType /\ now \in Nat /\ live.state = "waiting"
    BY DEF IInv, TypeOK, SamePlayback
  <1>2. s.phase # NoPhase /\ s.phase = live.phase
    BY <1>1 DEF IInv, PhaseIsWaiting, SamePlayback
  <1>3. /\ live'.state = IF live.phase.target THEN "playing" ELSE "paused"
        /\ live'.item = live.item /\ live'.pos = live.pos
        /\ live'.status = s.status /\ live'.rev = s.rev + 1
    BY <1>1, <1>2, CompleteReturns DEF SamePlayback
  <1>4. Revised(live, live')
    BY <1>1, <1>3 DEF Revised, LiveType
  <1>5. Earned(live, live', now)
    BY <1>3 DEF Earned, AllReady, Present
  <1>6. Group!Next
    <2>1. CASE live.phase.target
      <3>1. Wish /\ Wish' /\ live'.state = "playing"
        BY <1>1, <1>3, <2>1 DEF Wish
      <3>2. Wish' = Wish
        BY <1>1, <1>3, <2>1 DEF Wish, LiveType, Phase
      <3> QED
        BY <1>1, <1>3, <3>1, <3>2 DEF Group!Next, Group!Release, Group!Stays
    <2>2. CASE ~live.phase.target
      <3>1. ~Wish /\ ~Wish' /\ live'.state = "paused"
        BY <1>1, <1>3, <2>2 DEF Wish
      <3>2. Wish' = Wish
        BY <1>1, <1>3, <2>2 DEF Wish, LiveType, Phase
      <3> QED
        BY <1>1, <1>3, <3>1, <3>2 DEF Group!Next, Group!Release, Group!Stays
    <2> QED
      BY <2>1, <2>2
  <1> QED
    BY <1>4, <1>5, <1>6 DEF GoodStep
LEMMA SettleIsGood ==
    ASSUME IInv, NEW s \in LiveType, NEW d \in StartDelay,
           SamePlayback(live, s), s.rev > live.rev \/ s = live,
           live' = Settle(s, now, d)
    PROVE  GoodStep
  <1>1. d \in Nat
    BY DelayIsNat
  <1>2. CASE s.state = "waiting" /\ AllReady(s)
    BY <1>1, <1>2, ReleaseIsGood DEF Settle
  <1>3. CASE ~(s.state = "waiting" /\ AllReady(s))
    BY <1>3, RoomStepIsGood DEF Settle
  <1> QED
    BY <1>2, <1>3

(* A new anchor keeps the wish. *)
LEMMA MoveIsGood ==
    ASSUME IInv, live.state # "lobby", live'.rev = live.rev + 1,
           live'.state = "waiting",
           live'.phase.target = IF live.state = "waiting" THEN live.phase.target
                                                          ELSE live.state = "playing"
    PROVE  GoodStep
  <1>1. live.rev \in Nat
    BY DEF IInv, TypeOK, LiveType
  <1>2. Wish' = Wish
    BY Zenon DEF Wish
  <1>3. Group!Next
    BY <1>2 DEF Group!Next, Group!Move
  <1> QED
    BY <1>1, <1>3 DEF GoodStep, Revised, Earned

LEMMA IdleIsGood ==
    ASSUME IInv, live.state \in {"playing", "paused", "waiting"},
           live' = Idle(live, now)
    PROVE  GoodStep
  <1>1. live \in LiveType /\ now \in Nat
    BY DEF IInv, TypeOK
  <1>2. /\ live'.rev = live.rev + 1 /\ live'.state = "idle"
        /\ live'.item = live.item /\ live'.pos >= live.pos
    BY <1>1, IdleReturns, PositionIsLater
  <1>3. Wish' = FALSE
    BY <1>2 DEF Wish
  <1>4. Group!Next
    BY <1>2, <1>3 DEF Group!Next, Group!End, Group!PlayedOn
  <1> QED
    BY <1>1, <1>2, <1>4 DEF GoodStep, Revised, Earned, LiveType

-----------------------------------------------------------------------------
(* The calls.                                                               *)

LEMMA JoinIsGood ==
    ASSUME IInv, NEW m \in Seat, Join(m)
    PROVE  GoodStep
  <1> DEFINE status == [live.status EXCEPT ![m] =
                          IF live.state \in {"lobby", "waiting"} THEN "waiting"
                                                                 ELSE "ready"]
             since == [live.awaySince EXCEPT ![m] = Never]
             q == [live EXCEPT !.status = status, !.awaySince = since,
                               !.emptySince = Never]
  <1>1. live \in LiveType
    BY DEF IInv, TypeOK
  <1>2. live' = Bump(q)
    BY DEF Join
  <1>3. q \in LiveType
    <2>1. /\ status \in [Seat -> MemberStatus \cup {"out"}]
          /\ since \in [Seat -> Time] /\ Never \in Time
      BY <1>1 DEF LiveType, Time, MemberStatus
    <2> HIDE DEF status, since
    <2> QED
      BY <1>1, <2>1, Zenon DEF LiveType
  <1>4. SamePlayback(live, q) /\ q.rev = live.rev
    BY <1>1 DEF SamePlayback, LiveType
  <1> HIDE DEF q
  <1>5. /\ live' \in LiveType /\ SamePlayback(live, live') /\ live'.rev > live.rev
    BY <1>1, <1>2, <1>3, <1>4, BumpReturns DEF SamePlayback, LiveType
  <1> QED
    BY <1>5, RoomStepIsGood

LEMMA DepartureIsGood ==
    ASSUME IInv, NEW gone \in SUBSET Seat, NEW d \in StartDelay,
           live' = Settle(Bump(Remove(live, gone)), now, d)
    PROVE  GoodStep
  <1> DEFINE r == Remove(live, gone)
  <1>1. live \in LiveType /\ live.rev \in Nat
    BY DEF IInv, TypeOK, LiveType
  <1>2. r \in LiveType /\ r.rev = live.rev /\ SamePlayback(live, r)
    BY <1>1, RemoveReturns
  <1> HIDE DEF r
  <1>3. /\ Bump(r) \in LiveType /\ Bump(r).rev > live.rev
        /\ SamePlayback(live, Bump(r))
    BY <1>1, <1>2, BumpReturns DEF SamePlayback
  <1> QED
    BY <1>3, SettleIsGood DEF r

LEMMA RoomCallIsGood ==
    ASSUME IInv, NEW u \in User, NEW y \in Policy, NEW v \in SUBSET Seat,
           live' = Bump([live EXCEPT !.host = u, !.policy = y, !.voice = v])
    PROVE  GoodStep
  <1> DEFINE q == [live EXCEPT !.host = u, !.policy = y, !.voice = v]
  <1>1. live \in LiveType
    BY DEF IInv, TypeOK
  <1>2. q \in LiveType
    BY <1>1, Zenon DEF LiveType
  <1>3. SamePlayback(live, q) /\ q.rev = live.rev
    BY <1>1 DEF SamePlayback, LiveType
  <1>4. live' = Bump(q)
    OBVIOUS
  <1> HIDE DEF q
  <1>5. /\ live' \in LiveType /\ SamePlayback(live, live') /\ live'.rev > live.rev
    BY <1>1, <1>2, <1>3, <1>4, BumpReturns DEF SamePlayback, LiveType
  <1> QED
    BY <1>5, RoomStepIsGood

LEMMA RoomIsGood ==
    ASSUME IInv
    PROVE  /\ \A m \in Seat : Leave(m) => GoodStep
           /\ \A u \in User : Kick(u) \/ Transfer(u) => GoodStep
           /\ \A y \in Policy : SetSettings(y) => GoodStep
           /\ Programme => GoodStep
           /\ \A m \in Seat, joined \in BOOLEAN : SetVoice(m, joined) => GoodStep
  <1> USE DEF Call
  <1>0. /\ live \in LiveType /\ live.host \in User /\ live.policy \in Policy
        /\ live.voice \in SUBSET Seat
    BY DEF IInv, TypeOK, LiveType
  <1>1. ASSUME NEW m \in Seat, Leave(m) PROVE GoodStep
    BY <1>1, DepartureIsGood DEF Leave
  <1>2. ASSUME NEW u \in User, Kick(u) PROVE GoodStep
    <2>1. SeatsOf(u) \in SUBSET Seat
      BY DEF SeatsOf
    <2> QED
      BY <1>2, <2>1, DepartureIsGood DEF Kick
  <1>3. ASSUME NEW u \in User, Transfer(u) PROVE GoodStep
    <2>1. [live EXCEPT !.host = u] =
            [live EXCEPT !.host = u, !.policy = live.policy, !.voice = live.voice]
      BY <1>0 DEF LiveType
    <2> QED
      BY <1>0, <1>3, <2>1, RoomCallIsGood DEF Transfer
  <1>4. ASSUME NEW y \in Policy, SetSettings(y) PROVE GoodStep
    <2>1. [live EXCEPT !.policy = y] =
            [live EXCEPT !.host = live.host, !.policy = y, !.voice = live.voice]
      BY <1>0 DEF LiveType
    <2> QED
      BY <1>0, <1>4, <2>1, RoomCallIsGood DEF SetSettings
  <1>5. CASE Programme
    <2>1. live = [live EXCEPT !.host = live.host, !.policy = live.policy,
                              !.voice = live.voice]
      BY <1>0 DEF LiveType
    <2>2. live' = Bump([live EXCEPT !.host = live.host, !.policy = live.policy,
                                    !.voice = live.voice])
      BY <1>5, <2>1, Zenon DEF Programme
    <2> QED
      BY <1>0, <2>2, RoomCallIsGood
  <1>6. ASSUME NEW m \in Seat, NEW joined \in BOOLEAN, SetVoice(m, joined)
        PROVE  GoodStep
    <2> DEFINE v == IF joined THEN live.voice \cup {m} ELSE live.voice \ {m}
    <2>1. v \in SUBSET Seat
      BY <1>0
    <2>2. [live EXCEPT !.voice = v] =
            [live EXCEPT !.host = live.host, !.policy = live.policy, !.voice = v]
      BY <1>0 DEF LiveType
    <2>3. live' = Bump([live EXCEPT !.voice = v])
      BY <1>6 DEF SetVoice
    <2> HIDE DEF v
    <2> QED
      BY <1>0, <2>1, <2>2, <2>3, RoomCallIsGood
  <1> QED
    BY <1>1, <1>2, <1>3, <1>4, <1>5, <1>6

LEMMA StatusIsGood ==
    ASSUME IInv, NEW m \in Seat, NEW status \in MemberStatus \ {"away"},
           NEW p \in Pos, Status(m, status, p)
    PROVE  GoodStep
  <1> DEFINE far == live.state = "waiting" /\ ~ (p - live.pos \in
                     -ReadyTolerance .. ReadyTolerance)
             new == IF status = "ready" /\ far THEN live.status[m] ELSE status
             q == [live EXCEPT !.status[m] = new, !.awaySince[m] = Never]
             s == IF new = live.status[m] THEN live ELSE Bump(q)
  <1>1. PICK d \in StartDelay : live' = Settle(s, now, d)
    BY DEF Status, Call
  <1>2. live \in LiveType /\ live.rev \in Nat
    BY DEF IInv, TypeOK, LiveType
  <1> HIDE DEF far
  <1>3. new \in MemberStatus \cup {"out"}
    BY <1>2 DEF LiveType
  <1> HIDE DEF new
  <1>4. q \in LiveType
    <2>1. [live.status EXCEPT ![m] = new] \in [Seat -> MemberStatus \cup {"out"}]
      BY <1>2, <1>3 DEF LiveType
    <2>2. [live.awaySince EXCEPT ![m] = Never] \in [Seat -> Time]
      BY <1>2 DEF LiveType, Time
    <2> QED
      BY <1>2, <2>1, <2>2, Zenon DEF LiveType
  <1>5. SamePlayback(live, q) /\ q.rev = live.rev
    BY <1>2 DEF SamePlayback, LiveType
  <1> HIDE DEF q
  <1>6. /\ s \in LiveType /\ SamePlayback(live, s)
        /\ s.rev > live.rev \/ s = live
    BY <1>2, <1>4, <1>5, BumpReturns DEF SamePlayback
  <1> HIDE DEF s
  <1> QED
    BY <1>1, <1>6, SettleIsGood

(* While it waits, play and pause change the wish and nothing else. *)
LEMMA RetargetReturns ==
    ASSUME NEW s \in LiveType, NEW target \in BOOLEAN
    PROVE  LET r == [s EXCEPT !.phase.target = target] IN
             /\ r.rev = s.rev /\ Shown(r) = Shown(s)
             /\ r.state = s.state /\ r.item = s.item /\ r.pos = s.pos
             /\ r.phase.target = target
  <1> DEFINE phase == [s.phase EXCEPT !.target = target]
             r == [s EXCEPT !.phase = phase]
  <1>1. phase.target = target
    BY DEF LiveType, Phase
  <1> HIDE DEF phase
  <1>2. /\ r.rev = s.rev /\ r.state = s.state /\ r.item = s.item /\ r.pos = s.pos
        /\ r.status = s.status /\ r.voice = s.voice /\ r.host = s.host
        /\ r.policy = s.policy /\ r.at = s.at /\ r.phase = phase
    BY DEF LiveType
  <1>3. [s EXCEPT !.phase.target = target] = r
    BY DEF phase
  <1> HIDE DEF r
  <1> QED
    BY <1>1, <1>2, <1>3 DEF Shown

LEMMA PlayIsGood ==
    ASSUME IInv, NEW m \in Seat, Play(m)
    PROVE  GoodStep
  <1>1. live \in LiveType /\ now \in Nat /\ live.pos \in Nat /\ live.rev \in Nat
    BY DEF IInv, TypeOK, LiveType
  <1>2. CASE live.state \in {"idle", "paused"} /\ Call(EnterWaiting(live, live.pos, TRUE, now))
    <2>1. /\ live'.rev = live.rev + 1 /\ live'.state = "waiting"
          /\ live'.item = live.item /\ live'.pos = live.pos
          /\ live'.phase.target = TRUE
      <3>1. live' = EnterWaiting(live, live.pos, TRUE, now)
        BY <1>2 DEF Call
      <3>2. live'.phase.target = IF live.state = "waiting" THEN live.phase.target
                                                           ELSE TRUE
        BY <1>1, <3>1, EnterWaitingTarget, Zenon
      <3>3. live'.phase.target = TRUE
        BY <1>2, <3>2
      <3> QED
        <4>1. live'.rev = live.rev + 1 /\ live'.state = "waiting"
          BY <1>1, <3>1 DEF EnterWaiting, Announce, LiveType
        <4>2. live'.item = live.item /\ live'.pos = live.pos
          BY <1>1, <3>1 DEF EnterWaiting, Announce, LiveType
        <4> QED
          BY <3>3, <4>1, <4>2
    <2>2. Wish' = TRUE
      BY <2>1 DEF Wish
    <2>3. Group!Next
      BY <1>2, <2>1, <2>2 DEF Group!Next, Group!AskPlay, Group!Stays
    <2> QED
      BY <1>1, <1>2, <2>1, <2>3 DEF GoodStep, Revised, Earned
  <1>3. CASE live.state = "waiting" /\ Call([live EXCEPT !.phase.target = TRUE])
    <2>1. /\ live'.rev = live.rev /\ Shown(live') = Shown(live)
          /\ live'.state = "waiting" /\ live'.item = live.item
          /\ live'.pos = live.pos /\ live'.phase.target = TRUE
      BY <1>1, <1>3, RetargetReturns DEF Call
    <2>2. Wish' = TRUE
      BY <2>1 DEF Wish
    <2>3. Group!Next
      BY <1>3, <2>1, <2>2 DEF Group!Next, Group!AskPlay, Group!Stays
    <2> QED
      BY <1>1, <2>1, <2>3 DEF GoodStep, Revised, Earned
  <1> QED
    BY <1>2, <1>3 DEF Play

LEMMA PauseIsGood ==
    ASSUME IInv, NEW m \in Seat, Pause(m)
    PROVE  GoodStep
  <1>1. live \in LiveType /\ now \in Nat /\ live.rev \in Nat
    BY DEF IInv, TypeOK, LiveType
  <1> DEFINE q == [live EXCEPT !.state = "paused", !.pos = PositionAt(live, now),
                               !.at = now]
  <1>2. CASE live.state = "playing" /\ Call(Announce(q, now))
    <2>1. q \in LiveType
      <3>1. PositionAt(live, now) \in Nat /\ "paused" \in State
        BY <1>1, PositionIsNat DEF State
      <3> QED
        BY <1>1, <3>1, Zenon DEF LiveType
    <2>2. /\ q.state = "paused" /\ q.item = live.item /\ q.rev = live.rev
          /\ q.pos = PositionAt(live, now)
      BY <1>1 DEF LiveType
    <2> HIDE DEF q
    <2>3. /\ live'.rev = live.rev + 1 /\ live'.state = "paused"
          /\ live'.item = live.item /\ live'.pos >= live.pos
      <3>1. live' = Announce(q, now)
        BY <1>2 DEF Call
      <3> QED
        <4>1. SamePlayback(q, live') /\ live'.rev = q.rev + 1
          BY <1>1, <2>1, <3>1, AnnounceReturns, Zenon
        <4> QED
          BY <1>1, <2>2, <4>1, PositionIsLater DEF SamePlayback
    <2>4. Wish' = FALSE
      BY <2>3 DEF Wish
    <2>5. Group!Next
      BY <1>2, <2>3, <2>4 DEF Group!Next, Group!AskPause, Group!PlayedOn
    <2> QED
      BY <1>1, <1>2, <2>3, <2>5 DEF GoodStep, Revised, Earned
  <1>3. CASE live.state = "waiting" /\ Call([live EXCEPT !.phase.target = FALSE])
    <2>1. /\ live'.rev = live.rev /\ Shown(live') = Shown(live)
          /\ live'.state = "waiting" /\ live'.item = live.item
          /\ live'.pos = live.pos /\ live'.phase.target = FALSE
      BY <1>1, <1>3, RetargetReturns DEF Call
    <2>2. Wish' = FALSE
      BY <2>1 DEF Wish
    <2>3. Group!Next
      BY <1>3, <2>1, <2>2 DEF Group!Next, Group!AskPause, Group!Stays
    <2> QED
      BY <1>1, <2>1, <2>3 DEF GoodStep, Revised, Earned
  <1> QED
    BY <1>2, <1>3 DEF Pause

LEMMA SeekIsGood ==
    ASSUME IInv, NEW m \in Seat, NEW p \in Pos, NEW base, Seek(m, p, base)
    PROVE  GoodStep
  <1> DEFINE playing == live.state = "playing"
  <1>1. live \in LiveType /\ now \in Nat /\ p \in Nat /\ live.state # "lobby"
    BY MachineAssumption DEF IInv, TypeOK, Seek, MayControl
  <1>2. live' = EnterWaiting(live, p, playing, now)
    BY DEF Seek, Call
  <1>3. playing \in BOOLEAN
    OBVIOUS
  <1> HIDE DEF playing
  <1>4. /\ live'.rev = live.rev + 1 /\ live'.state = "waiting"
        /\ live'.phase.target = IF live.state = "waiting" THEN live.phase.target
                                                          ELSE playing
    <2>1. live'.rev = live.rev + 1 /\ live'.state = "waiting"
      BY <1>1, <1>2, <1>3, EnterWaitingReturns
    <2>2. live'.phase.target = IF live.state = "waiting" THEN live.phase.target
                                                         ELSE playing
      BY <1>1, <1>2, <1>3, EnterWaitingTarget, Zenon
    <2> QED
      BY <2>1, <2>2
  <1> QED
    BY <1>1, <1>4, MoveIsGood, Zenon DEF playing

LEMMA ChangeIsGood ==
    ASSUME IInv, live.state # "lobby", NEW i \in Item, live' = ChangeItem(live, i, now)
    PROVE  GoodStep
  <1>1. live \in LiveType /\ now \in Nat
    BY DEF IInv, TypeOK
  <1>2. /\ live'.rev = live.rev + 1 /\ live'.state = "waiting"
        /\ live'.phase.target = IF live.state = "waiting" THEN live.phase.target
                                                          ELSE live.state = "playing"
    BY <1>1, ChangeItemReturns, Zenon
  <1> QED
    BY <1>1, <1>2, MoveIsGood, Zenon

LEMMA AdvanceIsGood ==
    ASSUME IInv, NEW m \in Seat, NEW forward \in BOOLEAN,
           NEW next \in Item \cup {NoItem}, NEW base, Advance(m, forward, next, base)
    PROVE  GoodStep
  <1>1. /\ live.state # "lobby" /\ live' = Walk(live, forward, next, now)
        /\ live \in LiveType
    BY DEF Advance, MayControl, Call, IInv, TypeOK
  <1>2. CASE next # NoItem
    BY <1>1, <1>2, ChangeIsGood DEF Walk
  <1>3. CASE next = NoItem /\ forward /\ live.state # "idle"
    <2>1. live.state \in {"playing", "paused", "waiting"}
      BY <1>1, <1>3 DEF LiveType, State
    <2> QED
      BY <1>1, <1>3, <2>1, IdleIsGood DEF Walk
  <1>4. CASE next = NoItem /\ ~(forward /\ live.state # "idle")
    BY <1>1, <1>4, RoomStepIsGood DEF Walk, SamePlayback
  <1> QED
    BY <1>2, <1>3, <1>4

(* The queue moves on after an item ended, and waits for a new play. *)
LEMMA EndedIsGood ==
    ASSUME IInv, NEW m \in Seat, NEW seen
    PROVE  /\ Ended(m, seen) => GoodStep
           /\ \A from \in Item, next \in Item \cup {NoItem} :
                AdvanceAfterEnded(m, seen, from, next) => GoodStep
  <1>1. live \in LiveType /\ now \in Nat /\ live.rev \in Nat
    BY DEF IInv, TypeOK, LiveType
  <1>2. ASSUME Ended(m, seen) PROVE GoodStep
    BY <1>2, IdleIsGood DEF Ended, CanEnd, Call
  <1>3. ASSUME NEW from \in Item, NEW next \in Item \cup {NoItem},
               AdvanceAfterEnded(m, seen, from, next)
        PROVE  GoodStep
    <2> DEFINE q == Idle(live, now)
    <2>1. /\ live.state \in {"playing", "paused"}
          /\ live' = Walk(q, TRUE, next, now)
      BY <1>3 DEF AdvanceAfterEnded, CanEnd, Call
    <2>2. q \in LiveType /\ q.rev = live.rev + 1 /\ q.state = "idle"
      BY <1>1, IdleReturns
    <2>3. CASE next = NoItem
      <3>1. live' = q
        BY <2>1, <2>2, <2>3 DEF Walk
      <3> QED
        BY <2>1, <3>1, IdleIsGood
    <2>4. CASE next # NoItem
      <3> HIDE DEF q
      <3>1. next \in Item /\ live' = ChangeItem(q, next, now)
        BY <2>1, <2>4 DEF Walk
      <3>2. /\ live'.rev = q.rev + 1 /\ live'.state = "waiting" /\ live'.pos = 0
            /\ live'.phase.target = FALSE
        <4>1. live'.phase.target = IF q.state = "waiting" THEN q.phase.target
                                                          ELSE q.state = "playing"
          BY <1>1, <2>2, <3>1, ChangeItemReturns, Zenon
        <4>2. live'.phase.target = FALSE
          BY <2>2, <4>1
        <4> QED
          BY <1>1, <2>2, <3>1, <4>2, ChangeItemReturns
      <3>3. Wish' = FALSE
        BY <3>2 DEF Wish
      <3>4. Group!Next
        BY <2>1, <3>2, <3>3 DEF Group!Next, Group!EndAndMove
      <3> QED
        <4>1. Revised(live, live')
          BY <1>1, <2>2, <3>2 DEF Revised
        <4> QED
          BY <2>1, <3>2, <3>4, <4>1 DEF GoodStep, Earned
    <2> QED
      BY <2>3, <2>4
  <1> QED
    BY <1>2, <1>3

LEMMA GoLiveIsGood ==
    ASSUME IInv, NEW i \in Item, GoLive(i)
    PROVE  GoodStep
  <1> DEFINE since == IF Present(live) = {} THEN now ELSE Never
             q == [live EXCEPT !.emptySince = since, !.state = "idle", !.item = i,
                               !.pos = 0, !.at = now]
  <1>1. /\ live \in LiveType /\ now \in Nat /\ live.rev \in Nat
        /\ live.state = "lobby"
    BY DEF IInv, TypeOK, LiveType, GoLive
  <1>2. live' = IF HostAway(live) THEN Announce(q, now)
                                  ELSE EnterWaiting(q, 0, TRUE, now)
    BY DEF GoLive, Call
  <1>3. q \in LiveType
    <2>1. since \in Time /\ "idle" \in State /\ 0 \in Nat
      BY <1>1 DEF Time, State
    <2> HIDE DEF since
    <2> QED
      BY <1>1, <2>1, Zenon DEF LiveType
  <1>4. q.state = "idle" /\ q.pos = 0 /\ q.rev = live.rev
    BY <1>1 DEF LiveType
  <1> HIDE DEF q
  <1>5. CASE HostAway(live)
    <2>1. live'.rev = live.rev + 1 /\ live'.state = "idle" /\ live'.pos = 0
      <3>1. SamePlayback(q, live') /\ live'.rev = q.rev + 1
        BY <1>1, <1>2, <1>3, <1>5, AnnounceReturns, Zenon
      <3> QED
        BY <1>4, <3>1 DEF SamePlayback
    <2>2. Wish' = FALSE
      BY <2>1 DEF Wish
    <2>3. Group!Next
      BY <1>1, <2>1, <2>2 DEF Group!Next, Group!Start
    <2> QED
      BY <1>1, <2>1, <2>3 DEF GoodStep, Revised, Earned
  <1>6. CASE ~HostAway(live)
    <2>1. /\ live'.rev = live.rev + 1 /\ live'.state = "waiting" /\ live'.pos = 0
          /\ live'.phase.target = TRUE
      <3> DEFINE r == EnterWaiting(q, 0, TRUE, now)
      <3>1. r.rev = q.rev + 1 /\ r.state = "waiting" /\ r.pos = 0
        <4>1. \A target \in BOOLEAN :
                LET e == EnterWaiting(q, 0, target, now) IN
                  e.rev = q.rev + 1 /\ e.state = "waiting" /\ e.pos = 0
          BY <1>1, <1>3, EnterWaitingReturns
        <4> QED
          BY <4>1, TRUE \in BOOLEAN, Zenon
      <3>2. r.phase.target = IF q.state = "waiting" THEN q.phase.target ELSE TRUE
        BY <1>1, <1>3, EnterWaitingTarget, 0 \in Nat, Zenon
      <3>3. r.phase.target = TRUE
        BY <1>4, <3>2
      <3>4. live' = r
        BY <1>2, <1>6
      <3> HIDE DEF r
      <3> QED
        BY <1>4, <3>1, <3>3, <3>4
    <2>2. Wish' = TRUE
      BY <2>1 DEF Wish
    <2>3. Group!Next
      BY <1>1, <2>1, <2>2 DEF Group!Next, Group!Start
    <2> QED
      BY <1>1, <2>1, <2>3 DEF GoodStep, Revised, Earned
  <1> QED
    BY <1>5, <1>6

-----------------------------------------------------------------------------
(* The tick.                                                                *)

LEMMA ReapReturns ==
    ASSUME IInv
    PROVE  LET r == Reap(live, now) IN
             /\ r \in LiveType /\ SamePlayback(live, r)
             /\ r.rev > live.rev \/ r = live
  <1> DEFINE lost == Present(live) \ alive
             since == [m \in Seat |-> IF m \in lost THEN now ELSE live.awaySince[m]]
             gone == {m \in Members(live) :
                        since[m] # Never /\ now - since[m] >= AwayGrace}
             status == [m \in Seat |-> IF m \in lost THEN "away" ELSE live.status[m]]
             marked == [live EXCEPT !.status = status, !.awaySince = since]
             q == Remove(marked, gone)
  <1>1. live \in LiveType /\ now \in Nat /\ live.rev \in Nat
    BY DEF IInv, TypeOK, LiveType
  <1>2. Reap(live, now) = IF lost \cup gone = {} THEN live ELSE Bump(q)
    BY DEF Reap
  <1>3. gone \in SUBSET Seat
    BY DEF Members
  <1>4. marked \in LiveType
    <2>1. /\ status \in [Seat -> MemberStatus \cup {"out"}]
          /\ since \in [Seat -> Time]
      BY <1>1 DEF LiveType, MemberStatus, Time
    <2> HIDE DEF status, since
    <2> QED
      BY <1>1, <2>1, Zenon DEF LiveType
  <1>5. SamePlayback(live, marked) /\ marked.rev = live.rev
    BY <1>1 DEF LiveType, SamePlayback
  <1> HIDE DEF gone, marked
  <1>6. q \in LiveType /\ q.rev = live.rev /\ SamePlayback(live, q)
    BY <1>3, <1>4, <1>5, RemoveReturns DEF SamePlayback
  <1> HIDE DEF q
  <1>7. /\ Bump(q) \in LiveType /\ Bump(q).rev > live.rev
        /\ SamePlayback(live, Bump(q))
    BY <1>1, <1>6, BumpReturns DEF SamePlayback
  <1> QED
    BY <1>1, <1>2, <1>7 DEF SamePlayback

(* The countdown is not shown, so starting it takes no revision. *)
LEMMA TickIsGood ==
    ASSUME IInv, Tick
    PROVE  GoodStep
  <1>1. PICK d \in StartDelay :
          live' = CountEmpty(TimeOut(Reap(live, now), now, d), now)
    BY DEF Tick
  <1> DEFINE q == Reap(live, now)
             r == TimeOut(q, now, d)
  <1>2. /\ q \in LiveType /\ SamePlayback(live, q)
        /\ q.rev > live.rev \/ q = live
        /\ live \in LiveType /\ now \in Nat /\ d \in Nat /\ live.rev \in Nat
    BY ReapReturns, DelayIsNat DEF IInv, TypeOK, LiveType
  <1>3. Follows(q, r, now)
    BY <1>2, ReapIsSound, TimeOutFollows
  <1>4. r \in LiveType
    BY <1>3 DEF Follows, Sound
  <1>5. /\ live'.state = r.state /\ live'.item = r.item /\ live'.pos = r.pos
        /\ live'.status = r.status /\ live'.rev = r.rev /\ live'.phase = r.phase
        /\ Shown(live') = Shown(r)
    <2> HIDE DEF r
    <2> QED
      BY <1>1, <1>4 DEF LiveType, CountEmpty, Shown, r
  <1> HIDE DEF q
  <1>6. CASE q.state = "waiting" /\ (AllReady(q) \/ now - q.phase.since >= WaitTimeout)
    <2>1. r = Complete(q, now, d)
      BY <1>6 DEF TimeOut
    <2> HIDE DEF r
    <2> QED
      BY <1>2, <1>5, <1>6, <2>1, ReleaseIsGood DEF SamePlayback
  <1>7. CASE ~(q.state = "waiting" /\ (AllReady(q) \/ now - q.phase.since >= WaitTimeout))
    <2>1. r = q
      BY <1>7 DEF TimeOut
    <2>2. SamePlayback(live, live')
      BY <1>2, <1>5, <2>1 DEF SamePlayback
    <2>3. Revised(live, live')
      <3>1. Shown(live') = Shown(q) /\ live'.rev = q.rev
        BY <1>5, <2>1
      <3> QED
        BY <1>2, <3>1 DEF Revised, LiveType
    <2>4. Earned(live, live', now) /\ UNCHANGED Group!vars
      BY <2>2 DEF Earned, SamePlayback, Group!vars, Wish
    <2> QED
      BY <2>3, <2>4 DEF GoodStep
  <1> QED
    BY <1>6, <1>7

-----------------------------------------------------------------------------
(* Who is waited for.                                                       *)

Awaits(s) ==
    s.state = "waiting" =>
        Present(s) = {} \/ \E m \in Present(s) : s.status[m] # "ready"

(* Whoever is present when a phase begins has yet to load. *)
LEMMA EnterWaitingAwaits ==
    ASSUME NEW s \in LiveType, NEW t, NEW p, NEW target
    PROVE  Awaits(EnterWaiting(s, p, target, t))
  <1> DEFINE status == [m \in Seat |-> IF m \in Present(s) THEN "waiting"
                                                           ELSE s.status[m]]
  <1>1. PICK r : r = EnterWaiting(s, p, target, t)
    OBVIOUS
  <1>2. r.status = status
    BY <1>1 DEF EnterWaiting, Announce, LiveType
  <1>3. \A m \in Present(r) : r.status[m] = "waiting"
    BY <1>2 DEF Present
  <1> QED
    BY <1>1, <1>3 DEF Awaits

LEMMA ChangeItemAwaits ==
    ASSUME NEW s \in LiveType, NEW t, NEW i \in Item
    PROVE  Awaits(ChangeItem(s, i, t))
  <1>1. PICK q : q = [s EXCEPT !.item = i]
    OBVIOUS
  <1>2. q \in LiveType
    BY <1>1, Zenon DEF LiveType
  <1>3. PICK playing : playing = (s.state = "playing")
    OBVIOUS
  <1>4. ChangeItem(s, i, t) = EnterWaiting(q, 0, playing, t)
    BY <1>1, <1>3 DEF ChangeItem
  <1> QED
    BY <1>2, <1>4, EnterWaitingAwaits

(* A call that settles, and the tick, release a group that is ready. *)
LEMMA CompleteAwaits ==
    ASSUME IInv, NEW s \in LiveType, SamePlayback(live, s), s.state = "waiting",
           NEW d
    PROVE  Complete(s, now, d).state # "waiting"
  <1>1. s.phase # NoPhase
    BY DEF IInv, PhaseIsWaiting, SamePlayback
  <1> QED
    BY <1>1 DEF Complete, Announce, LiveType

LEMMA SettleAwaits ==
    ASSUME IInv, NEW s \in LiveType, SamePlayback(live, s), NEW d
    PROVE  Awaits(Settle(s, now, d)) /\ Awaits(TimeOut(s, now, d))
  <1>1. s.state = "waiting" => Complete(s, now, d).state # "waiting"
    BY CompleteAwaits
  <1>2. ASSUME NEW r, r = s \/ r = Complete(s, now, d),
               s.state = "waiting" /\ AllReady(s) => r = Complete(s, now, d),
               s.state # "waiting" => r = s
        PROVE  Awaits(r)
    BY <1>1, <1>2 DEF Awaits, AllReady
  <1>3. Awaits(Settle(s, now, d))
    <2>1. PICK r : r = Settle(s, now, d)
      OBVIOUS
    <2> QED
      BY <1>2, <2>1 DEF Settle
  <1>4. Awaits(TimeOut(s, now, d))
    <2>1. PICK r : r = TimeOut(s, now, d)
      OBVIOUS
    <2> QED
      BY <1>2, <2>1 DEF TimeOut
  <1> QED
    BY <1>3, <1>4

LEMMA WalkAwaits ==
    ASSUME NEW s \in LiveType, Awaits(s), NEW t, NEW forward,
           NEW next \in Item \cup {NoItem}
    PROVE  Awaits(Walk(s, forward, next, t))
  <1>1. CASE next # NoItem
    BY <1>1, ChangeItemAwaits DEF Walk
  <1>2. CASE next = NoItem /\ forward /\ s.state # "idle"
    <2>1. Idle(s, t).state = "idle"
      BY DEF Idle, Announce, LiveType
    <2> QED
      BY <1>2, <2>1 DEF Walk, Awaits
  <1>3. CASE next = NoItem /\ ~(forward /\ s.state # "idle")
    BY <1>3 DEF Walk
  <1> QED
    BY <1>1, <1>2, <1>3

(* The calls that settle what they leave. *)
LEMMA DepartureAwaits ==
    ASSUME IInv, NEW gone \in SUBSET Seat, NEW d,
           live' = Settle(Bump(Remove(live, gone)), now, d)
    PROVE  Awaits(live')
  <1>1. PICK r : r = Remove(live, gone)
    OBVIOUS
  <1>2. r \in LiveType /\ SamePlayback(live, r)
    BY <1>1, RemoveReturns DEF IInv, TypeOK
  <1>3. Bump(r) \in LiveType /\ SamePlayback(live, Bump(r))
    BY <1>2, BumpReturns DEF SamePlayback
  <1> QED
    BY <1>1, <1>3, SettleAwaits

LEMMA StatusAwaits ==
    ASSUME IInv, NEW m \in Seat, NEW status \in MemberStatus \ {"away"},
           NEW p \in Pos, Status(m, status, p)
    PROVE  Awaits(live')
  <1> DEFINE far == live.state = "waiting" /\ ~ (p - live.pos \in
                     -ReadyTolerance .. ReadyTolerance)
             new == IF status = "ready" /\ far THEN live.status[m] ELSE status
             q == [live EXCEPT !.status[m] = new, !.awaySince[m] = Never]
             s == IF new = live.status[m] THEN live ELSE Bump(q)
  <1>1. PICK d \in StartDelay : live' = Settle(s, now, d)
    BY DEF Status, Call
  <1>2. live \in LiveType
    BY DEF IInv, TypeOK
  <1> HIDE DEF far
  <1>3. new \in MemberStatus \cup {"out"}
    BY <1>2 DEF LiveType
  <1> HIDE DEF new
  <1>4. q \in LiveType
    <2>1. [live.status EXCEPT ![m] = new] \in [Seat -> MemberStatus \cup {"out"}]
      BY <1>2, <1>3 DEF LiveType
    <2>2. [live.awaySince EXCEPT ![m] = Never] \in [Seat -> Time]
      BY <1>2 DEF LiveType, Time
    <2> QED
      BY <1>2, <2>1, <2>2, Zenon DEF LiveType
  <1>5. SamePlayback(live, q)
    BY <1>2 DEF SamePlayback, LiveType
  <1> HIDE DEF q
  <1>6. s \in LiveType /\ SamePlayback(live, s)
    BY <1>2, <1>4, <1>5, BumpReturns DEF SamePlayback
  <1> HIDE DEF s
  <1> QED
    BY <1>1, <1>6, SettleAwaits

(* A member that joins a waiting group has yet to load. *)
LEMMA RoomAwaits ==
    ASSUME IInv, Awaits(live)
    PROVE  /\ \A m \in Seat :
                /\ Join(m) => Awaits(live')
                /\ \A joined \in BOOLEAN : SetVoice(m, joined) => Awaits(live')
           /\ \A u \in User : Transfer(u) => Awaits(live')
           /\ \A y \in Policy : SetSettings(y) => Awaits(live')
           /\ Programme => Awaits(live')
  <1> USE DEF Call
  <1>1. live \in LiveType
    BY DEF IInv, TypeOK
  <1>2. ASSUME live'.status = live.status, live'.state = live.state
        PROVE  Awaits(live')
    BY <1>2 DEF Awaits, Present
  <1>3. ASSUME NEW m \in Seat, Join(m) PROVE Awaits(live')
    <2>1. /\ live'.state = live.state
          /\ live'.status = [live.status EXCEPT ![m] =
                               IF live.state \in {"lobby", "waiting"}
                               THEN "waiting" ELSE "ready"]
      BY <1>1, <1>3 DEF Join, Bump, LiveType
    <2>2. live.state = "waiting" =>
            live'.status[m] = "waiting" /\ m \in Present(live')
      BY <1>1, <2>1 DEF Present, LiveType
    <2> QED
      BY <2>1, <2>2 DEF Awaits
  <1>4. ASSUME NEW m \in Seat, NEW joined \in BOOLEAN, SetVoice(m, joined)
        PROVE  Awaits(live')
    BY <1>1, <1>2, <1>4 DEF SetVoice, Bump, LiveType
  <1>5. ASSUME NEW u \in User, Transfer(u) PROVE Awaits(live')
    BY <1>1, <1>2, <1>5 DEF Transfer, Bump, LiveType
  <1>6. ASSUME NEW y \in Policy, SetSettings(y) PROVE Awaits(live')
    BY <1>1, <1>2, <1>6 DEF SetSettings, Bump, LiveType
  <1>7. ASSUME Programme PROVE Awaits(live')
    BY <1>1, <1>2, <1>7 DEF Programme, Bump, LiveType
  <1> QED
    BY <1>3, <1>4, <1>5, <1>6, <1>7

LEMMA ControlAwaits ==
    ASSUME IInv, Awaits(live), NEW m \in Seat, Control(m)
    PROVE  Awaits(live')
  <1> USE DEF Call
  <1>1. live \in LiveType /\ now \in Nat
    BY DEF IInv, TypeOK
  <1>2. ASSUME NEW target \in BOOLEAN, live' = [live EXCEPT !.phase.target = target]
        PROVE  Awaits(live')
    <2>1. live'.status = live.status /\ live'.state = live.state
      BY <1>1, <1>2 DEF LiveType
    <2> QED
      BY <2>1 DEF Awaits, Present
  <1>3. CASE Play(m)
    BY <1>1, <1>2, <1>3, EnterWaitingAwaits DEF Play
  <1>4. CASE Pause(m)
    <2>1. ASSUME live' = Announce([live EXCEPT !.state = "paused",
                                               !.pos = PositionAt(live, now),
                                               !.at = now], now)
          PROVE  Awaits(live')
      BY <1>1, <2>1 DEF Awaits, Announce, LiveType
    <2> QED
      BY <1>2, <1>4, <2>1 DEF Pause
  <1>5. ASSUME NEW p \in Pos, NEW base, Seek(m, p, base)
        PROVE  Awaits(live')
    BY <1>1, <1>5, EnterWaitingAwaits DEF Seek
  <1>6. ASSUME NEW i \in Item, NEW base, SetItem(m, i, base)
        PROVE  Awaits(live')
    BY <1>1, <1>6, ChangeItemAwaits DEF SetItem
  <1>7. ASSUME NEW forward \in BOOLEAN, NEW next \in Item \cup {NoItem}, NEW base,
               Advance(m, forward, next, base)
        PROVE  Awaits(live')
    BY <1>1, <1>7, WalkAwaits DEF Advance
  <1>8. PICK q : q = Idle(live, now)
    OBVIOUS
  <1>9. q \in LiveType /\ q.state = "idle" /\ Awaits(q)
    BY <1>1, <1>8, IdleReturns DEF Awaits
  <1>10. ASSUME NEW seen, Ended(m, seen) PROVE Awaits(live')
    BY <1>8, <1>9, <1>10 DEF Ended
  <1>11. ASSUME NEW seen, NEW from \in Item, NEW next \in Item \cup {NoItem},
                AdvanceAfterEnded(m, seen, from, next)
         PROVE  Awaits(live')
    BY <1>8, <1>9, <1>11, WalkAwaits DEF AdvanceAfterEnded
  <1> QED
    BY <1>3, <1>4, <1>5, <1>6, <1>7, <1>10, <1>11 DEF Control

LEMMA GoLiveAwaits ==
    ASSUME IInv, NEW i \in Item, GoLive(i)
    PROVE  Awaits(live')
  <1>1. live \in LiveType /\ now \in Nat
    BY DEF IInv, TypeOK
  <1>2. PICK since : since = IF Present(live) = {} THEN now ELSE Never
    OBVIOUS
  <1>3. PICK q : q = [live EXCEPT !.emptySince = since, !.state = "idle", !.item = i,
                                  !.pos = 0, !.at = now]
    OBVIOUS
  <1>4. since \in Time /\ "idle" \in State /\ 0 \in Nat
    BY <1>1, <1>2 DEF Time, State
  <1>5. q \in LiveType
    BY <1>1, <1>3, <1>4, Zenon DEF LiveType
  <1>6. q.state = "idle"
    BY <1>1, <1>3 DEF LiveType
  <1>7. live' = IF HostAway(live) THEN Announce(q, now)
                                  ELSE EnterWaiting(q, 0, TRUE, now)
    BY <1>2, <1>3 DEF GoLive, Call
  <1>8. Announce(q, now).state = "idle"
    BY <1>5, <1>6 DEF Announce, LiveType
  <1>9. Awaits(EnterWaiting(q, 0, TRUE, now))
    BY <1>5, EnterWaitingAwaits
  <1> QED
    BY <1>7, <1>8, <1>9 DEF Awaits

LEMMA TickAwaits ==
    ASSUME IInv, Tick
    PROVE  Awaits(live')
  <1>1. PICK d \in StartDelay :
          live' = CountEmpty(TimeOut(Reap(live, now), now, d), now)
    BY DEF Tick
  <1>2. PICK q : q = Reap(live, now)
    OBVIOUS
  <1>3. q \in LiveType /\ SamePlayback(live, q)
    BY <1>2, ReapReturns
  <1>4. PICK r : r = TimeOut(q, now, d)
    OBVIOUS
  <1>5. Awaits(r)
    BY <1>3, <1>4, SettleAwaits
  <1>6. r \in LiveType
    <2>1. Sound(q, now) /\ now \in Nat /\ d \in Nat
      BY <1>2, ReapIsSound, DelayIsNat DEF IInv, TypeOK
    <2> QED
      BY <1>4, <2>1, TimeOutFollows DEF Follows, Sound
  <1>7. live'.state = r.state /\ live'.status = r.status
    BY <1>1, <1>2, <1>4, <1>6 DEF CountEmpty, LiveType
  <1> QED
    BY <1>5, <1>7 DEF Awaits, Present

LEMMA StepAwaits == IInv /\ SomebodyIsAwaited /\ [Next]_vars => SomebodyIsAwaited'
  <1> SUFFICES ASSUME IInv, Awaits(live), [Next]_vars PROVE Awaits(live')
    BY DEF SomebodyIsAwaited, Awaits, Present
  <1>1. ASSUME live' = live PROVE Awaits(live')
    BY <1>1 DEF Awaits, Present
  <1>2. ASSUME NEW m \in Seat, MemberCall(m) PROVE Awaits(live')
    <2>1. ASSUME Leave(m) PROVE Awaits(live')
      BY <2>1, DepartureAwaits DEF Leave, Call
    <2> QED
      BY <1>2, <2>1, RoomAwaits, StatusAwaits DEF MemberCall
  <1>3. ASSUME HostCall PROVE Awaits(live')
    <2>1. ASSUME NEW u \in User, Kick(u) PROVE Awaits(live')
      <3>1. SeatsOf(u) \in SUBSET Seat
        BY DEF SeatsOf
      <3> QED
        BY <2>1, <3>1, DepartureAwaits DEF Kick, Call
    <2> QED
      BY <1>3, <2>1, RoomAwaits, GoLiveAwaits DEF HostCall
  <1> QED
    BY <1>1, <1>2, <1>3, ControlAwaits, TickAwaits DEF Next, vars, Disconnect, Clock

-----------------------------------------------------------------------------
(* The theorems.                                                            *)

LEMMA StepIsGood == IInv /\ [Next]_vars => GoodStep
  <1> SUFFICES ASSUME IInv, [Next]_vars PROVE GoodStep
    OBVIOUS
  <1>1. CASE live' = live
    <2>1. live \in LiveType
      BY DEF IInv, TypeOK
    <2> QED
      BY <1>1, <2>1, RoomStepIsGood DEF SamePlayback
  <1>2. ASSUME NEW m \in Seat, MemberCall(m) PROVE GoodStep
    BY <1>2, JoinIsGood, RoomIsGood, StatusIsGood DEF MemberCall
  <1>3. ASSUME NEW m \in Seat, Control(m) PROVE GoodStep
    BY <1>3, PlayIsGood, PauseIsGood, SeekIsGood, AdvanceIsGood, EndedIsGood,
       ChangeIsGood DEF Control, SetItem, MayControl, Call
  <1>4. CASE HostCall
    BY <1>4, RoomIsGood, GoLiveIsGood DEF HostCall
  <1> QED
    BY <1>1, <1>2, <1>3, <1>4, TickIsGood DEF Next, vars, Disconnect, Clock

(* Clients drop what they have seen, so every change they are shown takes  *)
(* a new revision and no step takes one back (ShownChangeIsRevised).       *)
THEOREM EveryChangeIsRevised == Spec => ShownChangeIsRevised
  <1>1. IInv /\ [Next]_vars =>
          [ /\ live'.rev >= live.rev
            /\ Shown(live') # Shown(live) => live'.rev > live.rev ]_vars
    BY StepIsGood DEF GoodStep, Revised
  <1> QED
    BY <1>1, Invariance, PTL DEF Spec, ShownChangeIsRevised

(* No call releases a group that is not ready before its time, the tick    *)
(* does so only after WAIT_TIMEOUT, and a group that got ready is released *)
(* by the very call that made it so (ReleaseIsEarned).                     *)
THEOREM ReleaseIsNeitherEarlyNorLate == Spec => ReleaseIsEarned
  <1>1. Init => SomebodyIsAwaited
    <2>1. \A h, y, i, p : /\ NewRoom(h, y, 0).state = "lobby"
                          /\ Boot(h, y, i, p, 0).state = "paused"
      BY DEF NewRoom, Boot
    <2> QED
      BY <2>1 DEF Init, SomebodyIsAwaited
  <1>2. IInv /\ SomebodyIsAwaited /\ [Next]_vars =>
          [ /\ live.state = "waiting" /\ live'.state \in {"playing", "paused"} =>
                 \/ \A m \in Seat : live'.status[m] \in {"out", "away", "ready"}
                 \/ now - live.phase.since >= WaitTimeout
            /\ SomebodyIsAwaited' ]_vars
    BY StepIsGood, StepAwaits DEF GoodStep, Earned
  <1> QED
    BY <1>1, <1>2, StepAwaits, Invariance, PTL DEF Spec, ReleaseIsEarned

(* The machine implements GroupPlayback: it plays exactly when the last    *)
(* play, pause or end says so, from the anchor the last move set.          *)
THEOREM MachineKeepsPromise == Spec => GroupKeepsPromise
  <1>1. Init => Group!Init
    <2> SUFFICES ASSUME Init PROVE Group!Init
      OBVIOUS
    <2>1. live.state \in {"lobby", "paused"}
      <3>1. \A h, y, i, p : /\ NewRoom(h, y, 0).state = "lobby"
                            /\ Boot(h, y, i, p, 0).state = "paused"
        BY DEF NewRoom, Boot
      <3> QED
        BY <3>1 DEF Init
    <2>2. Wish = FALSE
      BY <2>1 DEF Wish
    <2> QED
      BY <2>1, <2>2 DEF Group!Init
  <1>2. IInv /\ [Next]_vars => [Group!Next]_(Group!vars)
    BY StepIsGood DEF GoodStep
  <1> QED
    BY <1>1, <1>2, Invariance, PTL DEF Spec, GroupKeepsPromise, Group!Spec

===============================================================================
