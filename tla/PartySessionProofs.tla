-------------------------- MODULE PartySessionProofs --------------------------
(***************************************************************************)
(* What holds of a client's view of its party for every bound on the       *)
(* revisions, the streams and the failures: the invariants of PartySession *)
(* and the action property that nothing shown rolls back.                  *)
(*                                                                         *)
(* The invariants come in layers, each proved from the ones before: the    *)
(* stream (`StreamInv`: what is on the wire is the newest of the party,    *)
(* without a gap), the answers (`AnswerInv`: how an answer under way       *)
(* relates to the party, to what is shown and to the other answer), the    *)
(* connection (`HearInv`: who the member is bound to) and the view         *)
(* (`ViewInv`: what is shown is the party as of the revision shown).       *)
(***************************************************************************)
EXTENDS PartySession, TLAPS, SequenceTheorems

Moving == Facet \ {"settings"}

-----------------------------------------------------------------------------
(* The wire.                                                                *)

(* An announcement that is heard comes after what is on the wire. *)
LEMMA Appended ==
    ASSUME NEW s \in Seq(Event), NEW e \in Event
    PROVE  /\ Append(s, e) \in Seq(Event)
           /\ Len(Append(s, e)) = Len(s) + 1
           /\ \A i \in 1 .. Len(s) : Append(s, e)[i] = s[i]
           /\ Append(s, e)[Len(s) + 1] = e
           /\ Append(s, e) # <<>>
           /\ Len(s) \in Nat
           /\ s = <<>> <=> Len(s) = 0
  BY AppendProperties, LenProperties, EmptySeq

(* An event is taken from the front. *)
LEMMA Taken ==
    ASSUME NEW s \in Seq(Event), s # <<>>
    PROVE  /\ Head(s) \in Event /\ Head(s) = s[1]
           /\ Tail(s) \in Seq(Event)
           /\ Len(Tail(s)) = Len(s) - 1
           /\ \A i \in 1 .. Len(Tail(s)) : Tail(s)[i] = s[i + 1]
           /\ Len(s) \in Nat \ {0}
           /\ Tail(s) = <<>> <=> Len(s) = 1
  <1>1. /\ Head(s) \in Event /\ Tail(s) \in Seq(Event)
        /\ Len(Tail(s)) = Len(s) - 1
        /\ \A i \in 1 .. Len(Tail(s)) : Tail(s)[i] = s[i + 1]
    BY HeadTailProperties
  <1>2. Len(s) \in Nat \ {0}
    BY EmptySeq
  <1>3. Head(s) = s[1]
    OBVIOUS
  <1>4. Tail(s) = <<>> <=> Len(Tail(s)) = 0
    BY <1>1, EmptySeq
  <1> QED
    BY <1>1, <1>2, <1>3, <1>4

(* A revision is announced: the wire keeps what it had, and ends with the   *)
(* new event if the member hears it.                                       *)
LEMMA Announced ==
    ASSUME TypeOK, NEW facet \in Facet, NEW to, Announce(facet, to), rev < MaxRev
    PROVE  /\ rev' = rev + 1 /\ rev' \in Rev
           /\ at' \in [Facet -> Rev]
           /\ at'[facet] = rev + 1
           /\ \A f \in Facet \ {facet} : at'[f] = at[f]
           /\ wire' \in Seq(Event)
           /\ Len(wire) \in Nat
           /\ \A i \in 1 .. Len(wire) : wire'[i] = wire[i]
           /\ IF to # 0 /\ to = hub /\ to = up
                THEN /\ Len(wire') = Len(wire) + 1
                     /\ wire'[Len(wire) + 1].rev = rev + 1
                     /\ wire'[Len(wire) + 1].facet = facet
                     /\ wire' # <<>>
                ELSE wire' = wire
  <1> DEFINE e == [rev |-> rev + 1, facet |-> facet]
  <1>1. rev \in Rev /\ rev + 1 \in Rev /\ at \in [Facet -> Rev]
    BY SessionAssumption DEF TypeOK, Rev
  <1>2. e \in Event /\ e.rev = rev + 1 /\ e.facet = facet
    BY <1>1 DEF Event
  <1>3. wire \in Seq(Event)
    BY DEF TypeOK
  <1>4. Len(wire) \in Nat
    BY <1>3, LenProperties
  <1>5. CASE to # 0 /\ to = hub /\ to = up
    <2>1. wire' = Append(wire, e)
      BY <1>5 DEF Announce
    <2> HIDE DEF e
    <2> QED
      BY <1>1, <1>2, <1>3, <1>5, <2>1, Appended DEF Announce
  <1>6. CASE ~(to # 0 /\ to = hub /\ to = up)
    BY <1>1, <1>3, <1>4, <1>6 DEF Announce
  <1> QED
    BY <1>5, <1>6

-----------------------------------------------------------------------------
(* The answers.                                                             *)

(* The row's read: only the settings are seen. *)
LEMMA RowIsRead ==
    ASSUME TypeOK, NEW c \in Call
    PROVE  /\ ReadRow(c) \in Call
           /\ ReadRow(c).step = "read" /\ ReadRow(c).conn = c.conn
           /\ ReadRow(c).rev = c.rev /\ ReadRow(c).whole = c.whole
           /\ ReadRow(c).seen.settings = row
           /\ \A f \in Moving : ReadRow(c).seen[f] = c.seen[f]
  <1>1. row \in Rev
    BY DEF TypeOK
  <1> DEFINE seen == [c.seen EXCEPT !.settings = row]
  <1>2. /\ seen \in [Facet -> Rev] /\ seen.settings = row
        /\ \A f \in Moving : seen[f] = c.seen[f]
    BY <1>1 DEF Call, Facet, Moving
  <1>3. ReadRow(c) = [c EXCEPT !.step = "read", !.seen = seen]
    BY DEF ReadRow, Call
  <1> HIDE DEF seen
  <1> QED
    BY <1>2, <1>3 DEF Call

(* The machine's read: what moves, at its revision. *)
LEMMA ViewIsRead ==
    ASSUME TypeOK, NEW c \in Call
    PROVE  /\ ReadView(c) \in Call
           /\ ReadView(c).step = "answered" /\ ReadView(c).conn = c.conn
           /\ ReadView(c).rev = rev
           /\ ReadView(c).whole <=> c.seen.settings >= at.settings
           /\ ReadView(c).seen.settings = c.seen.settings
           /\ \A f \in Moving : ReadView(c).seen[f] = at[f]
  <1>1. rev \in Rev /\ at \in [Facet -> Rev]
    BY DEF TypeOK
  <1> DEFINE seen == [c.seen EXCEPT !.state = at.state, !.members = at.members]
             whole == c.seen.settings >= at.settings
  <1>2. /\ seen \in [Facet -> Rev] /\ seen.settings = c.seen.settings
        /\ \A f \in Moving : seen[f] = at[f]
    BY <1>1 DEF Call, Facet, Moving
  <1>3. ReadView(c) = [c EXCEPT !.step = "answered", !.rev = rev,
                                !.seen = seen, !.whole = whole]
    BY DEF ReadView, Call
  <1>4. whole \in BOOLEAN
    OBVIOUS
  <1> HIDE DEF seen
  <1>5. ReadView(c) \in Call /\ (ReadView(c).whole <=> whole)
    <2> HIDE DEF whole
    <2> QED
      BY <1>1, <1>2, <1>3, <1>4, Zenon DEF Call
  <1> HIDE DEF whole
  <1>6. /\ ReadView(c).step = "answered" /\ ReadView(c).conn = c.conn
        /\ ReadView(c).rev = rev /\ ReadView(c).seen = seen
    BY <1>3 DEF Call
  <1> QED
    BY <1>2, <1>5, <1>6 DEF whole

(* The calls that see nothing. *)
LEMMA PlainCalls ==
    /\ NoCall \in Call /\ NoCall.step = "idle" /\ NoCall.conn = 0
    /\ Asked \in Call /\ Asked.step = "asked" /\ Asked.conn = 0
    /\ [NoCall EXCEPT !.step = "failed"] \in Call
    /\ [NoCall EXCEPT !.step = "failed"].step = "failed"
    /\ [NoCall EXCEPT !.step = "failed"].conn = 0
    /\ NoCall.seen = Nothing /\ Asked.seen = Nothing
    /\ [NoCall EXCEPT !.step = "failed"].seen = Nothing
  <1>1. 0 \in Rev /\ 0 \in Conn
    BY SessionAssumption DEF Rev, Conn
  <1>2. Nothing \in [Facet -> Rev]
    BY <1>1 DEF Nothing
  <1>3. NoCall \in Call
    BY <1>1, <1>2, Zenon DEF NoCall, Call
  <1>4. Asked \in Call /\ [NoCall EXCEPT !.step = "failed"] \in Call
    BY <1>1, <1>2 DEF NoCall, Asked, Call
  <1> QED
    BY <1>3, <1>4 DEF NoCall, Asked

-----------------------------------------------------------------------------
(* Types.                                                                   *)

(* What a step may turn the members of a type into, part by part. *)
ServerTyped ==
    /\ rev \in Rev /\ at \in [Facet -> Rev] /\ row \in Rev
    /\ bound \in Conn /\ hub \in Conn

StreamTyped ==
    /\ up \in Conn /\ opened \in Conn /\ wire \in Seq(Event)

CallsTyped == fetch \in Call /\ join \in Call /\ failed \in 0 .. MaxFail

ViewTyped == lastRev \in Rev /\ shown \in [Facet -> Rev] /\ owed \in Rev

FlagsTyped ==
    /\ inParty \in BOOLEAN /\ refetchAgain \in BOOLEAN
    /\ needsRejoin \in BOOLEAN /\ retry \in BOOLEAN
    /\ missed \in BOOLEAN /\ deaf \in BOOLEAN

LEMMA TypeParts ==
    TypeOK <=> ServerTyped /\ StreamTyped /\ CallsTyped /\ ViewTyped /\ FlagsTyped
  BY DEF TypeOK, ServerTyped, StreamTyped, CallsTyped, ViewTyped, FlagsTyped

LEMMA ServerTypeKept ==
    ASSUME TypeOK, [Next]_vars
    PROVE  ServerTyped' /\ StreamTyped'
  <1> USE TypeParts DEF ServerTyped, StreamTyped
  <1>1. ASSUME NEW f \in Facet, Change(f)
        PROVE  ServerTyped' /\ StreamTyped'
    BY <1>1, Announced DEF Change
  <1>2. CASE PatchRow
    BY <1>2, SessionAssumption DEF PatchRow, Rev
  <1>3. CASE PatchRoom
    <2>1. rev < MaxRev
      BY <1>3, SessionAssumption DEF PatchRoom, GateFree, Rev
    <2> QED
      BY <1>3, <2>1, Announced DEF PatchRoom, Facet
  <1>4. CASE Tick
    BY <1>4, Announced, SessionAssumption DEF Tick, Facet, Conn
  <1>5. CASE JoinBinds
    BY <1>5, Announced DEF JoinBinds, Facet, CallsTyped, Call
  <1>6. CASE HubCloses
    BY <1>6, SessionAssumption DEF HubCloses, Conn
  <1>7. CASE Drop
    BY <1>7, EmptySeq, SessionAssumption DEF Drop, serverVars, Conn
  <1>8. CASE Connect
    BY <1>8, SessionAssumption DEF Connect, Conn
  <1>9. CASE OnEvent
    BY <1>9, Taken DEF OnEvent, serverVars
  <1>10. CASE \/ ServeFetch \/ FetchAnswered \/ FetchFailed
              \/ Enter \/ JoinReads \/ JoinViews \/ Adopt \/ EnterFailed
              \/ Rejoined \/ RejoinFailed \/ RetryFires \/ ActionRefused
              \/ CallFails \/ UNCHANGED vars
    BY <1>10 DEF ServeFetch, FetchAnswered, FetchFailed, Enter, JoinReads,
                 JoinViews, Adopt, EnterFailed, Rejoined, RejoinFailed,
                 RetryFires, ActionRefused, CallFails, serverVars, vars
  <1> QED
    BY <1>1, <1>2, <1>3, <1>4, <1>5, <1>6, <1>7, <1>8, <1>9, <1>10 DEF Next

(* Whatever started a call, or ended it. *)
LEMMA CallsTypeKept ==
    ASSUME TypeOK, [Next]_vars
    PROVE  CallsTyped'
  <1> USE TypeParts, PlainCalls DEF CallsTyped
  <1>1. CASE ServeFetch
    BY <1>1, RowIsRead, ViewIsRead DEF ServeFetch
  <1>2. CASE JoinReads
    <2>1. [join EXCEPT !.step = "failed"] \in Call
      BY DEF Call
    <2>2. [ReadRow(join) EXCEPT !.conn = hub] \in Call
      BY RowIsRead DEF Call, ServerTyped
    <2> QED
      BY <1>2, <2>1, <2>2 DEF JoinReads
  <1>3. CASE JoinBinds
    BY <1>3 DEF JoinBinds, Call
  <1>4. CASE JoinViews
    BY <1>4, ViewIsRead DEF JoinViews
  <1>5. CASE FetchAnswered \/ FetchFailed
    BY <1>5 DEF FetchAnswered, FetchFailed, FetchEnds
  <1>6. CASE \/ Enter \/ Adopt \/ EnterFailed \/ Rejoined \/ RejoinFailed
             \/ RetryFires \/ ActionRefused \/ Connect
    BY <1>6 DEF Enter, Adopt, EnterFailed, Rejoined, RejoinFailed, RetryFires,
                ActionRefused, Connect, Reconnected, Rejoin
  <1>7. CASE OnEvent
    BY <1>7 DEF OnEvent, Refetch
  <1>8. CASE CallFails
    BY <1>8, SessionAssumption DEF CallFails
  <1>9. CASE \/ \E f \in Facet : Change(f)
             \/ PatchRow \/ PatchRoom \/ Tick \/ HubCloses \/ Drop
             \/ UNCHANGED vars
    BY <1>9 DEF Change, PatchRow, PatchRoom, Tick, HubCloses, Drop, vars
  <1> QED
    BY <1>1, <1>2, <1>3, <1>4, <1>5, <1>6, <1>7, <1>8, <1>9 DEF Next

LEMMA ViewTypeKept ==
    ASSUME TypeOK, [Next]_vars
    PROVE  ViewTyped'
  <1> USE TypeParts DEF ViewTyped
  <1>1. 0 \in Rev
    BY SessionAssumption DEF Rev
  <1>2. CASE FetchAnswered
    BY <1>1, <1>2 DEF FetchAnswered, ApplySnapshot, CallsTyped, Call
  <1>3. CASE Rejoined
    BY <1>1, <1>3 DEF Rejoined, ApplySnapshot, CallsTyped, Call
  <1>4. CASE Adopt
    BY <1>1, <1>4 DEF Adopt, CallsTyped, Call
  <1>5. CASE OnEvent
    <2>1. Head(wire) \in Event
      BY <1>5, Taken DEF OnEvent, StreamTyped
    <2>2. Head(wire).rev \in Rev /\ Head(wire).facet \in Facet
      BY <2>1 DEF Event
    <2> QED
      BY <1>5, <2>2 DEF OnEvent
  <1>6. CASE \/ \E f \in Facet : Change(f)
             \/ PatchRow \/ PatchRoom \/ Tick \/ HubCloses \/ ServeFetch
             \/ FetchFailed \/ Enter \/ JoinReads \/ JoinBinds \/ JoinViews
             \/ EnterFailed \/ RejoinFailed \/ RetryFires \/ ActionRefused
             \/ Drop \/ Connect \/ CallFails \/ UNCHANGED vars
    BY <1>6 DEF Change, PatchRow, PatchRoom, Tick, HubCloses, ServeFetch,
                FetchFailed, Enter, JoinReads, JoinBinds, JoinViews, EnterFailed,
                RejoinFailed, RetryFires, ActionRefused, Drop, Connect, CallFails,
                clientVars, vars
  <1> QED
    BY <1>2, <1>3, <1>4, <1>5, <1>6 DEF Next

LEMMA FlagsTypeKept ==
    ASSUME TypeOK, [Next]_vars
    PROVE  FlagsTyped'
  <1> USE TypeParts DEF FlagsTyped
  <1>1. join.whole \in BOOLEAN /\ fetch.whole \in BOOLEAN
    BY DEF CallsTyped, Call
  <1>2. CASE FetchAnswered
    BY <1>1, <1>2, Zenon DEF FetchAnswered, ApplySnapshot, FetchEnds
  <1>3. CASE Rejoined
    BY <1>1, <1>3, Zenon DEF Rejoined, ApplySnapshot
  <1>4. CASE Adopt
    BY <1>1, <1>4, Zenon DEF Adopt
  <1>5. CASE FetchFailed \/ Drop \/ RetryFires \/ RejoinFailed \/ ActionRefused
    BY <1>5, Zenon DEF FetchFailed, FetchEnds, Drop, RetryFires, RejoinFailed,
                       ActionRefused, Rejoin, clientVars
  <1>6. CASE Enter \/ Connect
    BY <1>6, Zenon DEF Enter, Connect, Reconnected, Rejoin, clientVars
  <1>7. CASE OnEvent
    BY <1>7, Zenon DEF OnEvent, Refetch
  <1>8. CASE \/ \E f \in Facet : Change(f)
             \/ PatchRow \/ PatchRoom \/ Tick \/ HubCloses \/ ServeFetch
             \/ JoinReads \/ JoinBinds \/ JoinViews
             \/ EnterFailed \/ CallFails \/ UNCHANGED vars
    BY <1>8 DEF Change, PatchRow, PatchRoom, Tick, HubCloses, ServeFetch,
                JoinReads, JoinBinds, JoinViews, EnterFailed, CallFails,
                clientVars, vars
  <1> QED
    BY <1>2, <1>3, <1>4, <1>5, <1>6, <1>7, <1>8 DEF Next

LEMMA InitTyped == Init => TypeOK
  <1> SUFFICES ASSUME Init PROVE TypeOK
    OBVIOUS
  <1>1. 0 \in Rev /\ 1 \in Rev /\ 0 \in Conn /\ 1 \in Conn
    BY SessionAssumption DEF Rev, Conn
  <1>2. ServerTyped /\ StreamTyped
    BY <1>1, EmptySeq DEF Init, ServerTyped, StreamTyped
  <1>3. CallsTyped
    BY SessionAssumption, PlainCalls DEF Init, CallsTyped
  <1>4. ViewTyped /\ FlagsTyped
    BY <1>1 DEF Init, ViewTyped, FlagsTyped, Nothing
  <1> QED
    BY <1>2, <1>3, <1>4, TypeParts

LEMMA TypesKept ==
    ASSUME TypeOK, [Next]_vars
    PROVE  TypeOK'
  <1>1. ServerTyped' /\ StreamTyped' /\ CallsTyped' /\ ViewTyped' /\ FlagsTyped'
    BY ServerTypeKept, CallsTypeKept, ViewTypeKept, FlagsTypeKept
  <1> QED
    BY <1>1 DEF TypeOK, ServerTyped, StreamTyped, CallsTyped, ViewTyped, FlagsTyped

-----------------------------------------------------------------------------
(* The stream.                                                              *)

(* No facet is newer than the party, and the row is the machine's settings  *)
(* but between the writes of a PATCH.                                       *)
ServerSound ==
    /\ \A f \in Facet : at[f] <= rev
    /\ row = IF GateFree THEN at.settings ELSE rev + 1

(* Connections are opened in order, and a join that found an older one than *)
(* the client's stream did so before the member was bound to the stream.    *)
ConnSound ==
    /\ hub # 0 /\ up # 0 => hub = up
    /\ up = 0 => wire = <<>>
    /\ bound <= opened /\ hub <= opened /\ up <= opened
    /\ join.conn <= opened
    /\ join.step = "read" /\ up # 0 /\ hub = up /\ join.conn # up => bound # up

(* While the hub serves the client's stream, what is on the wire ends with  *)
(* the party's revision; it has no gap, and tells what changed when.        *)
WireSound ==
    /\ up # 0 /\ hub = up /\ wire # <<>> => bound = up /\ wire[Len(wire)].rev = rev
    /\ \A i \in 1 .. Len(wire) : wire[i].rev <= at[wire[i].facet]
    /\ \A i \in 1 .. Len(wire), f \in Facet :
         at[f] = wire[i].rev => f = wire[i].facet
    /\ \A i \in 1 .. Len(wire) - 1 : wire[i + 1].rev = wire[i].rev + 1

StreamInv == ServerSound /\ ConnSound /\ WireSound

LEMMA WireTyped ==
    ASSUME TypeOK
    PROVE  /\ Len(wire) \in Nat
           /\ wire = <<>> <=> Len(wire) = 0
           /\ \A i \in 1 .. Len(wire) : wire[i].rev \in Rev /\ wire[i].facet \in Facet
  <1>1. wire \in Seq(Event)
    BY DEF TypeOK
  <1>2. Len(wire) \in Nat /\ \A i \in 1 .. Len(wire) : wire[i] \in Event
    BY <1>1, LenProperties
  <1> QED
    BY <1>1, <1>2, EmptySeq DEF Event

(* An announcement, to whom the member is then bound, keeps the wire sound. *)
LEMMA AnnouncedWire ==
    ASSUME TypeOK, ServerSound, WireSound, UNCHANGED <<hub, up>>,
           NEW facet \in Facet, NEW to, Announce(facet, to), rev < MaxRev,
           bound' = to,
           up # 0 /\ hub = up /\ wire # <<>> => to = up
    PROVE  WireSound' /\ \A f \in Facet : at'[f] <= rev'
  <1> USE Announced, WireTyped
  <1>1. /\ rev \in Nat /\ \A f \in Facet : at[f] \in Nat /\ at[f] <= rev
        /\ \A i \in 1 .. Len(wire) : wire[i].rev \in Nat /\ wire[i].facet \in Facet
    BY DEF TypeOK, Rev, ServerSound
  <1>2. \A f \in Facet : at[f] <= at'[f] /\ at'[f] <= rev'
    BY <1>1
  <1>3. \A i \in 1 .. Len(wire) :
          /\ wire[i].rev <= at'[wire[i].facet]
          /\ \A f \in Facet : at'[f] = wire[i].rev => f = wire[i].facet
    <2> TAKE i \in 1 .. Len(wire)
    <2>1. wire[i].rev <= at[wire[i].facet] /\ wire[i].rev <= rev
      BY <1>1 DEF WireSound
    <2>2. wire[i].rev <= at'[wire[i].facet]
      BY <1>1, <1>2, <2>1 DEF Rev
    <2>3. ASSUME NEW f \in Facet, at'[f] = wire[i].rev
          PROVE  f = wire[i].facet
      BY <1>1, <2>1, <2>3 DEF WireSound
    <2> QED
      BY <2>2, <2>3
  <1>4. CASE to # 0 /\ to = hub /\ to = up
    <2>1. Len(wire') = Len(wire) + 1
      BY <1>4
    <2>2. wire'[Len(wire')].rev = rev' /\ wire'[Len(wire')].facet = facet
      BY <1>4
    <2>3. ASSUME NEW i \in 1 .. Len(wire')
          PROVE  /\ wire'[i].rev <= at'[wire'[i].facet]
                 /\ \A f \in Facet : at'[f] = wire'[i].rev => f = wire'[i].facet
      <3>1. CASE i = Len(wire')
        BY <1>1, <2>2, <3>1
      <3>2. CASE i # Len(wire')
        BY <1>3, <2>1, <3>2
      <3> QED
        BY <3>1, <3>2
    <2>4. ASSUME NEW i \in 1 .. Len(wire') - 1
          PROVE  wire'[i + 1].rev = wire'[i].rev + 1
      <3>1. CASE i = Len(wire)
        BY <1>4, <2>1, <3>1 DEF WireSound
      <3>2. CASE i # Len(wire)
        <4>1. i \in 1 .. Len(wire) - 1 /\ i + 1 \in 1 .. Len(wire)
          BY <2>1, <3>2
        <4> QED
          BY <4>1 DEF WireSound
      <3> QED
        BY <3>1, <3>2
    <2> QED
      BY <1>2, <1>4, <2>2, <2>3, <2>4 DEF WireSound
  <1>5. CASE ~(to # 0 /\ to = hub /\ to = up)
    <2>1. wire' = wire
      BY <1>5
    <2> QED
      BY <1>2, <1>3, <1>5, <2>1 DEF WireSound
  <1> QED
    BY <1>4, <1>5

LEMMA InitStream == Init => StreamInv
  BY EmptySeq DEF Init, StreamInv, ServerSound, ConnSound, WireSound, GateFree,
                  Facet, NoCall

(* Only what the row and the machine write changes the server's part. *)
LEMMA ServerKept ==
    ASSUME TypeOK, StreamInv, [Next]_vars
    PROVE  ServerSound'
  <1> USE DEF StreamInv
  <1> USE Announced
  <1>1. rev \in Nat /\ row \in Nat /\ "settings" \in Facet /\ "members" \in Facet
        /\ \A f \in Facet : at[f] \in Nat
    BY DEF TypeOK, Rev, Facet
  <1>2. ASSUME NEW f \in Facet, Change(f)
        PROVE  ServerSound'
    BY <1>1, <1>2 DEF Change, ServerSound, GateFree
  <1>3. CASE PatchRow
    BY <1>1, <1>3 DEF PatchRow, ServerSound, GateFree
  <1>4. CASE PatchRoom
    <2>1. rev < MaxRev
      BY <1>1, <1>4, SessionAssumption DEF PatchRoom, GateFree, TypeOK, Rev
    <2> QED
      BY <1>1, <1>4, <2>1 DEF PatchRoom, ServerSound, GateFree
  <1>5. CASE Tick
    BY <1>1, <1>5 DEF Tick, ServerSound, GateFree
  <1>6. CASE JoinBinds
    BY <1>1, <1>6 DEF JoinBinds, ServerSound, GateFree
  <1>7. CASE UNCHANGED <<rev, at, row>>
    BY <1>7 DEF ServerSound, GateFree
  <1>8. CASE \/ HubCloses \/ ServeFetch \/ FetchAnswered \/ FetchFailed
             \/ Enter \/ JoinReads \/ JoinViews \/ Adopt \/ EnterFailed
             \/ Rejoined \/ RejoinFailed \/ RetryFires \/ ActionRefused
             \/ Drop \/ Connect \/ OnEvent \/ CallFails \/ UNCHANGED vars
    BY <1>7, <1>8 DEF HubCloses, ServeFetch, FetchAnswered, FetchFailed,
          Enter, JoinReads, JoinViews, Adopt, EnterFailed, Rejoined, RejoinFailed,
          RetryFires, ActionRefused, Drop, Connect, OnEvent, CallFails,
          serverVars, vars
  <1> QED
    BY <1>2, <1>3, <1>4, <1>5, <1>6, <1>8 DEF Next

(* Nobody but a join, a tick, the hub and the stream itself changes who is  *)
(* connected.                                                              *)
LEMMA ConnKept ==
    ASSUME TypeOK, StreamInv, [Next]_vars
    PROVE  ConnSound'
  <1> USE DEF StreamInv, WireSound
  <1>1. /\ {bound, hub, up, opened, join.conn} \subseteq Nat
        /\ join \in Call /\ wire \in Seq(Event)
    BY DEF TypeOK, Conn, Call
  <1>2. ASSUME NEW f \in Facet, Change(f)
        PROVE  ConnSound'
    BY <1>1, <1>2, Announced DEF Change, ConnSound
  <1>3. CASE PatchRoom
    <2>1. rev < MaxRev
      BY <1>3, SessionAssumption DEF PatchRoom, GateFree, TypeOK, Rev
    <2> QED
      BY <1>1, <1>3, <2>1, Announced DEF PatchRoom, ConnSound, Facet
  <1>4. CASE Tick
    BY <1>1, <1>4, Announced DEF Tick, ConnSound, Facet
  <1>5. CASE JoinBinds
    <2>1. join'.step = "joined" /\ join'.conn = join.conn
      BY <1>1, <1>5 DEF JoinBinds, Call
    <2> QED
      BY <1>1, <1>5, <2>1, Announced DEF JoinBinds, ConnSound, Facet
  <1>6. CASE JoinReads
    <2>1. /\ join'.conn \in {join.conn, hub}
          /\ join'.step = "read" => join'.conn = hub
      BY <1>1, <1>6, RowIsRead DEF JoinReads, Call
    <2> QED
      BY <1>1, <1>6, <2>1 DEF JoinReads, ConnSound, serverVars
  <1>7. CASE JoinViews
    <2>1. join'.step = "answered" /\ join'.conn = join.conn
      BY <1>1, <1>7, ViewIsRead DEF JoinViews
    <2> QED
      BY <1>1, <1>7, <2>1 DEF JoinViews, ConnSound, serverVars
  <1>8. CASE HubCloses
    BY <1>1, <1>8 DEF HubCloses, ConnSound
  <1>9. CASE Drop
    BY <1>1, <1>9 DEF Drop, ConnSound, serverVars
  <1>10. CASE Connect
    <2>1. join' = join \/ join' = Asked
      BY <1>10 DEF Connect, Reconnected, Rejoin
    <2> QED
      BY <1>1, <1>10, <2>1, PlainCalls DEF Connect, ConnSound
  <1>11. CASE OnEvent
    BY <1>1, <1>11 DEF OnEvent, ConnSound, serverVars
  <1>12. CASE \/ Enter \/ Adopt \/ EnterFailed \/ Rejoined \/ RejoinFailed
              \/ RetryFires \/ ActionRefused \/ CallFails
    <2>1. join' \in {join, Asked, NoCall, [NoCall EXCEPT !.step = "failed"]}
      BY <1>12, Zenon DEF Enter, Adopt, EnterFailed, Rejoined, RejoinFailed,
                   RetryFires, ActionRefused, Rejoin, CallFails
    <2>2. join' = join \/ (join'.conn = 0 /\ join'.step # "read")
      <3>1. \A c \in {Asked, NoCall, [NoCall EXCEPT !.step = "failed"]} :
              c.conn = 0 /\ c.step # "read"
        BY PlainCalls, Zenon
      <3> QED
        BY <2>1, <3>1, Zenon
    <2>3. UNCHANGED <<bound, hub, up, wire, opened>>
      BY <1>12, Zenon DEF Enter, Adopt, EnterFailed, Rejoined, RejoinFailed,
                   RetryFires, ActionRefused, CallFails, serverVars
    <2> QED
      BY <1>1, <2>2, <2>3 DEF ConnSound
  <1>13. CASE \/ PatchRow \/ ServeFetch \/ FetchAnswered \/ FetchFailed
              \/ UNCHANGED vars
    BY <1>13 DEF PatchRow, ServeFetch, FetchAnswered, FetchFailed, ConnSound,
                 serverVars, vars
  <1> QED
    BY <1>2, <1>3, <1>4, <1>5, <1>6, <1>7, <1>8, <1>9, <1>10, <1>11, <1>12,
       <1>13 DEF Next

(* The wire loses its end only with the stream. *)
LEMMA WireKept ==
    ASSUME TypeOK, StreamInv, [Next]_vars
    PROVE  WireSound'
  <1> USE DEF StreamInv
  <1>1. /\ {bound, hub, up, opened, join.conn, rev} \subseteq Nat
        /\ "members" \in Facet /\ "settings" \in Facet
        /\ \A f \in Facet : at[f] \in Nat
    BY DEF TypeOK, Conn, Call, Rev, Facet
  <1>2. ASSUME NEW f \in Facet, Change(f)
        PROVE  WireSound'
    BY <1>1, <1>2, AnnouncedWire DEF Change, WireSound
  <1>3. CASE PatchRoom
    <2>1. rev < MaxRev
      BY <1>3, SessionAssumption DEF PatchRoom, GateFree, TypeOK, Rev
    <2> QED
      BY <1>1, <1>3, <2>1, AnnouncedWire DEF PatchRoom, WireSound
  <1>4. CASE Tick
    BY <1>1, <1>4, AnnouncedWire DEF Tick, WireSound
  <1>5. CASE JoinBinds
    BY <1>1, <1>5, AnnouncedWire DEF JoinBinds, WireSound, ConnSound
  <1>6. CASE HubCloses
    BY <1>1, <1>6 DEF HubCloses, WireSound
  <1>7. CASE Drop
    BY <1>1, <1>7, EmptySeq DEF Drop, WireSound, serverVars
  <1>8. CASE Connect
    BY <1>1, <1>8, WireTyped DEF Connect, WireSound, ConnSound
  <1>9. CASE OnEvent
    <2>1. UNCHANGED <<rev, at, bound, hub, up>>
      BY <1>9 DEF OnEvent, serverVars
    <2>2. wire \in Seq(Event) /\ wire # <<>> /\ wire' = Tail(wire)
      BY <1>9 DEF OnEvent, TypeOK
    <2>3. /\ Len(wire) \in Nat \ {0} /\ Len(wire') = Len(wire) - 1
          /\ \A i \in 1 .. Len(wire') : wire'[i] = wire[i + 1]
          /\ wire' # <<>> => Len(wire) > 1
      BY <2>2, Taken
    <2>4. wire' # <<>> => wire'[Len(wire')] = wire[Len(wire)]
      BY <2>3
    <2>5. \A i \in 1 .. Len(wire') - 1 : wire'[i + 1].rev = wire'[i].rev + 1
      <3> TAKE i \in 1 .. Len(wire') - 1
      <3>1. wire'[i] = wire[i + 1] /\ wire'[i + 1] = wire[i + 2]
        BY <2>3
      <3>2. i + 1 \in 1 .. Len(wire) - 1 /\ (i + 1) + 1 = i + 2
        BY <2>3
      <3> QED
        BY <3>1, <3>2 DEF WireSound
    <2>6. \A i \in 1 .. Len(wire') : i + 1 \in 1 .. Len(wire)
      BY <2>3
    <2> QED
      BY <2>1, <2>2, <2>3, <2>4, <2>5, <2>6 DEF WireSound
  <1>10. CASE \/ PatchRow \/ ServeFetch \/ FetchAnswered \/ FetchFailed
              \/ Enter \/ JoinReads \/ JoinViews \/ Adopt \/ EnterFailed
              \/ Rejoined \/ RejoinFailed \/ RetryFires \/ ActionRefused
              \/ CallFails \/ UNCHANGED vars
    <2>1. UNCHANGED <<rev, at, bound, hub, up, wire>>
      BY <1>10 DEF PatchRow, ServeFetch, FetchAnswered, FetchFailed, Enter,
            JoinReads, JoinViews, Adopt, EnterFailed, Rejoined, RejoinFailed,
            RetryFires, ActionRefused, CallFails, serverVars, vars
    <2> QED
      BY <2>1 DEF WireSound
  <1> QED
    BY <1>2, <1>3, <1>4, <1>5, <1>6, <1>7, <1>8, <1>9, <1>10 DEF Next

LEMMA StreamKept ==
    ASSUME TypeOK, StreamInv, [Next]_vars
    PROVE  StreamInv'
  BY ServerKept, ConnKept, WireKept DEF StreamInv

-----------------------------------------------------------------------------
(* The answers.                                                             *)

(* The steps that make a revision, and those that apply an answer. *)
Telling == (\E f \in Facet : Change(f)) \/ PatchRoom \/ Tick \/ JoinBinds

Applying == FetchAnswered \/ Rejoined \/ Adopt

(* What an answer tells of what moves is the newest of its revision; it is  *)
(* not older than what is shown, or on its way, of that revision.           *)
Newest(c) ==
    c.step = "answered" =>
      /\ c.rev <= rev
      /\ \A f \in Moving :
           /\ c.seen[f] <= at[f] /\ c.seen[f] <= c.rev
           /\ at[f] <= c.rev => c.seen[f] = at[f]
           /\ shown[f] <= c.rev => shown[f] <= c.seen[f]
           /\ \A i \in 1 .. Len(wire) :
                wire[i].facet = f /\ wire[i].rev <= c.rev => wire[i].rev <= c.seen[f]

(* Nor is it older than the other answer, as far as its revision goes. *)
Agree(c, d) ==
    c.step = "answered" /\ d.step = "answered" =>
      \A f \in Moving : c.seen[f] <= d.rev => c.seen[f] <= d.seen[f]

(* Nothing is shown that is newer than the revision applied, or than the    *)
(* party.                                                                  *)
ShownIsPast ==
    /\ lastRev <= rev
    /\ \A f \in Moving : shown[f] <= lastRev /\ shown[f] <= at[f]

AnswerInv ==
    /\ Newest(fetch) /\ Newest(join)
    /\ Agree(fetch, join) /\ Agree(join, fetch)
    /\ ShownIsPast

LEMMA AnswerTyped ==
    ASSUME TypeOK
    PROVE  /\ rev \in Nat /\ lastRev \in Nat
           /\ Moving \subseteq Facet
           /\ \A f \in Facet : at[f] \in Nat /\ shown[f] \in Nat
           /\ \A c \in Call : c.rev \in Nat /\ \A f \in Facet : c.seen[f] \in Nat
  BY DEF TypeOK, Rev, Moving, Call

LEMMA InitAnswer == Init => AnswerInv
  BY EmptySeq DEF Init, AnswerInv, Newest, Agree, ShownIsPast, NoCall, Nothing,
                  Facet, Moving

(* What a new revision changes, whoever made it. *)
LEMMA Told ==
    ASSUME TypeOK, ServerSound, Telling
    PROVE  /\ rev' = rev + 1 /\ rev < MaxRev
           /\ \A f \in Facet : at'[f] = at[f] \/ at'[f] = rev + 1
           /\ \A f \in Facet : at'[f] \in Rev /\ at[f] <= at'[f]
           /\ Len(wire') \in {Len(wire), Len(wire) + 1}
           /\ \A i \in 1 .. Len(wire) : wire'[i] = wire[i]
           /\ Len(wire') = Len(wire) + 1 => wire'[Len(wire')].rev = rev + 1
           /\ UNCHANGED <<hub, up, opened, fetch, clientVars, inParty,
                          refetchAgain, owed, missed, deaf>>
           /\ join' = join \/ (join.step = "read" /\ join'.step = "joined")
  <1> DEFINE Announces == \E facet \in Facet, to \in Conn : Announce(facet, to)
  <1>1. Announces /\ rev < MaxRev
    <2>1. "members" \in Facet /\ "settings" \in Facet /\ bound \in Conn
          /\ join.conn \in Conn /\ 0 \in Conn
      BY SessionAssumption DEF Facet, TypeOK, Call, Conn
    <2>2. PatchRoom => rev < MaxRev
      BY SessionAssumption DEF PatchRoom, GateFree, TypeOK, Rev
    <2> QED
      BY <2>1, <2>2 DEF Telling, Change, PatchRoom, Tick, JoinBinds
  <1>2. PICK facet \in Facet, to \in Conn : Announce(facet, to)
    BY <1>1
  <1>3. /\ rev \in Nat /\ \A f \in Facet : at[f] \in Nat /\ at[f] <= rev
    BY AnswerTyped DEF ServerSound
  <1>4. /\ rev' = rev + 1 /\ rev < MaxRev
        /\ \A f \in Facet : at'[f] = at[f] \/ at'[f] = rev + 1
        /\ \A f \in Facet : at'[f] \in Rev /\ at[f] <= at'[f]
    <2> HIDE DEF Announces
    <2> QED
      BY <1>1, <1>2, <1>3, Announced
  <1>5. /\ Len(wire') \in {Len(wire), Len(wire) + 1}
        /\ \A i \in 1 .. Len(wire) : wire'[i] = wire[i]
        /\ Len(wire') = Len(wire) + 1 => wire'[Len(wire')].rev = rev + 1
    <2> HIDE DEF Announces
    <2> QED
      BY <1>1, <1>2, Announced
  <1>6. UNCHANGED <<hub, up, opened, fetch, clientVars, inParty,
                    refetchAgain, owed, missed, deaf>>
    BY Zenon DEF Telling, Change, PatchRoom, Tick, JoinBinds, clientVars
  <1>7. join' = join \/ (join.step = "read" /\ join'.step = "joined")
    BY DEF Telling, Change, PatchRoom, Tick, JoinBinds, TypeOK, Call
  <1> HIDE DEF Announces
  <1> QED
    BY <1>4, <1>5, <1>6, <1>7

(* How a call gets to be answered: it was, or the machine has been read. *)
LEMMA FetchSteps ==
    ASSUME TypeOK, [Next]_vars
    PROVE  \/ fetch' = fetch
           \/ fetch'.step \in {"idle", "asked", "failed"} /\ fetch'.seen = Nothing
           \/ ServeFetch
  <1> USE PlainCalls
  <1>1. CASE FetchAnswered \/ FetchFailed
    BY <1>1 DEF FetchAnswered, FetchFailed, FetchEnds
  <1>2. CASE OnEvent
    BY <1>2 DEF OnEvent, Refetch
  <1>3. CASE CallFails
    BY <1>3 DEF CallFails
  <1>4. CASE \/ \E f \in Facet : Change(f)
             \/ PatchRow \/ PatchRoom \/ Tick \/ HubCloses
             \/ Enter \/ JoinReads \/ JoinBinds \/ JoinViews \/ Adopt \/ EnterFailed
             \/ Rejoined \/ RejoinFailed \/ RetryFires \/ ActionRefused
             \/ Drop \/ Connect \/ UNCHANGED vars
    BY <1>4, Zenon DEF Change, PatchRow, PatchRoom, Tick, HubCloses, Enter,
          JoinReads, JoinBinds, JoinViews, Adopt, EnterFailed, Rejoined,
          RejoinFailed, RetryFires, ActionRefused, Drop, Connect, vars
  <1> QED
    BY <1>1, <1>2, <1>3, <1>4 DEF Next

LEMMA JoinSteps ==
    ASSUME TypeOK, [Next]_vars
    PROVE  \/ join' = join
           \/ join'.step \in {"idle", "asked", "failed"} /\ join'.seen = Nothing
           \/ JoinReads \/ JoinBinds \/ JoinViews
  <1> USE PlainCalls
  <1>1. CASE \/ Enter \/ Adopt \/ EnterFailed \/ Rejoined \/ RejoinFailed
             \/ RetryFires \/ ActionRefused
    BY <1>1 DEF Enter, Adopt, EnterFailed, Rejoined, RejoinFailed, RetryFires,
                ActionRefused, Rejoin
  <1>2. CASE Connect
    BY <1>2 DEF Connect, Reconnected, Rejoin
  <1>3. CASE CallFails
    BY <1>3 DEF CallFails
  <1>4. CASE \/ \E f \in Facet : Change(f)
             \/ PatchRow \/ PatchRoom \/ Tick \/ HubCloses
             \/ ServeFetch \/ FetchAnswered \/ FetchFailed
             \/ Drop \/ OnEvent \/ UNCHANGED vars
    BY <1>4, Zenon DEF Change, PatchRow, PatchRoom, Tick, HubCloses, ServeFetch,
          FetchAnswered, FetchFailed, Drop, OnEvent, vars
  <1> QED
    BY <1>1, <1>2, <1>3, <1>4 DEF Next

(* What is shown changes with an answer that is applied, whole, or with an  *)
(* event.                                                                  *)
LEMMA ShownSteps ==
    ASSUME TypeOK, [Next]_vars
    PROVE  \/ UNCHANGED <<lastRev, shown>>
           \/ OnEvent
           \/ /\ Applying
              /\ \E c \in {fetch, join} :
                   /\ c.step = "answered"
                   /\ lastRev' = c.rev /\ shown' = c.seen
                   /\ inParty => lastRev <= c.rev
  <1>1. CASE FetchAnswered
    BY <1>1, AnswerTyped DEF FetchAnswered, ApplySnapshot, TooOld, Applying, TypeOK
  <1>2. CASE Rejoined
    BY <1>2, AnswerTyped DEF Rejoined, ApplySnapshot, TooOld, Applying, TypeOK
  <1>3. CASE Adopt
    BY <1>3 DEF Adopt, Applying
  <1>4. CASE \/ \E f \in Facet : Change(f)
             \/ PatchRow \/ PatchRoom \/ Tick \/ HubCloses
             \/ ServeFetch \/ FetchFailed
             \/ Enter \/ JoinReads \/ JoinBinds \/ JoinViews \/ EnterFailed
             \/ RejoinFailed \/ RetryFires \/ ActionRefused
             \/ Drop \/ Connect \/ CallFails \/ UNCHANGED vars
    BY <1>4, Zenon DEF Change, PatchRow, PatchRoom, Tick, HubCloses, ServeFetch,
          FetchFailed, Enter, JoinReads, JoinBinds, JoinViews, EnterFailed,
          RejoinFailed, RetryFires, ActionRefused, Drop, Connect, CallFails,
          clientVars, vars
  <1> QED
    BY <1>1, <1>2, <1>3, <1>4 DEF Next

(* The wire and the revisions change with a revision, an event taken or a   *)
(* stream lost.                                                            *)
LEMMA PartySteps ==
    ASSUME [Next]_vars
    PROVE  Telling \/ OnEvent \/ Drop \/ UNCHANGED <<rev, at, wire>>
  BY Zenon DEF Next, Telling, PatchRow, HubCloses, ServeFetch,
       FetchAnswered, FetchFailed, Enter, JoinReads, JoinViews, Adopt,
       EnterFailed, Rejoined, RejoinFailed, RetryFires, ActionRefused, Connect,
       CallFails, serverVars, vars

(* What an answer tells stays the newest of its revision, whatever the      *)
(* party does and whatever is applied meanwhile.                           *)
LEMMA NewestStays ==
    ASSUME TypeOK, StreamInv, AnswerInv, [Next]_vars,
           NEW c \in Call, c.step = "answered", Newest(c),
           Agree(fetch, c), Agree(join, c)
    PROVE  Newest(c)'
  <1> USE AnswerTyped, WireTyped DEF Newest
  <1>1. CASE Telling
    <2>1. UNCHANGED shown
      BY <1>1, Told, Zenon DEF clientVars, StreamInv
    <2>2. /\ c.rev <= rev'
          /\ \A f \in Moving : /\ c.seen[f] <= at'[f]
                               /\ at'[f] <= c.rev => c.seen[f] = at'[f]
      <3>1. /\ rev' = rev + 1
            /\ \A f \in Facet : at'[f] = at[f] \/ at'[f] = rev + 1
        BY <1>1, Told DEF StreamInv
      <3> QED
        BY <3>1
    <2>3. ASSUME NEW f \in Moving, NEW i \in 1 .. Len(wire'),
                 wire'[i].facet = f, wire'[i].rev <= c.rev
          PROVE  wire'[i].rev <= c.seen[f]
      <3>1. /\ Len(wire') \in {Len(wire), Len(wire) + 1}
            /\ \A j \in 1 .. Len(wire) : wire'[j] = wire[j]
            /\ Len(wire') = Len(wire) + 1 => wire'[Len(wire')].rev = rev + 1
        BY <1>1, Told DEF StreamInv
      <3>2. i \in 1 .. Len(wire) \/ wire'[i].rev = rev + 1
        BY <3>1
      <3>3. i \in 1 .. Len(wire)
        BY <2>3, <3>2
      <3> QED
        BY <2>3, <3>1, <3>3
    <2> QED
      BY <2>1, <2>2, <2>3
  <1>2. CASE OnEvent
    <2>1. wire \in Seq(Event) /\ wire # <<>> /\ wire' = Tail(wire)
      BY <1>2 DEF OnEvent, TypeOK
    <2>2. /\ Len(wire) \in Nat \ {0} /\ Head(wire) = wire[1]
          /\ \A i \in 1 .. Len(wire') : wire'[i] = wire[i + 1] /\ i + 1 \in 1 .. Len(wire)
      BY <2>1, Taken
    <2>3. UNCHANGED <<rev, at>>
      BY <1>2 DEF OnEvent, serverVars
    <2>4. wire[1].facet \in Facet /\ wire[1].rev \in Nat
      BY <2>2 DEF Rev
    <2>5. \/ UNCHANGED shown
          \/ shown' = [shown EXCEPT ![wire[1].facet] = wire[1].rev]
      BY <1>2, <2>2 DEF OnEvent
    <2>6. \A f \in Facet : \/ shown'[f] = shown[f]
                           \/ f = wire[1].facet /\ shown'[f] = wire[1].rev
      BY <2>4, <2>5 DEF TypeOK
    <2>7. \A f \in Moving : shown'[f] <= c.rev => shown'[f] <= c.seen[f]
      BY <2>2, <2>6
    <2> QED
      BY <2>2, <2>3, <2>7
  <1>3. CASE Drop
    BY <1>3, EmptySeq DEF Drop, serverVars
  <1>4. CASE UNCHANGED <<rev, at, wire>>
    <2>1. CASE UNCHANGED shown
      BY <1>4, <2>1
    <2>2. ASSUME NEW d \in {fetch, join}, d.step = "answered", shown' = d.seen
          PROVE  Newest(c)'
      BY <1>4, <2>2 DEF Agree
    <2> QED
      BY <1>2, <2>1, <2>2, ShownSteps
  <1> QED
    BY <1>1, <1>2, <1>3, <1>4, PartySteps

(* An answer read now is the newest there is, and agrees with any other. *)
LEMMA ReadIsNewest ==
    ASSUME TypeOK, StreamInv, AnswerInv, NEW c \in Call, NEW d \in Call,
           d = ReadView(c), UNCHANGED <<rev, at, wire, shown>>
    PROVE  /\ Newest(d)'
           /\ \A b \in Call : Newest(b) => Agree(b, d) /\ Agree(d, b)
  <1> USE AnswerTyped, WireTyped
  <1>1. /\ d.step = "answered" /\ d.rev = rev
        /\ \A f \in Moving : d.seen[f] = at[f]
    BY ViewIsRead
  <1>2. Newest(d)'
    <2>1. \A f \in Moving : at[f] <= rev /\ shown[f] <= at[f]
      BY DEF StreamInv, ServerSound, AnswerInv, ShownIsPast
    <2>2. \A f \in Moving : \A i \in 1 .. Len(wire) :
            wire[i].facet = f => wire[i].rev <= at[f]
      BY DEF StreamInv, WireSound
    <2> QED
      BY <1>1, <2>1, <2>2 DEF Newest
  <1>3. \A b \in Call : Newest(b) => Agree(b, d) /\ Agree(d, b)
    BY <1>1 DEF Agree, Newest
  <1> QED
    BY <1>2, <1>3

LEMMA AgreeReflexive ==
    ASSUME NEW c \in Call
    PROVE  Agree(c, c)
  BY DEF Agree, Call, Rev, Moving

LEMMA FetchNewest ==
    ASSUME TypeOK, StreamInv, AnswerInv, [Next]_vars
    PROVE  Newest(fetch)'
  <1>1. fetch \in Call
    BY DEF TypeOK
  <1>2. CASE fetch' = fetch
    <2>1. \A c \in Call : c = fetch /\ c.step = "answered" => Newest(c)'
      BY <1>1, AgreeReflexive, NewestStays DEF AnswerInv
    <2> QED
      BY <1>1, <1>2, <2>1 DEF Newest
  <1>3. CASE fetch'.step \in {"idle", "asked", "failed"}
    BY <1>3 DEF Newest
  <1>4. CASE ServeFetch
    <2>1. CASE fetch' = ReadRow(fetch)
      BY <1>1, <2>1, RowIsRead DEF Newest
    <2>2. CASE fetch' = ReadView(fetch)
      <3>1. UNCHANGED <<rev, at, wire, shown>>
        BY <1>4 DEF ServeFetch, serverVars, clientVars
      <3>2. \A d \in Call : d = ReadView(fetch) => Newest(d)'
        BY <1>1, <3>1, ReadIsNewest
      <3> QED
        BY <1>1, <2>2, <3>2, ViewIsRead DEF Newest
    <2> QED
      BY <1>4, <2>1, <2>2 DEF ServeFetch
  <1> QED
    BY <1>2, <1>3, <1>4, FetchSteps

LEMMA JoinNewest ==
    ASSUME TypeOK, StreamInv, AnswerInv, [Next]_vars
    PROVE  Newest(join)'
  <1>1. join \in Call
    BY DEF TypeOK
  <1>2. CASE join' = join
    <2>1. \A c \in Call : c = join /\ c.step = "answered" => Newest(c)'
      BY <1>1, AgreeReflexive, NewestStays DEF AnswerInv
    <2> QED
      BY <1>1, <1>2, <2>1 DEF Newest
  <1>3. CASE join'.step # "answered"
    BY <1>3 DEF Newest
  <1>4. CASE JoinReads
    <2>1. join'.step # "answered"
      BY <1>1, <1>4, RowIsRead DEF JoinReads, Call
    <2> QED
      BY <1>3, <2>1
  <1>5. CASE JoinBinds
    <2>1. join'.step # "answered"
      BY <1>1, <1>5 DEF JoinBinds, Call
    <2> QED
      BY <1>3, <2>1
  <1>6. CASE JoinViews
    <2>1. UNCHANGED <<rev, at, wire, shown>> /\ join' = ReadView(join)
      BY <1>6 DEF JoinViews, serverVars, clientVars
    <2>2. \A d \in Call : d = ReadView(join) => Newest(d)'
      BY <1>1, <2>1, ReadIsNewest
    <2> QED
      BY <1>1, <2>1, <2>2, ViewIsRead DEF Newest
  <1> QED
    BY <1>2, <1>3, <1>4, <1>5, <1>6, JoinSteps

(* Of two answers the later one read more: each agrees with the other. *)
LEMMA AgreeKept ==
    ASSUME TypeOK, StreamInv, AnswerInv, [Next]_vars
    PROVE  Agree(fetch, join)' /\ Agree(join, fetch)'
  <1> DEFINE Both == fetch'.step = "answered" /\ join'.step = "answered"
  <1>1. fetch \in Call /\ join \in Call
    BY DEF TypeOK
  <1>2. CASE ~Both
    BY <1>2 DEF Agree
  <1>3. CASE fetch' = fetch /\ join' = join
    BY <1>3 DEF Agree, AnswerInv
  <1>4. CASE fetch' = ReadView(fetch) /\ join' = join
    <2>1. Agree(join, ReadView(fetch)) /\ Agree(ReadView(fetch), join)
      BY <1>1, AnswerTyped, ViewIsRead DEF Agree, Newest, AnswerInv
    <2> QED
      BY <1>4, <2>1 DEF Agree
  <1>5. CASE join' = ReadView(join) /\ fetch' = fetch
    <2>1. Agree(fetch, ReadView(join)) /\ Agree(ReadView(join), fetch)
      BY <1>1, AnswerTyped, ViewIsRead DEF Agree, Newest, AnswerInv
    <2> QED
      BY <1>5, <2>1 DEF Agree
  <1>6. CASE Both /\ fetch' # fetch
    <2>1. ServeFetch
      BY <1>6, FetchSteps
    <2>2. fetch' = ReadView(fetch)
      BY <1>1, <1>6, <2>1, RowIsRead DEF ServeFetch
    <2> QED
      BY <1>4, <2>1, <2>2 DEF ServeFetch
  <1>7. CASE Both /\ join' # join
    <2>1. JoinViews
      <3>1. JoinReads => join'.step # "answered"
        BY <1>1, RowIsRead DEF JoinReads, Call
      <3>2. JoinBinds => join'.step # "answered"
        BY <1>1 DEF JoinBinds, Call
      <3> QED
        BY <1>7, <3>1, <3>2, JoinSteps
    <2> QED
      BY <1>5, <2>1 DEF JoinViews
  <1> QED
    BY <1>2, <1>3, <1>6, <1>7

LEMMA ShownKept ==
    ASSUME TypeOK, StreamInv, AnswerInv, [Next]_vars
    PROVE  ShownIsPast'
  <1> USE AnswerTyped DEF ShownIsPast, AnswerInv
  <1>1. /\ rev' \in Nat /\ rev <= rev'
        /\ \A f \in Facet : at'[f] \in Nat /\ at[f] <= at'[f]
    <2>1. CASE Telling
      BY <2>1, Told DEF StreamInv, Rev
    <2>2. CASE UNCHANGED <<rev, at>>
      BY <2>2
    <2> QED
      BY <2>1, <2>2, PartySteps DEF OnEvent, Drop, serverVars
  <1>2. CASE UNCHANGED <<lastRev, shown>>
    BY <1>1, <1>2
  <1>3. CASE OnEvent
    <2>1. wire \in Seq(Event) /\ wire # <<>>
      BY <1>3 DEF OnEvent, TypeOK
    <2>2. Head(wire) = wire[1] /\ 1 \in 1 .. Len(wire)
      BY <2>1, Taken
    <2>3. wire[1].rev <= at[wire[1].facet] /\ wire[1].facet \in Facet
          /\ wire[1].rev \in Nat /\ wire[1].rev <= rev
      BY <2>2, WireTyped DEF StreamInv, WireSound, ServerSound, Rev
    <2>4. CASE /\ lastRev' = wire[1].rev /\ lastRev < wire[1].rev
               /\ shown' = [shown EXCEPT ![wire[1].facet] = wire[1].rev]
      <3>1. \A f \in Facet : \/ shown'[f] = shown[f]
                             \/ f = wire[1].facet /\ shown'[f] = wire[1].rev
        BY <2>3, <2>4 DEF TypeOK
      <3>2. \A f \in Moving : shown'[f] <= lastRev' /\ shown'[f] <= at[f]
        BY <2>3, <2>4, <3>1
      <3> QED
        BY <1>1, <2>3, <2>4, <3>1, <3>2
    <2> QED
      BY <1>2, <1>3, <2>2, <2>3, <2>4 DEF OnEvent, Acceptable
  <1>4. ASSUME NEW c \in {fetch, join}, c.step = "answered",
               lastRev' = c.rev, shown' = c.seen
        PROVE  ShownIsPast'
    <2>1. c \in Call
      BY DEF TypeOK
    <2> QED
      BY <1>1, <1>4, <2>1 DEF Newest
  <1> QED
    BY <1>2, <1>3, <1>4, ShownSteps

LEMMA AnswerKept ==
    ASSUME TypeOK, StreamInv, AnswerInv, [Next]_vars
    PROVE  AnswerInv'
  BY FetchNewest, JoinNewest, AgreeKept, ShownKept DEF AnswerInv

(* Within one session nothing that moves is shown older than it was. *)
LEMMA NothingOlder ==
    ASSUME TypeOK, StreamInv, AnswerInv, [Next]_vars, inParty
    PROVE  /\ lastRev' >= lastRev
           /\ \A f \in Facet \ {"settings"} : shown'[f] >= shown[f]
  <1> USE AnswerTyped DEF AnswerInv, ShownIsPast, Moving
  <1>1. CASE UNCHANGED <<lastRev, shown>>
    BY <1>1
  <1>2. CASE OnEvent
    <2>1. wire \in Seq(Event) /\ wire # <<>>
      BY <1>2 DEF OnEvent, TypeOK
    <2>2. Head(wire).rev \in Nat /\ Head(wire).facet \in Facet
      <3>1. Head(wire) \in Event
        BY <2>1, Taken
      <3> QED
        BY <3>1 DEF Event, Rev
    <2>3. CASE /\ lastRev' = Head(wire).rev /\ lastRev < Head(wire).rev
               /\ shown' = [shown EXCEPT ![Head(wire).facet] = Head(wire).rev]
      BY <2>2, <2>3 DEF TypeOK
    <2> QED
      BY <1>1, <1>2, <2>2, <2>3 DEF OnEvent, Acceptable
  <1>3. ASSUME NEW c \in {fetch, join}, c.step = "answered", Applying,
               lastRev' = c.rev, shown' = c.seen, lastRev <= c.rev
        PROVE  /\ lastRev' >= lastRev
               /\ \A f \in Moving : shown'[f] >= shown[f]
    <2>1. c \in Call
      BY DEF TypeOK
    <2> QED
      BY <1>3, <2>1 DEF Newest
  <1> QED
    BY <1>1, <1>2, <1>3, ShownSteps

-----------------------------------------------------------------------------
(* The connection.                                                          *)

(* Before the person is in the party nothing but the join is under way. *)
Outside ==
    ~inParty => ~Busy(fetch) /\ ~retry /\ ~needsRejoin /\ owed = 0

(* A join that ran on the client's stream binds the member to it, and in    *)
(* the party the member stays bound until something shows otherwise.       *)
HearSound ==
    ~deaf /\ up # 0 /\ hub = up =>
      /\ join.step = "read" => join.conn = up
      /\ join.step \in {"joined", "answered"} => bound = up
      /\ inParty /\ ~needsRejoin => bound = up \/ Busy(join) \/ retry

HearInv == Outside /\ RejoinIsPursued /\ HearSound

LEMMA InitHear == Init => HearInv
  BY DEF Init, HearInv, Outside, RejoinIsPursued, HearSound, Busy, NoCall

(* A fetch, a retry and a gap begin in the party, which is never left. *)
LEMMA OutsideKept ==
    ASSUME TypeOK, Outside, [Next]_vars
    PROVE  Outside'
  <1> USE DEF Outside, Busy
  <1>1. CASE FetchAnswered
    BY <1>1, Zenon DEF FetchAnswered
  <1>2. CASE FetchFailed
    BY <1>2 DEF FetchFailed, clientVars
  <1>3. CASE ServeFetch
    BY <1>3 DEF ServeFetch, clientVars
  <1>4. CASE CallFails
    BY <1>4 DEF CallFails, clientVars
  <1>5. CASE OnEvent
    BY <1>5, Zenon DEF OnEvent
  <1>6. CASE Adopt \/ Rejoined \/ RejoinFailed \/ ActionRefused
    <2>1. inParty'
      BY <1>6 DEF Adopt, Rejoined, RejoinFailed, ActionRefused
    <2> QED
      BY <2>1, Zenon
  <1>7. CASE RetryFires
    BY <1>7, Zenon DEF RetryFires
  <1>8. CASE Drop
    BY <1>8, Zenon DEF Drop
  <1>9. CASE \/ \E f \in Facet : Change(f)
             \/ PatchRow \/ PatchRoom \/ Tick \/ HubCloses
             \/ Enter \/ JoinReads \/ JoinBinds \/ JoinViews \/ EnterFailed
             \/ Connect \/ UNCHANGED vars
    BY <1>9, Zenon DEF Change, PatchRow, PatchRoom, Tick, HubCloses, Enter,
          JoinReads, JoinBinds, JoinViews, EnterFailed, Connect, clientVars, vars
  <1> QED
    BY <1>1, <1>2, <1>3, <1>4, <1>5, <1>6, <1>7, <1>8, <1>9 DEF Next

(* A join only stops being under way by being applied, or by failing. *)
LEMMA PursuitKept ==
    ASSUME TypeOK, HearInv, [Next]_vars
    PROVE  RejoinIsPursued'
  <1> USE PlainCalls DEF HearInv, RejoinIsPursued, Busy
  <1>1. join \in Call
    BY DEF TypeOK
  <1>2. CASE JoinReads
    <2>1. join'.step # "idle" /\ UNCHANGED <<needsRejoin, retry, up>>
      BY <1>1, <1>2, RowIsRead DEF JoinReads, Call, clientVars
    <2> QED
      BY <1>2, <2>1
  <1>3. CASE JoinBinds
    BY <1>1, <1>3 DEF JoinBinds, Call, clientVars
  <1>4. CASE JoinViews
    BY <1>1, <1>4, ViewIsRead DEF JoinViews, clientVars
  <1>5. CASE Adopt \/ Rejoined
    BY <1>5 DEF Adopt, Rejoined
  <1>6. CASE EnterFailed
    BY <1>6 DEF EnterFailed, Outside, clientVars
  <1>7. CASE RejoinFailed
    BY <1>7 DEF RejoinFailed
  <1>8. CASE Enter
    BY <1>8 DEF Enter, clientVars
  <1>9. CASE RetryFires \/ ActionRefused
    BY <1>9 DEF RetryFires, ActionRefused, Rejoin
  <1>10. CASE Drop
    BY <1>10 DEF Drop
  <1>11. CASE Connect
    BY <1>11 DEF Connect, Reconnected, Rejoin, Outside, clientVars
  <1>12. CASE CallFails
    BY <1>12 DEF CallFails, clientVars
  <1>13. CASE \/ \E f \in Facet : Change(f)
              \/ PatchRow \/ PatchRoom \/ Tick \/ HubCloses
              \/ ServeFetch \/ FetchAnswered \/ FetchFailed
              \/ OnEvent \/ UNCHANGED vars
    <2>1. UNCHANGED <<needsRejoin, retry, up, join>>
      BY <1>13, Zenon DEF Change, PatchRow, PatchRoom, Tick, HubCloses, ServeFetch,
            FetchAnswered, FetchFailed, OnEvent, clientVars, vars
    <2> QED
      BY <2>1
  <1> QED
    BY <1>2, <1>3, <1>4, <1>5, <1>6, <1>7, <1>8, <1>9, <1>10, <1>11, <1>12,
       <1>13 DEF Next

(* A join binds what it found; the tick takes only who is not connected;    *)
(* and a new stream is joined on, or makes the client deaf.                 *)
LEMMA HearKept ==
    ASSUME TypeOK, HearInv, StreamInv, [Next]_vars
    PROVE  HearSound'
  <1> USE PlainCalls DEF HearInv, HearSound, Busy
  <1>1. join \in Call /\ {up, hub, bound, opened} \subseteq Nat
    BY DEF TypeOK, Conn
  <1>2. CASE JoinReads
    <2>1. /\ join'.step \in {"read", "failed"}
          /\ join'.step = "read" => join'.conn = hub
          /\ UNCHANGED <<needsRejoin, retry, up, hub, bound, deaf, inParty>>
      BY <1>1, <1>2, RowIsRead DEF JoinReads, Call, clientVars, serverVars
    <2> QED
      BY <1>2, <2>1
  <1>3. CASE JoinBinds
    <2>1. /\ join'.step = "joined" /\ bound' = join.conn /\ join.step = "read"
          /\ UNCHANGED <<needsRejoin, retry, up, hub, deaf, inParty>>
      BY <1>1, <1>3 DEF JoinBinds, Call, clientVars
    <2> QED
      BY <2>1
  <1>4. CASE JoinViews
    <2>1. /\ join'.step = "answered" /\ join.step = "joined"
          /\ UNCHANGED <<needsRejoin, retry, up, hub, bound, deaf, inParty>>
      BY <1>1, <1>4, ViewIsRead DEF JoinViews, clientVars, serverVars
    <2> QED
      BY <2>1
  <1>5. CASE Adopt \/ Rejoined
    <2>1. /\ join'.step = "idle" /\ join.step = "answered"
          /\ UNCHANGED <<up, hub, bound, deaf>>
      BY <1>5 DEF Adopt, Rejoined, serverVars
    <2> QED
      BY <2>1
  <1>6. CASE EnterFailed
    BY <1>6 DEF EnterFailed, clientVars, serverVars
  <1>7. CASE RejoinFailed
    BY <1>7 DEF RejoinFailed, serverVars
  <1>8. CASE Enter
    BY <1>8 DEF Enter, clientVars, serverVars
  <1>9. CASE RetryFires \/ ActionRefused
    BY <1>9 DEF RetryFires, ActionRefused, Rejoin, serverVars
  <1>10. CASE Drop
    BY <1>10 DEF Drop
  <1>11. CASE Connect
    <2>1. CASE inParty /\ ~Busy(join)
      BY <1>11, <2>1 DEF Connect, Reconnected, Rejoin, clientVars
    <2>2. CASE ~(inParty /\ ~Busy(join))
      <3>1. /\ join' = join
            /\ deaf' = (deaf \/ join.step \in {"read", "joined", "answered"})
            /\ UNCHANGED <<needsRejoin, retry, inParty>>
        BY <1>11, <2>2 DEF Connect, Reconnected, clientVars
      <3> QED
        BY <2>2, <3>1
    <2> QED
      BY <2>1, <2>2
  <1>12. CASE CallFails
    BY <1>12 DEF CallFails, clientVars, serverVars
  <1>13. CASE Tick
    <2>1. /\ bound # hub /\ UNCHANGED <<needsRejoin, retry, up, hub, deaf, inParty, join>>
      BY <1>13 DEF Tick, clientVars
    <2> QED
      BY <2>1
  <1>14. CASE HubCloses
    BY <1>14 DEF HubCloses
  <1>15. CASE \/ \E f \in Facet : Change(f)
              \/ PatchRow \/ PatchRoom
              \/ ServeFetch \/ FetchAnswered \/ FetchFailed
              \/ OnEvent \/ UNCHANGED vars
    <2>1. UNCHANGED <<needsRejoin, retry, up, hub, bound, deaf, inParty, join>>
      BY <1>15, Zenon DEF Change, PatchRow, PatchRoom, ServeFetch,
            FetchAnswered, FetchFailed, OnEvent, clientVars, serverVars, vars
    <2> QED
      BY <2>1
  <1> QED
    BY <1>2, <1>3, <1>4, <1>5, <1>6, <1>7, <1>8, <1>9, <1>10, <1>11, <1>12,
       <1>13, <1>14, <1>15 DEF Next

LEMMA HearInvKept ==
    ASSUME TypeOK, HearInv, StreamInv, [Next]_vars
    PROVE  HearInv'
  BY OutsideKept, PursuitKept, HearKept DEF HearInv

-----------------------------------------------------------------------------
(* The view.                                                                *)

(* What is seen is the party as of revision r, or the settings of a PATCH   *)
(* whose row is written and whose revision is still to come.               *)
TrueAt(seen, r) ==
    \A f \in Facet :
      at[f] <= r => \/ seen[f] = at[f]
                    \/ f = "settings" /\ ~GateFree /\ seen[f] = row

(* The settings a call saw were the row's: they are the machine's, older or *)
(* about to be.  An answer whose row is not older is true of its revision.  *)
SettingsSound(c) == c.seen.settings <= at.settings \/ c.seen.settings = row

WholeSound(c) == c.step = "answered" /\ c.whole => TrueAt(c.seen, c.rev)

Listening == up # 0 /\ hub = up /\ bound = up

(* The first answer is not older than what is still on its way; ... *)
FirstAnswer ==
    ~inParty /\ join.step = "answered" /\ ~missed /\ Listening =>
      IF wire = <<>> THEN join.rev = rev ELSE wire[1].rev <= join.rev + 1

(* ... and once nothing is, a client in the party is up to date or has      *)
(* missed a change, with nothing under way that could show it.             *)
UpToDate ==
    inParty /\ Listening /\ wire = <<>> =>
      \/ lastRev = rev
      \/ missed /\ ~Busy(join) /\ ~Busy(fetch) /\ ~retry

CaughtUp == FirstAnswer /\ UpToDate

(* A gap is before what was applied, ... *)
OwedPast == owed <= lastRev

(* ... and so is the next event, or it is before the answer of the join; *)
NextIsNear ==
    inParty /\ wire # <<>> /\ join.step = "answered" =>
      wire[1].rev <= lastRev + 1 \/ wire[1].rev <= join.rev

(* the gap is before the newest of the answers under way, ... *)
OwedByJoin == join.step = "answered" => owed <= join.rev

OwedByFetch == fetch.step = "answered" /\ ~refetchAgain => owed <= fetch.rev

(* ... and something is under way to fill it. *)
OwedIsPursued ==
    owed # 0 /\ ~missed => Busy(fetch) \/ Busy(join) \/ retry \/ up = 0

OwedSound == OwedPast /\ NextIsNear /\ OwedByJoin /\ OwedByFetch /\ OwedIsPursued

(* What is shown, with no gap and nothing missed, is the party as of the    *)
(* revision applied.                                                       *)
ShownSound == inParty /\ owed = 0 /\ ~missed => TrueAt(shown, lastRev)

ViewInv ==
    /\ SettingsSound(fetch) /\ SettingsSound(join)
    /\ WholeSound(fetch) /\ WholeSound(join)
    /\ CaughtUp /\ OwedSound /\ ShownSound

LEMMA InitView == Init => ViewInv
  BY DEF Init, ViewInv, SettingsSound, WholeSound, CaughtUp, FirstAnswer, UpToDate,
         OwedSound, OwedPast, NextIsNear, OwedByJoin, OwedByFetch, OwedIsPursued,
         ShownSound, NoCall, Nothing, Facet, Busy

(* How the row, the machine and what a call may have seen of them move. *)
LEMMA RowSteps ==
    ASSUME TypeOK, StreamInv, [Next]_vars
    PROVE  \/ UNCHANGED <<rev, at, row>>
           \/ PatchRow
           \/ PatchRoom /\ rev < MaxRev
           \/ Telling /\ GateFree /\ row' = row /\ at'["settings"] = at["settings"]
  <1>1. ASSUME NEW f \in Facet, Change(f)
        PROVE  Telling /\ GateFree /\ row' = row /\ at'["settings"] = at["settings"]
    BY <1>1, Announced DEF Change, Telling, Facet
  <1>2. CASE Tick
    BY <1>2, Announced DEF Tick, Telling, Facet
  <1>3. CASE JoinBinds
    BY <1>3, Announced DEF JoinBinds, Telling, Facet
  <1>4. CASE PatchRoom
    BY <1>4, SessionAssumption DEF PatchRoom, GateFree, TypeOK, Rev
  <1>5. CASE \/ HubCloses \/ ServeFetch \/ FetchAnswered \/ FetchFailed
             \/ Enter \/ JoinReads \/ JoinViews \/ Adopt \/ EnterFailed
             \/ Rejoined \/ RejoinFailed \/ RetryFires \/ ActionRefused
             \/ Drop \/ Connect \/ OnEvent \/ CallFails \/ UNCHANGED vars
    BY <1>5, Zenon DEF HubCloses, ServeFetch, FetchAnswered, FetchFailed, Enter,
          JoinReads, JoinViews, Adopt, EnterFailed, Rejoined, RejoinFailed,
          RetryFires, ActionRefused, Drop, Connect, OnEvent, CallFails,
          serverVars, vars
  <1> QED
    BY <1>1, <1>2, <1>3, <1>4, <1>5 DEF Next

LEMMA RowTyped ==
    ASSUME TypeOK
    PROVE  /\ row \in Nat /\ "settings" \in Facet
           /\ \A f \in Facet : f \in Moving \/ f = "settings"
           /\ "settings" \notin Moving
  BY DEF TypeOK, Rev, Facet, Moving

(* The row runs ahead of the machine by one, and only while a PATCH runs. *)
LEMMA SettingsStay ==
    ASSUME TypeOK, StreamInv, [Next]_vars, NEW c \in Call, SettingsSound(c)
    PROVE  SettingsSound(c)'
  <1> USE AnswerTyped, RowTyped DEF SettingsSound, StreamInv, ServerSound
  <1>1. CASE UNCHANGED <<rev, at, row>>
    BY <1>1
  <1>2. CASE PatchRow
    BY <1>2 DEF PatchRow
  <1>3. CASE PatchRoom /\ rev < MaxRev
    BY <1>3, Announced DEF PatchRoom
  <1>4. CASE Telling /\ GateFree /\ row' = row /\ at'["settings"] = at["settings"]
    BY <1>4
  <1> QED
    BY <1>1, <1>2, <1>3, <1>4, RowSteps

(* What was true of a revision stays so: later changes have later ones. *)
LEMMA TrueStays ==
    ASSUME TypeOK, StreamInv, [Next]_vars, NEW seen \in [Facet -> Rev],
           NEW r \in Nat, r <= rev, TrueAt(seen, r)
    PROVE  TrueAt(seen, r)'
  <1> USE AnswerTyped, RowTyped DEF TrueAt, StreamInv, ServerSound
  <1>1. CASE UNCHANGED <<rev, at, row>>
    BY <1>1 DEF GateFree
  <1>2. CASE PatchRow
    BY <1>2 DEF PatchRow
  <1>3. CASE PatchRoom /\ rev < MaxRev
    <2>1. /\ at'["settings"] = rev + 1
          /\ \A f \in Moving : at'[f] = at[f]
      BY <1>3, Announced DEF PatchRoom
    <2> QED
      BY <2>1
  <1>4. CASE Telling /\ GateFree /\ row' = row /\ at'["settings"] = at["settings"]
    <2>1. \A f \in Facet : at'[f] = at[f] \/ at'[f] = rev + 1
      BY <1>4, Told
    <2> QED
      BY <1>4, <2>1
  <1> QED
    BY <1>1, <1>2, <1>3, <1>4, RowSteps

LEMMA SettingsKept ==
    ASSUME TypeOK, StreamInv, ViewInv, [Next]_vars
    PROVE  SettingsSound(fetch)' /\ SettingsSound(join)'
  <1> USE PlainCalls, AnswerTyped, RowTyped
  <1>1. fetch \in Call /\ join \in Call
    BY DEF TypeOK
  <1>2. \A c \in Call : SettingsSound(c) => SettingsSound(c)'
    BY SettingsStay
  <1>3. /\ SettingsSound(fetch) /\ SettingsSound(join)
        /\ ServerSound
    BY DEF ViewInv, StreamInv
  <1>4. SettingsSound(fetch)'
    <2>1. CASE fetch' = fetch
      BY <1>1, <1>2, <1>3, <2>1 DEF SettingsSound
    <2>2. CASE ServeFetch
      <3>1. UNCHANGED <<at, row>>
        BY <2>2 DEF ServeFetch, serverVars
      <3>2. fetch'.seen.settings \in {fetch.seen.settings, row}
        BY <1>1, <2>2, RowIsRead, ViewIsRead DEF ServeFetch
      <3> QED
        BY <1>3, <3>1, <3>2 DEF SettingsSound
    <2>3. CASE fetch'.seen = Nothing
      BY <2>3, TypesKept DEF SettingsSound, TypeOK, Nothing, Facet, Rev
    <2> QED
      BY <2>1, <2>2, <2>3, FetchSteps
  <1>5. SettingsSound(join)'
    <2>1. CASE join' = join
      BY <1>1, <1>2, <1>3, <2>1 DEF SettingsSound
    <2>2. CASE JoinReads \/ JoinViews
      <3>1. UNCHANGED <<at, row>>
        BY <2>2 DEF JoinReads, JoinViews, serverVars
      <3>2. join'.seen.settings \in {join.seen.settings, row}
        <4>1. [join EXCEPT !.step = "failed"].seen = join.seen
          BY <1>1 DEF Call
        <4>2. [ReadRow(join) EXCEPT !.conn = hub].seen = ReadRow(join).seen
          BY <1>1, RowIsRead DEF Call
        <4>3. JoinReads => join'.seen \in {join.seen, ReadRow(join).seen}
          BY <4>1, <4>2, Zenon DEF JoinReads
        <4>4. JoinViews => join' = ReadView(join)
          BY DEF JoinViews
        <4> QED
          BY <1>1, <2>2, <4>3, <4>4, RowIsRead, ViewIsRead
      <3> QED
        BY <1>3, <3>1, <3>2 DEF SettingsSound
    <2>3. CASE JoinBinds
      <3>1. join'.seen = join.seen
        BY <1>1, <2>3 DEF JoinBinds, Call
      <3> QED
        BY <1>1, <1>2, <1>3, <3>1 DEF SettingsSound
    <2>4. CASE join'.seen = Nothing
      BY <2>4, TypesKept DEF SettingsSound, TypeOK, Nothing, Facet, Rev
    <2> QED
      BY <2>1, <2>2, <2>3, <2>4, JoinSteps
  <1> QED
    BY <1>4, <1>5

(* An answer whose row is not older than the machine's settings is true. *)
LEMMA ReadIsWhole ==
    ASSUME TypeOK, StreamInv, NEW c \in Call, NEW d \in Call, d = ReadView(c),
           SettingsSound(c), UNCHANGED <<rev, at, row>>
    PROVE  WholeSound(d)'
  <1> USE AnswerTyped, RowTyped DEF StreamInv, ServerSound
  <1>1. /\ d.rev = rev /\ (d.whole <=> c.seen.settings >= at.settings)
        /\ d.seen.settings = c.seen.settings
        /\ \A f \in Moving : d.seen[f] = at[f]
    BY ViewIsRead
  <1>2. d.whole => TrueAt(d.seen, rev)
    BY <1>1 DEF TrueAt, SettingsSound, GateFree
  <1> QED
    BY <1>1, <1>2 DEF WholeSound, TrueAt, GateFree

LEMMA WholeKept ==
    ASSUME TypeOK, StreamInv, AnswerInv, ViewInv, [Next]_vars
    PROVE  WholeSound(fetch)' /\ WholeSound(join)'
  <1> USE AnswerTyped
  <1>1. /\ fetch \in Call /\ join \in Call
        /\ \A c \in Call : c.seen \in [Facet -> Rev]
    BY DEF TypeOK, Call
  <1>2. \A c \in Call : Newest(c) /\ WholeSound(c) => WholeSound(c)'
    <2> SUFFICES ASSUME NEW c \in Call, Newest(c), c.step = "answered", c.whole,
                        TrueAt(c.seen, c.rev)
                 PROVE  TrueAt(c.seen, c.rev)'
      BY DEF WholeSound
    <2>1. c.rev \in Nat /\ c.rev <= rev /\ c.seen \in [Facet -> Rev]
      BY <1>1 DEF Newest
    <2> QED
      BY <2>1, TrueStays
  <1>3. /\ WholeSound(fetch) /\ WholeSound(join)
        /\ Newest(fetch) /\ Newest(join)
        /\ SettingsSound(fetch) /\ SettingsSound(join)
    BY DEF ViewInv, AnswerInv
  <1>4. WholeSound(fetch)'
    <2>1. CASE fetch' = fetch
      BY <1>1, <1>2, <1>3, <2>1 DEF WholeSound, TrueAt, GateFree
    <2>2. CASE ServeFetch
      <3>1. UNCHANGED <<rev, at, row>>
        BY <2>2 DEF ServeFetch, serverVars
      <3>2. CASE fetch' = ReadRow(fetch)
        BY <1>1, <3>2, RowIsRead DEF WholeSound
      <3>3. CASE fetch' = ReadView(fetch)
        <4>1. \A d \in Call : d = ReadView(fetch) => WholeSound(d)'
          BY <1>1, <1>3, <3>1, ReadIsWhole
        <4> QED
          BY <1>1, <3>3, <4>1, ViewIsRead DEF WholeSound, TrueAt, GateFree
      <3> QED
        BY <2>2, <3>2, <3>3 DEF ServeFetch
    <2> QED
      BY <2>1, <2>2, FetchSteps DEF WholeSound
  <1>5. WholeSound(join)'
    <2>1. CASE join' = join
      BY <1>1, <1>2, <1>3, <2>1 DEF WholeSound, TrueAt, GateFree
    <2>2. CASE JoinReads \/ JoinBinds
      BY <1>1, <2>2, RowIsRead DEF JoinReads, JoinBinds, WholeSound, Call
    <2>3. CASE JoinViews
      <3>1. UNCHANGED <<rev, at, row>> /\ join' = ReadView(join)
        BY <2>3 DEF JoinViews, serverVars
      <3>2. \A d \in Call : d = ReadView(join) => WholeSound(d)'
        BY <1>1, <1>3, <3>1, ReadIsWhole
      <3> QED
        BY <1>1, <3>1, <3>2, ViewIsRead DEF WholeSound, TrueAt, GateFree
    <2> QED
      BY <2>1, <2>2, <2>3, JoinSteps DEF WholeSound
  <1> QED
    BY <1>4, <1>5

(* A new revision is heard by a member that is bound to the stream. *)
LEMMA Heard ==
    ASSUME TypeOK, StreamInv, Telling
    PROVE  /\ Listening' => wire' # <<>>
           /\ Listening' => Listening \/ JoinBinds
           /\ wire # <<>> => wire' # <<>> /\ wire'[1] = wire[1]
           /\ wire = <<>> /\ wire' # <<>> =>
                (Listening \/ JoinBinds) /\ wire'[1].rev = rev + 1
  <1> USE WireTyped
  <1>1. PICK facet \in Facet, to \in Conn :
          /\ Announce(facet, to) /\ UNCHANGED <<hub, up>> /\ bound' = to
          /\ to = bound \/ to = 0 \/ JoinBinds
    BY SessionAssumption
       DEF Telling, Change, PatchRoom, Tick, JoinBinds, Facet, TypeOK, Conn, Call
  <1>2. rev < MaxRev
    BY Told DEF StreamInv
  <1>3. wire' \in Seq(Event)
    BY <1>1, <1>2, Announced
  <1>4. wire' = <<>> <=> Len(wire') = 0
    BY <1>3, EmptySeq
  <1>5. /\ \A i \in 1 .. Len(wire) : wire'[i] = wire[i]
        /\ IF to # 0 /\ to = hub /\ to = up
             THEN Len(wire') = Len(wire) + 1 /\ wire'[Len(wire) + 1].rev = rev + 1
             ELSE wire' = wire
    BY <1>1, <1>2, Announced
  <1> QED
    BY <1>1, <1>4, <1>5 DEF Listening

(* The event taken is the last revision, or the next one is the next. *)
LEMMA Shifted ==
    ASSUME TypeOK, StreamInv, OnEvent
    PROVE  /\ Head(wire) = wire[1] /\ wire[1].rev \in Nat /\ wire[1].rev <= rev
           /\ wire[1].facet \in Facet /\ wire[1].rev <= at[wire[1].facet]
           /\ \A f \in Facet : at[f] = wire[1].rev => f = wire[1].facet
           /\ wire' = <<>> /\ Listening => wire[1].rev = rev
           /\ wire' # <<>> => wire'[1].rev = wire[1].rev + 1
           /\ UNCHANGED <<rev, at, row, bound, hub, up, Listening, join>>
  <1> USE WireTyped, AnswerTyped DEF StreamInv, WireSound, ServerSound
  <1>1. wire \in Seq(Event) /\ wire # <<>> /\ wire' = Tail(wire)
    BY DEF OnEvent, TypeOK
  <1>2. /\ Len(wire) \in Nat \ {0} /\ Head(wire) = wire[1]
        /\ wire' = <<>> <=> Len(wire) = 1
        /\ wire' # <<>> => wire'[1] = wire[2] /\ Len(wire) > 1
    BY <1>1, Taken
  <1>3. /\ wire[1].rev \in Nat /\ wire[1].facet \in Facet
        /\ wire[1].rev <= at[wire[1].facet]
        /\ \A f \in Facet : at[f] = wire[1].rev => f = wire[1].facet
    BY <1>2 DEF Rev
  <1>4. UNCHANGED <<rev, at, row, bound, hub, up, Listening, join>>
    BY DEF OnEvent, serverVars, Listening
  <1>5. wire[1].rev <= rev
    BY <1>3
  <1>6. wire' # <<>> => wire'[1].rev = wire[1].rev + 1
    BY <1>2
  <1>7. wire' = <<>> /\ Listening => wire[1].rev = rev
    BY <1>1, <1>2 DEF Listening
  <1> QED
    BY <1>2, <1>3, <1>4, <1>5, <1>6, <1>7

(* An event in order makes what is shown true of the next revision. *)
LEMMA ShownSoundKept ==
    ASSUME TypeOK, StreamInv, AnswerInv, HearInv, ViewInv, [Next]_vars
    PROVE  ShownSound'
  <1> USE AnswerTyped DEF ShownSound, ViewInv
  <1>1. shown \in [Facet -> Rev] /\ lastRev <= rev
    BY DEF TypeOK, AnswerInv, ShownIsPast
  <1>2. CASE UNCHANGED <<shown, lastRev>> /\ (inParty' /\ owed' = 0 /\ ~missed'
                                               => inParty /\ owed = 0 /\ ~missed)
    <2>1. TrueAt(shown, lastRev) => TrueAt(shown, lastRev)'
      <3>1. \A seen \in [Facet -> Rev], r \in Nat :
              r <= rev /\ TrueAt(seen, r) => TrueAt(seen, r)'
        BY TrueStays
      <3> QED
        BY <1>1, <1>2, <3>1 DEF TrueAt, GateFree
    <2> QED
      BY <1>2, <2>1
  <1>3. CASE FetchAnswered \/ Rejoined \/ Adopt
    <2>1. UNCHANGED <<rev, at, row, fetch, join>> \/ UNCHANGED <<rev, at, row>>
      BY <1>3 DEF FetchAnswered, Rejoined, Adopt, serverVars
    <2>2. ASSUME NEW c \in {fetch, join}, c.step = "answered",
                 lastRev' = c.rev, shown' = c.seen, missed' \/ c.whole
          PROVE  ShownSound'
      BY <2>1, <2>2 DEF WholeSound, TrueAt, GateFree
    <2>3. CASE FetchAnswered
      <3>1. CASE TooOld(fetch)
        BY <1>2, <2>3, <3>1 DEF FetchAnswered, ApplySnapshot
      <3>2. CASE ~TooOld(fetch)
        BY <2>2, <2>3, <3>2 DEF FetchAnswered, ApplySnapshot
      <3> QED
        BY <3>1, <3>2
    <2>4. CASE Rejoined
      <3>1. CASE TooOld(join)
        BY <1>2, <2>4, <3>1 DEF Rejoined, ApplySnapshot
      <3>2. CASE ~TooOld(join)
        BY <2>2, <2>4, <3>2 DEF Rejoined, ApplySnapshot
      <3> QED
        BY <3>1, <3>2
    <2>5. CASE Adopt
      BY <2>2, <2>5 DEF Adopt
    <2> QED
      BY <1>3, <2>3, <2>4, <2>5
  <1>4. CASE OnEvent
    <2> USE Shifted
    <2>1. CASE inParty /\ Acceptable(Head(wire)) /\ ~Gap(Head(wire))
      <3>1. /\ lastRev' = wire[1].rev /\ lastRev' = lastRev + 1
            /\ shown' = [shown EXCEPT ![wire[1].facet] = wire[1].rev]
            /\ UNCHANGED <<owed, missed, inParty>>
        BY <1>4, <2>1 DEF OnEvent, Acceptable, Gap
      <3>2. TrueAt(shown, lastRev) => TrueAt(shown, lastRev)'
        <4> SUFFICES ASSUME TrueAt(shown, lastRev), NEW f \in Facet, at[f] <= lastRev + 1
                     PROVE  \/ shown'[f] = at[f]
                            \/ f = "settings" /\ ~GateFree /\ shown'[f] = row
          BY <1>4, <3>1 DEF TrueAt, GateFree
        <4>1. CASE f = wire[1].facet
          <5>1. shown'[f] = wire[1].rev
            BY <1>1, <1>4, <3>1, <4>1
          <5>2. at[f] = wire[1].rev
            BY <1>1, <1>4, <3>1, <4>1
          <5> QED
            BY <5>1, <5>2
        <4>2. CASE f # wire[1].facet
          <5>1. at[f] <= lastRev /\ shown'[f] = shown[f]
            BY <1>1, <1>4, <3>1, <4>2
          <5> QED
            BY <5>1 DEF TrueAt
        <4> QED
          BY <4>1, <4>2
      <3> QED
        BY <3>1, <3>2
    <2>2. CASE inParty /\ Acceptable(Head(wire)) /\ Gap(Head(wire))
      <3>1. owed' = wire[1].rev /\ wire[1].rev # 0
        BY <1>4, <2>2 DEF OnEvent, Acceptable
      <3> QED
        BY <3>1
    <2>3. CASE ~inParty \/ ~Acceptable(Head(wire))
      BY <1>2, <1>4, <2>3 DEF OnEvent
    <2> QED
      BY <2>1, <2>2, <2>3
  <1>5. CASE FetchFailed
    BY <1>2, <1>5 DEF FetchFailed, clientVars
  <1>6. CASE Enter
    BY <1>6 DEF Enter, clientVars
  <1>7. CASE \/ \E f \in Facet : Change(f)
             \/ PatchRow \/ PatchRoom \/ Tick \/ HubCloses \/ ServeFetch
             \/ JoinReads \/ JoinBinds \/ JoinViews \/ EnterFailed
             \/ RejoinFailed \/ RetryFires \/ ActionRefused
             \/ Drop \/ Connect \/ CallFails \/ UNCHANGED vars
    <2>1. UNCHANGED <<shown, lastRev, inParty, owed, missed>>
      BY <1>7, Zenon DEF Change, PatchRow, PatchRoom, Tick, HubCloses, ServeFetch,
            JoinReads, JoinBinds, JoinViews, EnterFailed, RejoinFailed, RetryFires,
            ActionRefused, Drop, Connect, CallFails, clientVars, vars
    <2> QED
      BY <1>2, <2>1
  <1> QED
    BY <1>3, <1>4, <1>5, <1>6, <1>7 DEF Next

(* Under the hypotheses of the lemmas below: answers are of the past. *)
LEMMA AnswersPast ==
    ASSUME TypeOK, AnswerInv
    PROVE  /\ join.step = "answered" => join.rev <= rev
           /\ fetch.step = "answered" => fetch.rev <= rev
           /\ join.rev \in Nat /\ fetch.rev \in Nat
           /\ lastRev <= rev /\ owed \in Nat
  BY DEF TypeOK, AnswerInv, Newest, ShownIsPast, Call, Rev

LEMMA FirstAnswerKept ==
    ASSUME TypeOK, StreamInv, AnswerInv, HearInv, ViewInv, [Next]_vars
    PROVE  FirstAnswer'
  <1> USE AnswerTyped, WireTyped, AnswersPast DEF FirstAnswer
  <1>1. FirstAnswer /\ join \in Call
    BY DEF ViewInv, CaughtUp, TypeOK
  <1>2. CASE Telling
    <2>1. CASE join' = join
      BY <1>1, <1>2, <2>1, Heard, Told DEF StreamInv, JoinBinds, Call
    <2>2. CASE join'.step = "joined"
      BY <2>2
    <2> QED
      BY <1>2, <2>1, <2>2, Told DEF StreamInv
  <1>3. CASE JoinViews
    <2>1. /\ join'.step = "answered" /\ join'.rev = rev
          /\ UNCHANGED <<rev, wire>>
      BY <1>1, <1>3, ViewIsRead DEF JoinViews, serverVars
    <2>2. wire # <<>> => wire[1].rev \in Nat /\ wire[1].rev <= rev
      <3>1. wire # <<>> => wire[1].rev \in Nat /\ wire[1].facet \in Facet
        BY DEF Rev
      <3>2. wire # <<>> => wire[1].rev <= at[wire[1].facet]
        BY DEF StreamInv, WireSound
      <3> QED
        BY <3>1, <3>2 DEF StreamInv, ServerSound
    <2> QED
      BY <2>1, <2>2
  <1>4. CASE OnEvent
    <2>1. CASE inParty
      BY <1>4, <2>1 DEF OnEvent
    <2>2. CASE ~inParty
      <3>1. missed' = (missed \/ (join.step = "answered" /\ wire[1].rev > join.rev))
        BY <1>4, <2>2, Shifted DEF OnEvent
      <3>2. ASSUME join.step = "answered", ~missed', Listening
            PROVE  IF wire' = <<>> THEN join.rev = rev ELSE wire'[1].rev <= join.rev + 1
        <4>1. wire[1].rev <= join.rev
          <5>1. ~(wire[1].rev > join.rev)
            BY <3>1, <3>2, Zenon
          <5> QED
            BY <1>4, <5>1, Shifted
        <4>2. join.rev \in Nat /\ join.rev <= rev
          BY <3>2
        <4> QED
          BY <1>4, <3>2, <4>1, <4>2, Shifted
      <3> QED
        BY <1>4, <3>2, Shifted
    <2> QED
      BY <2>1, <2>2
  <1>5. CASE Connect
    <2>1. bound' # up'
      BY <1>5 DEF Connect, StreamInv, ConnSound, TypeOK, Conn
    <2> QED
      BY <2>1 DEF Listening
  <1>6. CASE HubCloses
    BY <1>6 DEF HubCloses, Listening
  <1>7. CASE Drop
    BY <1>7 DEF Drop, Listening
  <1>8. CASE FetchAnswered \/ FetchFailed
    <2>1. inParty'
      BY <1>8 DEF HearInv, Outside, Busy, FetchAnswered, FetchFailed, clientVars
    <2> QED
      BY <2>1
  <1>9. CASE Adopt
    BY <1>9 DEF Adopt
  <1>10. CASE JoinReads
    BY <1>1, <1>10, RowIsRead DEF JoinReads, Call
  <1>11. CASE PatchRow \/ ServeFetch \/ UNCHANGED vars
    <2>1. UNCHANGED <<inParty, join, missed, up, hub, bound, wire, rev>>
      BY <1>11, Zenon DEF PatchRow, ServeFetch, serverVars, clientVars, vars
    <2> QED
      BY <1>1, <2>1 DEF Listening
  <1>12. CASE \/ Enter \/ EnterFailed \/ Rejoined \/ RejoinFailed \/ RetryFires
              \/ ActionRefused \/ CallFails
    <2>1. /\ UNCHANGED <<up, hub, bound, wire, rev, inParty>>
          /\ ~inParty => (UNCHANGED missed \/ ~missed')
      BY <1>12, Zenon DEF Enter, EnterFailed, Rejoined, RejoinFailed, RetryFires,
           ActionRefused, CallFails, serverVars, clientVars
    <2>2. \/ join' = join
          \/ join'.step # "answered"
      BY <1>12, PlainCalls DEF Enter, EnterFailed, Rejoined, RejoinFailed,
           RetryFires, ActionRefused, Rejoin, CallFails
    <2>3. UNCHANGED missed \/ Enter \/ inParty
      BY <1>12, Zenon DEF EnterFailed, Rejoined, RejoinFailed, RetryFires,
           ActionRefused, CallFails
    <2>4. Enter => join'.step # "answered"
      BY PlainCalls DEF Enter
    <2> QED
      BY <1>1, <2>1, <2>2, <2>3, <2>4 DEF Listening
  <1> QED
    BY <1>2, <1>3, <1>4, <1>5, <1>6, <1>7, <1>8, <1>9, <1>10, <1>11, <1>12
       DEF Next, Telling

(* With nothing on its way, a client that is heard by the hub and joins or  *)
(* fetches has the newest revision; only a first answer may be older.       *)
LEMMA UpToDateKept ==
    ASSUME TypeOK, StreamInv, AnswerInv, HearInv, ViewInv, [Next]_vars
    PROVE  UpToDate'
  <1> USE AnswerTyped, WireTyped, AnswersPast DEF UpToDate, Busy
  <1>1. UpToDate /\ FirstAnswer /\ join \in Call /\ Outside
    BY DEF ViewInv, CaughtUp, TypeOK, HearInv
  <1>2. CASE Telling
    <2>1. Listening' => wire' # <<>>
      BY <1>2, Heard
    <2> QED
      BY <2>1
  <1>3. CASE OnEvent
    <2>1. CASE ~inParty
      BY <1>3, <2>1 DEF OnEvent
    <2>2. CASE inParty
      <3>1. lastRev' = IF wire[1].rev > lastRev THEN wire[1].rev ELSE lastRev
        BY <1>3, <2>2, Shifted DEF OnEvent, Acceptable
      <3>2. Listening /\ wire' = <<>> => lastRev' = rev
        BY <1>3, <3>1, Shifted
      <3> QED
        BY <1>3, <3>2, Shifted
    <2> QED
      BY <2>1, <2>2
  <1>4. CASE Connect
    <2>1. bound' # up'
      BY <1>4 DEF Connect, StreamInv, ConnSound, TypeOK, Conn
    <2> QED
      BY <2>1 DEF Listening
  <1>5. CASE HubCloses
    BY <1>5 DEF HubCloses, Listening
  <1>6. CASE Drop
    BY <1>6 DEF Drop, Listening
  <1>7. CASE Adopt
    <2>1. /\ UNCHANGED <<up, hub, bound, wire, rev, fetch, retry>> /\ ~inParty
          /\ lastRev' = join.rev /\ join'.step = "idle" /\ join.step = "answered"
          /\ missed => missed'
      BY <1>7, PlainCalls DEF Adopt, serverVars
    <2>2. UNCHANGED Listening
      BY <2>1 DEF Listening
    <2>3. fetch.step = "idle" /\ ~retry
      BY <1>1, <2>1 DEF Outside
    <2>4. CASE missed
      BY <2>1, <2>3, <2>4
    <2>5. CASE ~missed
      BY <1>1, <2>1, <2>2, <2>5 DEF FirstAnswer
    <2> QED
      BY <2>4, <2>5
  <1>8. CASE FetchAnswered
    <2>1. /\ UNCHANGED <<up, hub, bound, wire, rev, inParty>>
          /\ fetch.step = "answered"
          /\ lastRev' = IF fetch.rev < lastRev THEN lastRev ELSE fetch.rev
      BY <1>8 DEF FetchAnswered, ApplySnapshot, TooOld, serverVars
    <2> QED
      BY <1>1, <2>1 DEF Listening
  <1>9. CASE Rejoined
    <2>1. /\ UNCHANGED <<up, hub, bound, wire, rev, inParty>>
          /\ join.step = "answered"
          /\ lastRev' = IF join.rev < lastRev THEN lastRev ELSE join.rev
      BY <1>9 DEF Rejoined, ApplySnapshot, TooOld, serverVars
    <2> QED
      BY <1>1, <2>1 DEF Listening
  <1>10. CASE Enter \/ EnterFailed
    BY <1>10 DEF Enter, EnterFailed, clientVars
  <1>11. CASE \/ FetchFailed \/ ServeFetch \/ JoinReads \/ JoinViews
              \/ RejoinFailed \/ CallFails
    <2>1. UNCHANGED <<up, hub, bound, wire, rev, inParty, lastRev>>
      BY <1>11, Zenon DEF FetchFailed, ServeFetch, JoinReads, JoinViews,
           RejoinFailed, CallFails, serverVars, clientVars
    <2>2. fetch.step # "idle" \/ join.step # "idle"
      BY <1>11 DEF FetchFailed, ServeFetch, JoinReads, JoinViews,
           RejoinFailed, CallFails
    <2> QED
      BY <1>1, <2>1, <2>2 DEF Listening
  <1>12. CASE RetryFires
    <2>1. UNCHANGED <<up, hub, bound, wire, rev, inParty, lastRev>> /\ retry
      BY <1>12, Zenon DEF RetryFires, serverVars
    <2> QED
      BY <1>1, <2>1 DEF Listening
  <1>13. CASE ActionRefused
    BY <1>13 DEF ActionRefused, Listening, serverVars
  <1>14. CASE PatchRow \/ UNCHANGED vars
    <2>1. UNCHANGED <<up, hub, bound, wire, rev, inParty, lastRev, missed, join,
                      fetch, retry>>
      BY <1>14, Zenon DEF PatchRow, serverVars, clientVars, vars
    <2> QED
      BY <1>1, <2>1 DEF Listening
  <1> QED
    BY <1>2, <1>3, <1>4, <1>5, <1>6, <1>7, <1>8, <1>9, <1>10, <1>11, <1>12,
       <1>13, <1>14 DEF Next, Telling

(* A gap opens with an event, which asks for a snapshot; it closes with an  *)
(* answer that is applied.                                                 *)
GapOpens ==
    /\ OnEvent /\ inParty
    /\ wire[1].rev > lastRev + 1
    /\ lastRev' = wire[1].rev /\ owed' = wire[1].rev /\ ~missed'
    /\ IF Busy(fetch) THEN fetch' = fetch /\ refetchAgain' ELSE fetch' = Asked

LEMMA OwedSteps ==
    ASSUME TypeOK, StreamInv, HearInv, [Next]_vars
    PROVE  owed' = owed \/ owed' = 0 \/ GapOpens
  <1>1. CASE FetchAnswered \/ Rejoined \/ Adopt
    BY <1>1 DEF FetchAnswered, Rejoined, Adopt, ApplySnapshot
  <1>2. CASE OnEvent
    <2>1. CASE inParty /\ Acceptable(Head(wire)) /\ Gap(Head(wire))
      <3>1. /\ lastRev' = Head(wire).rev /\ owed' = Head(wire).rev
            /\ missed' = FALSE /\ Refetch
        BY <1>2, <2>1, Zenon DEF OnEvent
      <3>2. IF Busy(fetch) THEN fetch' = fetch /\ refetchAgain' ELSE fetch' = Asked
        BY <3>1 DEF Refetch
      <3> QED
        BY <1>2, <2>1, <3>1, <3>2, Shifted DEF GapOpens, Gap
    <2> QED
      BY <1>2, <2>1, Zenon DEF OnEvent
  <1>3. CASE \/ \E f \in Facet : Change(f)
             \/ PatchRow \/ PatchRoom \/ Tick \/ HubCloses
             \/ ServeFetch \/ FetchFailed
             \/ Enter \/ JoinReads \/ JoinBinds \/ JoinViews \/ EnterFailed
             \/ RejoinFailed \/ RetryFires \/ ActionRefused
             \/ Drop \/ Connect \/ CallFails \/ UNCHANGED vars
    BY <1>3, Zenon DEF Change, PatchRow, PatchRoom, Tick, HubCloses, ServeFetch,
          FetchFailed, Enter, JoinReads, JoinBinds, JoinViews, EnterFailed,
          RejoinFailed, RetryFires, ActionRefused, Drop, Connect, CallFails, vars
  <1> QED
    BY <1>1, <1>2, <1>3 DEF Next

LEMMA OwedPastKept ==
    ASSUME TypeOK, StreamInv, AnswerInv, HearInv, ViewInv, [Next]_vars
    PROVE  OwedPast'
  <1> USE AnswersPast, AnswerTyped DEF OwedPast
  <1>1. owed <= lastRev /\ lastRev' \in Nat
    BY TypesKept DEF ViewInv, OwedSound, OwedPast, TypeOK, Rev
  <1>2. CASE GapOpens
    BY <1>1, <1>2 DEF GapOpens
  <1>3. CASE owed' = 0
    BY <1>1, <1>3
  <1>4. CASE owed' = owed /\ inParty
    BY <1>1, <1>4, NothingOlder
  <1>5. CASE owed' = owed /\ ~inParty
    BY <1>1, <1>5 DEF HearInv, Outside
  <1> QED
    BY <1>2, <1>3, <1>4, <1>5, OwedSteps

(* An answered join leaves no gap before the next event: it was not older   *)
(* than the wire when it was read, and the wire has no gaps.               *)
LEMMA NextIsNearKept ==
    ASSUME TypeOK, StreamInv, AnswerInv, HearInv, ViewInv, [Next]_vars
    PROVE  NextIsNear'
  <1> USE AnswersPast, AnswerTyped, WireTyped DEF NextIsNear
  <1>1. NextIsNear /\ UpToDate /\ join \in Call
    BY DEF ViewInv, OwedSound, CaughtUp, TypeOK
  <1>2. lastRev' \in Nat /\ (inParty => lastRev <= lastRev')
    BY TypesKept, NothingOlder DEF TypeOK, Rev
  <1>3. wire # <<>> => wire[1].rev \in Nat /\ wire[1].facet \in Facet
    BY DEF Rev
  <1>4. CASE Telling
    <2>1. CASE join' = join
      <3>1. UNCHANGED <<inParty, lastRev>>
        BY <1>4, Told DEF StreamInv, clientVars
      <3>2. CASE wire # <<>>
        BY <1>1, <1>4, <2>1, <3>1, <3>2, Heard
      <3>3. CASE wire = <<>> /\ wire' # <<>> /\ join.step = "answered" /\ inParty
        <4>1. Listening
          BY <1>4, <3>3, Heard DEF JoinBinds
        <4>2. lastRev = rev
          BY <1>1, <3>3, <4>1 DEF UpToDate, Busy
        <4> QED
          BY <1>4, <2>1, <3>1, <3>3, <4>2, Heard
      <3> QED
        BY <2>1, <3>1, <3>2, <3>3
    <2>2. CASE join'.step = "joined"
      BY <2>2
    <2> QED
      BY <1>4, <2>1, <2>2, Told DEF StreamInv
  <1>5. CASE JoinViews
    <2>1. /\ join'.step = "answered" /\ join'.rev = rev /\ UNCHANGED <<rev, wire>>
      BY <1>1, <1>5, ViewIsRead DEF JoinViews, serverVars
    <2>2. wire # <<>> => wire[1].rev <= at[wire[1].facet]
      BY DEF StreamInv, WireSound
    <2> QED
      BY <1>3, <2>1, <2>2 DEF StreamInv, ServerSound
  <1>6. CASE OnEvent
    <2>1. CASE ~inParty
      BY <1>6, <2>1 DEF OnEvent
    <2>2. CASE inParty
      <3>1. lastRev' = IF wire[1].rev > lastRev THEN wire[1].rev ELSE lastRev
        BY <1>6, <2>2, Shifted DEF OnEvent, Acceptable
      <3> QED
        BY <1>6, <3>1, Shifted
    <2> QED
      BY <2>1, <2>2
  <1>7. CASE Drop
    BY <1>7 DEF Drop
  <1>8. CASE Connect
    BY <1>8 DEF Connect, StreamInv, ConnSound
  <1>9. CASE Adopt \/ Rejoined
    BY <1>9, PlainCalls DEF Adopt, Rejoined
  <1>10. CASE JoinReads
    BY <1>1, <1>10, RowIsRead DEF JoinReads, Call
  <1>11. CASE \/ PatchRow \/ HubCloses \/ ServeFetch \/ FetchAnswered
              \/ FetchFailed \/ Enter \/ EnterFailed \/ RejoinFailed
              \/ RetryFires \/ ActionRefused \/ CallFails \/ UNCHANGED vars
    <2>1. UNCHANGED <<inParty, wire>>
      BY <1>11, Zenon DEF PatchRow, HubCloses, ServeFetch, FetchAnswered,
           FetchFailed, Enter, EnterFailed, RejoinFailed, RetryFires, ActionRefused,
           CallFails, clientVars, vars
    <2>2. join' = join \/ join'.step # "answered"
      BY <1>11, PlainCalls DEF PatchRow, HubCloses, ServeFetch, FetchAnswered,
           FetchFailed, Enter, EnterFailed, RejoinFailed, RetryFires, ActionRefused,
           CallFails, Rejoin, vars
    <2> QED
      BY <1>1, <1>2, <1>3, <2>1, <2>2
  <1> QED
    BY <1>4, <1>5, <1>6, <1>7, <1>8, <1>9, <1>10, <1>11 DEF Next, Telling

(* So the gap an event shows is before every answer under way. *)
LEMMA OwedByAnswers ==
    ASSUME TypeOK, StreamInv, AnswerInv, HearInv, ViewInv, [Next]_vars
    PROVE  OwedByJoin' /\ OwedByFetch'
  <1> USE AnswersPast, AnswerTyped, WireTyped DEF OwedByJoin, OwedByFetch
  <1>1. /\ NextIsNear /\ OwedByJoin /\ OwedByFetch /\ OwedPast
        /\ join \in Call /\ fetch \in Call
    BY DEF ViewInv, OwedSound, TypeOK
  <1>2. owed' \in Nat
    BY TypesKept DEF TypeOK, Rev
  <1>3. CASE GapOpens
    <2>1. /\ wire # <<>> /\ wire[1].rev > lastRev + 1 /\ owed' = wire[1].rev
          /\ join' = join /\ inParty /\ wire[1].rev \in Nat
      BY <1>3, Shifted DEF GapOpens, OnEvent
    <2>2. OwedByJoin'
      BY <1>1, <2>1 DEF NextIsNear
    <2>3. ~(fetch'.step = "answered" /\ ~refetchAgain')
      BY <1>3, PlainCalls DEF GapOpens, Busy
    <2> QED
      BY <2>2, <2>3
  <1>4. CASE owed' = 0 \/ owed' = owed
    <2>1. owed' <= owed /\ owed <= rev
      BY <1>1, <1>4 DEF OwedPast
    <2>2. OwedByJoin'
      <3>1. CASE join' = join \/ join'.step # "answered"
        BY <1>1, <1>2, <2>1, <3>1
      <3>2. CASE JoinReads \/ JoinBinds
        BY <1>1, <3>2, RowIsRead DEF JoinReads, JoinBinds, Call
      <3>3. CASE JoinViews
        BY <1>1, <1>2, <2>1, <3>3, ViewIsRead DEF JoinViews
      <3> QED
        BY <3>1, <3>2, <3>3, JoinSteps
    <2>3. OwedByFetch'
      <3>1. CASE fetch' = fetch /\ (refetchAgain => refetchAgain')
        BY <1>1, <1>2, <2>1, <3>1
      <3>2. CASE fetch'.step # "answered"
        BY <3>2
      <3>3. CASE ServeFetch
        BY <1>1, <1>2, <2>1, <3>3, RowIsRead, ViewIsRead DEF ServeFetch
      <3>4. refetchAgain => refetchAgain' \/ FetchAnswered \/ FetchFailed
        BY Zenon DEF Next, Change, PatchRow, PatchRoom, Tick, HubCloses, ServeFetch,
             Enter, JoinReads, JoinBinds, JoinViews, Adopt, EnterFailed, Rejoined,
             RejoinFailed, RetryFires, ActionRefused, Drop, Connect, CallFails, vars,
             OnEvent, Refetch
      <3>5. FetchAnswered \/ FetchFailed => fetch'.step # "answered"
        BY PlainCalls DEF FetchAnswered, FetchFailed, FetchEnds
      <3> QED
        BY <3>1, <3>2, <3>3, <3>4, <3>5, FetchSteps
    <2> QED
      BY <2>2, <2>3
  <1> QED
    BY <1>3, <1>4, OwedSteps

(* A gap is only given up when the client knows it missed a change. *)
LEMMA OwedIsPursuedKept ==
    ASSUME TypeOK, StreamInv, AnswerInv, HearInv, ViewInv, [Next]_vars
    PROVE  OwedIsPursued'
  <1> USE AnswersPast, AnswerTyped, PlainCalls DEF OwedIsPursued, Busy
  <1>1. /\ OwedIsPursued /\ OwedByJoin /\ OwedByFetch /\ Outside
        /\ join \in Call /\ fetch \in Call
    BY DEF ViewInv, OwedSound, TypeOK, HearInv
  <1>2. CASE GapOpens
    <2>1. fetch'.step # "idle"
      BY <1>2 DEF GapOpens
    <2> QED
      BY <2>1
  <1>3. CASE FetchAnswered
    <2>1. CASE TooOld(fetch)
      <3>1. /\ missed' = (missed \/ (owed \in 1 .. fetch.rev
                                     /\ ~(refetchAgain \/ Busy(join))))
            /\ UNCHANGED <<owed, join>>
        BY <1>3, <2>1 DEF FetchAnswered, ApplySnapshot
      <3>2. refetchAgain => fetch'.step = "asked"
        BY <1>3 DEF FetchAnswered, FetchEnds
      <3>3. ~refetchAgain => owed = 0 \/ owed \in 1 .. fetch.rev
        BY <1>1, <1>3 DEF FetchAnswered, OwedByFetch
      <3>4. ~missed' => ~missed /\ (owed = 0 \/ refetchAgain \/ join.step # "idle")
        BY <3>1, <3>3, Zenon
      <3> QED
        BY <3>1, <3>2, <3>4
    <2>2. CASE ~TooOld(fetch)
      BY <1>3, <2>2 DEF FetchAnswered, ApplySnapshot
    <2> QED
      BY <2>1, <2>2
  <1>4. CASE Rejoined
    <2>1. CASE TooOld(join)
      <3>1. /\ missed' = (missed \/ (owed \in 1 .. join.rev /\ ~Busy(fetch)))
            /\ UNCHANGED <<owed, fetch>>
        BY <1>4, <2>1 DEF Rejoined, ApplySnapshot
      <3>2. owed = 0 \/ owed \in 1 .. join.rev
        BY <1>1, <1>4 DEF Rejoined, OwedByJoin
      <3>3. ~missed' => owed = 0 \/ fetch.step # "idle"
        BY <3>1, <3>2, Zenon
      <3> QED
        BY <3>1, <3>3
    <2>2. CASE ~TooOld(join)
      BY <1>4, <2>2 DEF Rejoined, ApplySnapshot
    <2> QED
      BY <2>1, <2>2
  <1>5. CASE Adopt
    BY <1>5 DEF Adopt
  <1>6. CASE Enter \/ EnterFailed
    <2>1. ~inParty /\ UNCHANGED owed
      BY <1>6 DEF Enter, EnterFailed
    <2> QED
      BY <1>1, <2>1 DEF Outside
  <1>7. CASE FetchFailed
    <2>1. /\ missed' = (missed \/ (owed # 0 /\ ~refetchAgain /\ ~Busy(join)))
          /\ UNCHANGED <<owed, join>>
          /\ refetchAgain => fetch'.step = "asked"
      BY <1>7 DEF FetchFailed, FetchEnds
    <2>2. ~missed' => owed = 0 \/ refetchAgain \/ join.step # "idle"
      BY <2>1, Zenon
    <2> QED
      BY <2>1, <2>2
  <1>8. CASE RejoinFailed
    BY <1>8 DEF RejoinFailed
  <1>9. CASE RetryFires \/ ActionRefused
    <2>1. /\ UNCHANGED <<owed, missed, fetch, up>>
          /\ up = 0 \/ join'.step # "idle"
      BY <1>9 DEF RetryFires, ActionRefused, Rejoin
    <2> QED
      BY <2>1
  <1>10. CASE Connect
    <2>1. /\ UNCHANGED <<owed, missed, fetch>>
          /\ ~inParty \/ join'.step # "idle"
      BY <1>10 DEF Connect, Reconnected, Rejoin
    <2> QED
      BY <1>1, <2>1 DEF Outside
  <1>11. CASE Drop
    BY <1>11 DEF Drop
  <1>12. CASE ServeFetch \/ JoinReads \/ JoinBinds \/ JoinViews \/ CallFails
    <2>1. UNCHANGED <<owed, missed>> /\ (fetch'.step # "idle" \/ join'.step # "idle")
      BY <1>1, <1>12, RowIsRead, ViewIsRead DEF ServeFetch, JoinReads, JoinBinds,
         JoinViews, CallFails, Call
    <2> QED
      BY <2>1
  <1>13. CASE OnEvent /\ ~GapOpens
    <2>1. CASE ~inParty
      <3>1. UNCHANGED owed
        BY <1>13, <2>1 DEF OnEvent
      <3> QED
        BY <1>1, <2>1, <3>1 DEF Outside
    <2>2. CASE inParty
      <3>1. ~(Acceptable(Head(wire)) /\ Gap(Head(wire))) \/ GapOpens
        <4> SUFFICES ASSUME Acceptable(Head(wire)), Gap(Head(wire))
                     PROVE  GapOpens
          OBVIOUS
        <4>1. /\ lastRev' = Head(wire).rev /\ owed' = Head(wire).rev
              /\ missed' = FALSE /\ Refetch
          BY <1>13, <2>2, Zenon DEF OnEvent
        <4>2. IF Busy(fetch) THEN fetch' = fetch /\ refetchAgain' ELSE fetch' = Asked
          BY <4>1 DEF Refetch
        <4> QED
          BY <1>13, <2>2, <4>1, <4>2, Shifted DEF GapOpens, Gap
      <3>2. UNCHANGED <<owed, missed, fetch, join, retry, up>>
        BY <1>13, <2>2, <3>1, Zenon DEF OnEvent
      <3> QED
        BY <1>1, <3>2
    <2> QED
      BY <2>1, <2>2
  <1>14. CASE \/ \E f \in Facet : Change(f)
              \/ PatchRow \/ PatchRoom \/ Tick \/ HubCloses \/ UNCHANGED vars
    <2>1. UNCHANGED <<owed, missed, fetch, join, retry, up>>
      BY <1>14, Zenon DEF Change, PatchRow, PatchRoom, Tick, HubCloses, clientVars,
           vars
    <2> QED
      BY <1>1, <2>1
  <1> QED
    BY <1>2, <1>3, <1>4, <1>5, <1>6, <1>7, <1>8, <1>9, <1>10, <1>11, <1>12,
       <1>13, <1>14 DEF Next

LEMMA ViewKept ==
    ASSUME TypeOK, StreamInv, AnswerInv, HearInv, ViewInv, [Next]_vars
    PROVE  ViewInv'
  <1>1. CaughtUp'
    BY FirstAnswerKept, UpToDateKept DEF CaughtUp
  <1>2. OwedSound'
    BY OwedPastKept, NextIsNearKept, OwedByAnswers, OwedIsPursuedKept DEF OwedSound
  <1> QED
    BY <1>1, <1>2, SettingsKept, WholeKept, ShownSoundKept DEF ViewInv

-----------------------------------------------------------------------------
(* The theorems.                                                            *)

IInv == TypeOK /\ StreamInv /\ AnswerInv /\ HearInv /\ ViewInv

LEMMA InitHolds == Init => IInv
  BY InitTyped, InitStream, InitAnswer, InitHear, InitView DEF IInv

LEMMA StepKeeps == IInv /\ [Next]_vars => IInv'
  BY TypesKept, StreamKept, AnswerKept, HearInvKept, ViewKept DEF IInv

LEMMA Invariance == Spec => []IInv
  BY InitHolds, StepKeeps, PTL DEF Spec

(* Every variable keeps its type, for every bound on revisions, streams and *)
(* failures.                                                               *)
THEOREM TypeCorrect == Spec => []TypeOK
  <1>1. IInv => TypeOK
    BY DEF IInv
  <1> QED
    BY <1>1, Invariance, PTL

(* Within one session neither the revision nor the playback and the members *)
(* shown ever go back, in whatever order answers and events arrive          *)
(* (party.service.ts `applySnapshot`, `acceptRev`).                         *)
THEOREM NoRollback == Spec => NothingRollsBack
  <1>1. IInv /\ [Next]_vars =>
          [inParty => /\ lastRev' >= lastRev
                      /\ \A f \in Facet \ {"settings"} : shown'[f] >= shown[f]]_vars
    BY NothingOlder DEF IInv
  <1> QED
    BY <1>1, Invariance, PTL DEF Spec, NothingRollsBack

(* A client that shows it must rejoin, on a stream that is up, has a join   *)
(* under way or its timer running (party.service.ts `rejoin`).              *)
THEOREM RejoinIsNeverForgotten == Spec => []RejoinIsPursued
  <1>1. IInv => RejoinIsPursued
    BY DEF IInv, HearInv
  <1> QED
    BY <1>1, Invariance, PTL

(* A client with nothing under way is the one the party's events go to,     *)
(* unless a reconnection found an older join in flight.                    *)
THEOREM QuietHears == Spec => []HearsUnlessDeaf
  <1>1. IInv => HearsUnlessDeaf
    BY DEF IInv, HearInv, HearSound, HearsUnlessDeaf, Quiet
  <1> QED
    BY <1>1, Invariance, PTL

(* A client with nothing under way shows the party as the server has it,    *)
(* unless a change was lost in a way `missed` or `deaf` records: the        *)
(* snapshots and the refetch of party.service.ts repair everything else.    *)
THEOREM QuietIsCurrent == Spec => []CurrentUnlessMissed
  <1>1. IInv => CurrentUnlessMissed
    <2> SUFFICES ASSUME IInv, Quiet, GateFree, ~missed, ~deaf
                 PROVE  lastRev = rev /\ shown = at
      BY DEF CurrentUnlessMissed
    <2>1. bound = up
      BY DEF IInv, HearInv, HearSound, Quiet
    <2>2. lastRev = rev
      BY <2>1 DEF IInv, ViewInv, CaughtUp, UpToDate, Quiet, Listening
    <2>3. owed = 0
      BY DEF IInv, ViewInv, OwedSound, OwedIsPursued, Quiet
    <2>4. TrueAt(shown, rev)
      BY <2>2, <2>3 DEF IInv, ViewInv, ShownSound, Quiet
    <2>5. shown \in [Facet -> Rev] /\ at \in [Facet -> Rev]
      BY DEF IInv, TypeOK
    <2>6. \A f \in Facet : shown[f] = at[f]
      BY <2>4 DEF TrueAt, IInv, StreamInv, ServerSound
    <2> QED
      BY <2>2, <2>5, <2>6
  <1> QED
    BY <1>1, Invariance, PTL

===============================================================================
