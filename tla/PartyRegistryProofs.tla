-------------------------- MODULE PartyRegistryProofs --------------------------
(***************************************************************************)
(* What holds of the registry for every set of accounts, requests and      *)
(* mutexes: the gate excludes although it is replaced, an end is final,    *)
(* and machine and row agree.                                              *)
(*                                                                         *)
(* Everything rests on one fact (GateKept): while the party is open, or    *)
(* its end under way, the mutex in the map is the only one anybody waits   *)
(* for.  An entry is made when nobody has one, and dropped by the step     *)
(* that closes the party.  So a step under the gate is alone, and what the *)
(* handler found when it took it still holds when it goes on.              *)
(***************************************************************************)
EXTENDS PartyRegistry, TLAPS

At(step) == \E p \in Proc : call[p].at = step

(* The party is open, or being closed. *)
Open == row.status # "ended" \/ At("endRoom")

(* A mutex has one holder. *)
OneHolder ==
    \A p, q \in Proc : Holds(p) /\ Holds(q) /\ p # q => call[p].gate # call[q].gate

(* While the party is open nobody waits for, or holds, an old mutex. *)
GateKept == Open => \A p \in Proc : call[p].gate \in {NoGate, gate}

(* What a handler that holds the gate counts on. *)
StartCounts == At("startRoom") => row.status = "live"
EndCounts == At("endRoom") => row.status = "ended"
TransferCounts ==
    ~faulted => \A p \in Proc : call[p].at = "transferRow" =>
        room # NoRoom /\ room.host = call[p].who /\ row.status = "live"

(* The machine against the row, save while a handler is between the two. *)
ClosedUnlessEnding ==
    ~faulted /\ row.status = "ended" /\ ~At("endRoom") => room = NoRoom
LobbyUntilLive == room # NoRoom /\ row.status = "scheduled" => ~room.started
StartedWhenLive ==
    ~faulted /\ room # NoRoom /\ row.status = "live" /\ ~At("startRoom")
        => room.started
HostKept ==
    ~faulted /\ room # NoRoom /\ ~At("transferRow") => room.host = RowHost(row)

(* The two halves of ExpiryFindsNobody: the second is proved after the rest. *)
NobodyIsIn == call[Task].at = "endRoom" => Present = {}
DateIsOver ==
    call[Task].at = "endRoom" /\ ~faulted /\ (room = NoRoom \/ ~room.started)
        => overdue

Safe ==
    /\ OneHolder /\ GateKept
    /\ StartCounts /\ EndCounts /\ TransferCounts
    /\ ClosedUnlessEnding /\ LobbyUntilLive /\ StartedWhenLive /\ HostKept
    /\ NobodyIsIn /\ StartsOnce

IInv == TypeOK /\ Safe

-----------------------------------------------------------------------------
(* Who is alone.                                                            *)

(* Only `p` went on, to this step, with the mutex it had or with none. *)
Moves(p, step) ==
    /\ \A q \in Proc : q # p => call'[q] = call[q]
    /\ call'[p].at = step
    /\ call'[p].gate \in {NoGate, call[p].gate}

(* A handler that gets the mutex of an open party is alone with it. *)
LEMMA EntersAlone ==
    ASSUME TypeOK, GateKept, Open, NEW p \in Proc, NEW step, Enters(p, step)
    PROVE  \A q \in Proc : ~Holds(q)
  <1>1. call[p].gate = gate /\ gate # NoGate
    BY DEF GateKept, Enters
  <1> SUFFICES ASSUME NEW q \in Proc, Holds(q) PROVE FALSE
    OBVIOUS
  <1>2. call[q].gate = gate
    BY DEF GateKept, TypeOK
  <1> QED
    BY <1>1, <1>2 DEF Enters

(* ... and stays alone as long as it holds it. *)
LEMMA HolderAlone ==
    ASSUME TypeOK, GateKept, OneHolder, Open, NEW p \in Proc, Holds(p)
    PROVE  \A q \in Proc : q # p => ~Holds(q)
  <1> SUFFICES ASSUME NEW q \in Proc, q # p, Holds(q) PROVE FALSE
    OBVIOUS
  <1>1. call[p].gate = gate /\ call[q].gate = gate
    BY DEF GateKept, TypeOK
  <1> QED
    BY <1>1 DEF OneHolder

-----------------------------------------------------------------------------
(* The kinds of steps.                                                      *)

(* A step without the gate that touches neither row nor machine. *)
LEMMA QuietStep ==
    ASSUME IInv, NEW p \in Proc, NEW step \in Step \ Held, ~Holds(p),
           Moves(p, step), UNCHANGED <<row, room, gate, faulted>>
    PROVE  Safe'
  <1>1. \A q \in Proc : Holds(q)' <=> Holds(q)
    BY DEF Holds, Moves
  <1>2. \A q \in Proc : Holds(q) => call'[q] = call[q]
    BY DEF Moves
  <1>3. \A x \in Held : At(x)' <=> At(x)
    BY <1>1, <1>2 DEF Holds, At
  <1>4. Open' <=> Open
    BY <1>3 DEF Open, Held
  <1>5. OneHolder' /\ GateKept'
    BY <1>1, <1>2, <1>4 DEF IInv, Safe, OneHolder, GateKept, Moves
  <1>6. StartCounts' /\ EndCounts'
    BY <1>3 DEF IInv, Safe, StartCounts, EndCounts, Held
  <1>7. TransferCounts'
    BY <1>1, <1>2 DEF IInv, Safe, TransferCounts, Holds, Held
  <1>8. ClosedUnlessEnding' /\ StartedWhenLive' /\ HostKept'
    BY <1>3 DEF IInv, Safe, ClosedUnlessEnding, StartedWhenLive, HostKept,
                RowHost, Held
  <1>9. LobbyUntilLive'
    BY DEF IInv, Safe, LobbyUntilLive
  <1>10. NobodyIsIn'
    BY <1>1, <1>2 DEF IInv, Safe, NobodyIsIn, Holds, Held, Present, Proc
  <1>11. StartsOnce'
    BY <1>1, <1>2 DEF IInv, Safe, StartsOnce, Holds, Held, Proc
  <1> QED
    BY <1>5, <1>6, <1>7, <1>8, <1>9, <1>10, <1>11 DEF Safe

(* The machine stays, or stays away; who is in it may change. *)
Keeps ==
    \/ room' = room
    \/ /\ room # NoRoom /\ room' # NoRoom
       /\ room'.host = room.host /\ room'.started = room.started

(* A step that takes the gate, changes who is in, and gives it back. *)
LEMMA GatedStep ==
    ASSUME IInv, NEW p \in Proc, NEW step \in Gated, Enters(p, step),
           NEW next \in Step \ Held, Moves(p, next), Keeps,
           UNCHANGED <<row, gate, faulted>>
    PROVE  Safe'
  <1>0. ~Holds(p)
    BY DEF Enters, Holds, Gated, Held
  <1>1. \A q \in Proc : Holds(q)' <=> Holds(q)
    BY <1>0 DEF Holds, Moves
  <1>2. \A q \in Proc : Holds(q) => call'[q] = call[q]
    BY <1>0 DEF Moves
  <1>3. \A x \in Held : At(x)' <=> At(x)
    BY <1>1, <1>2 DEF Holds, At
  <1>4. Open' <=> Open
    BY <1>3 DEF Open, Held
  <1>5. Open => \A q \in Proc : ~Holds(q)
    BY EntersAlone DEF IInv, Safe
  <1>6. OneHolder' /\ GateKept'
    BY <1>1, <1>2, <1>4 DEF IInv, Safe, OneHolder, GateKept, Moves
  <1>7. StartCounts' /\ EndCounts'
    BY <1>3 DEF IInv, Safe, StartCounts, EndCounts, Held
  <1>8. TransferCounts'
    BY <1>1, <1>2, <1>5 DEF IInv, Safe, TransferCounts, Holds, Held, Open
  <1>9. ClosedUnlessEnding' /\ LobbyUntilLive' /\ StartedWhenLive' /\ HostKept'
    BY <1>3 DEF IInv, Safe, ClosedUnlessEnding, LobbyUntilLive, StartedWhenLive,
                HostKept, RowHost, Held, Keeps
  <1>10. NobodyIsIn'
    BY <1>1, <1>2, <1>5 DEF NobodyIsIn, Holds, Held, Proc, Open, At
  <1>11. StartsOnce'
    BY <1>1, <1>2, <1>5 DEF IInv, Safe, StartsOnce, StartCounts, Holds, Held, At,
                            Proc, Open
  <1> QED
    BY <1>6, <1>7, <1>8, <1>9, <1>10, <1>11 DEF Safe

(* A step that makes the machine if there is none, on the row as it is. *)
LEMMA EnsureStep ==
    ASSUME IInv, NEW p \in Proc, NEW step \in Gated, Enters(p, step),
           NEW next \in Step \ Held, Moves(p, next), EnsureHeld,
           UNCHANGED <<row, faulted>>
    PROVE  Safe'
  <1>0. ~Holds(p)
    BY DEF Enters, Holds, Gated, Held
  <1>1. \A q \in Proc : Holds(q)' <=> Holds(q)
    BY <1>0 DEF Holds, Moves
  <1>2. \A q \in Proc : Holds(q) => call'[q] = call[q]
    BY <1>0 DEF Moves
  <1>3. \A x \in Held : At(x)' <=> At(x)
    BY <1>1, <1>2 DEF Holds, At
  <1>4. Open' <=> Open
    BY <1>3 DEF Open, Held
  <1>5. Open => \A q \in Proc : ~Holds(q)
    BY EntersAlone DEF IInv, Safe
  <1>6. CASE room # NoRoom
    <2>1. room' = room /\ gate' = gate
      BY <1>6 DEF EnsureHeld
    <2> QED
      BY <2>1, GatedStep DEF Keeps
  <1>7. CASE room = NoRoom /\ row.status = "ended"
    <2>1. room' = NoRoom /\ gate' = NoGate
      BY <1>7 DEF EnsureHeld, Forget
    <2>2. ~Open
      <3>1. ~At("endRoom")
        BY <1>5 DEF Open, At, Holds, Held
      <3> QED
        BY <1>7, <3>1 DEF Open
    <2>3. OneHolder' /\ GateKept'
      BY <1>1, <1>2, <1>4, <2>2 DEF IInv, Safe, OneHolder, GateKept
    <2>4. StartCounts' /\ EndCounts'
      BY <1>3 DEF IInv, Safe, StartCounts, EndCounts, Held
    <2>5. TransferCounts'
      BY <1>1, <1>2, <1>7 DEF IInv, Safe, TransferCounts, Holds, Held
    <2>6. /\ ClosedUnlessEnding' /\ LobbyUntilLive' /\ StartedWhenLive'
          /\ HostKept' /\ NobodyIsIn' /\ StartsOnce'
      BY <2>1 DEF ClosedUnlessEnding, LobbyUntilLive, StartedWhenLive, HostKept,
                  NobodyIsIn, StartsOnce, Present
    <2> QED
      BY <2>3, <2>4, <2>5, <2>6 DEF Safe
  <1>8. CASE room = NoRoom /\ row.status # "ended"
    <2>1. room' = Opened /\ gate' = gate
      BY <1>8 DEF EnsureHeld
    <2>2. \A q \in Proc : ~Holds(q) /\ ~Holds(q)'
      BY <1>1, <1>5, <1>8 DEF Open
    <2>3. OneHolder' /\ GateKept'
      BY <1>4, <2>1, <2>2 DEF IInv, Safe, OneHolder, GateKept, Moves
    <2>4. StartCounts' /\ EndCounts' /\ TransferCounts' /\ ClosedUnlessEnding'
      BY <1>8, <2>2 DEF StartCounts, EndCounts, TransferCounts,
                        ClosedUnlessEnding, At, Holds, Held
    <2>5. LobbyUntilLive' /\ StartedWhenLive' /\ HostKept'
      BY <2>1 DEF LobbyUntilLive, StartedWhenLive, HostKept, Opened, RowHost
    <2>6. NobodyIsIn' /\ StartsOnce'
      BY <2>2 DEF NobodyIsIn, StartsOnce, Holds, Held, Proc
    <2> QED
      BY <2>3, <2>4, <2>5, <2>6 DEF Safe
  <1> QED
    BY <1>6, <1>7, <1>8

(* A handler that wrote the guests and goes on to the machine. *)
LEMMA TakesStep ==
    ASSUME IInv, NEW p \in Proc, NEW step \in Gated, Enters(p, step),
           NEW next \in {"kickRoom", "revokeRoom"}, Moves(p, next),
           UNCHANGED <<row, room, gate, faulted>>
    PROVE  Safe'
  <1>0. ~Holds(p)
    BY DEF Enters, Holds, Gated, Held
  <1>1. \A q \in Proc : q # p => (Holds(q)' <=> Holds(q))
    BY DEF Holds, Moves
  <1>2. \A q \in Proc : q # p => call'[q] = call[q]
    BY DEF Moves
  <1>3. \A x \in Held \ {"kickRoom", "revokeRoom"} : At(x)' <=> At(x)
    BY <1>0 DEF Holds, At, Moves
  <1>4. Open' <=> Open
    BY <1>3 DEF Open, Held
  <1>5. OneHolder'
    <2>1. \A q \in Proc : Holds(q) => call[q].gate # call[p].gate
      BY DEF Enters
    <2>2. \A q \in Proc : Holds(q) => call[q].gate # NoGate
      BY DEF IInv, TypeOK
    <2> QED
      BY <1>1, <1>2, <2>1, <2>2 DEF IInv, Safe, OneHolder, Moves
  <1>6. GateKept'
    BY <1>2, <1>4 DEF IInv, Safe, GateKept, Moves
  <1>7. StartCounts' /\ EndCounts'
    BY <1>3 DEF IInv, Safe, StartCounts, EndCounts, Held
  <1>8. TransferCounts'
    BY <1>2 DEF IInv, Safe, TransferCounts, Moves
  <1>9. ClosedUnlessEnding' /\ LobbyUntilLive' /\ StartedWhenLive' /\ HostKept'
    BY <1>3 DEF IInv, Safe, ClosedUnlessEnding, LobbyUntilLive, StartedWhenLive,
                HostKept, RowHost, Held
  <1>10. NobodyIsIn' /\ StartsOnce'
    BY <1>2 DEF IInv, Safe, NobodyIsIn, StartsOnce, Present, Proc, Moves
  <1> QED
    BY <1>5, <1>6, <1>7, <1>8, <1>9, <1>10 DEF Safe

(* ... and the machine drops those members. *)
LEMMA DropsStep ==
    ASSUME IInv, NEW p \in Proc, call[p].at \in {"kickRoom", "revokeRoom"},
           Moves(p, "idle"), Keeps, Present' \subseteq Present,
           UNCHANGED <<row, gate, faulted>>
    PROVE  Safe'
  <1>1. \A q \in Proc : Holds(q)' => q # p
    BY DEF Holds, Moves, Held
  <1>2. \A q \in Proc : q # p => call'[q] = call[q]
    BY DEF Moves
  <1>3. \A x \in Held \ {"kickRoom", "revokeRoom"} : At(x)' <=> At(x)
    BY DEF Held, At, Moves
  <1>4. Open' <=> Open
    BY <1>3 DEF Open, Held
  <1>5. OneHolder' /\ GateKept'
    BY <1>1, <1>2, <1>4 DEF IInv, Safe, OneHolder, GateKept, Holds, Moves
  <1>6. StartCounts' /\ EndCounts'
    BY <1>3 DEF IInv, Safe, StartCounts, EndCounts, Held
  <1>7. TransferCounts'
    BY <1>2 DEF IInv, Safe, TransferCounts, Moves, Keeps
  <1>8. ClosedUnlessEnding' /\ LobbyUntilLive' /\ StartedWhenLive' /\ HostKept'
    BY <1>3 DEF IInv, Safe, ClosedUnlessEnding, LobbyUntilLive, StartedWhenLive,
                HostKept, RowHost, Held, Keeps
  <1>9. NobodyIsIn' /\ StartsOnce'
    BY <1>2 DEF IInv, Safe, NobodyIsIn, StartsOnce, Proc, Moves, Keeps
  <1> QED
    BY <1>5, <1>6, <1>7, <1>8, <1>9 DEF Safe

-----------------------------------------------------------------------------
(* The steps that begin and end the party's phases.                         *)

(* The mutex is asked for: a new one only when nobody has any. *)
LEMMA AskStep ==
    ASSUME IInv, NEW p \in Proc, Ask(p)
    PROVE  Safe'
  <1>1. PICK g \in Gate :
          /\ IF gate # NoGate THEN g = gate
                              ELSE \A q \in Proc : call[q].gate # g
          /\ gate' = g
          /\ call' = [call EXCEPT ![p].gate = g]
    BY DEF Ask
  <1>2. /\ ~Holds(p) /\ call[p].gate = NoGate
        /\ UNCHANGED <<row, guest, room, faulted>>
    BY DEF Ask, Holds, Gated, Held
  <1>3. /\ \A q \in Proc : q # p => call'[q] = call[q]
        /\ call'[p].gate = g /\ call'[p].at = call[p].at
        /\ call'[p].who = call[p].who
    BY <1>1 DEF IInv, TypeOK, Call
  <1>4. \A q \in Proc : /\ call'[q].at = call[q].at
                        /\ call'[q].who = call[q].who
                        /\ Holds(q)' <=> Holds(q)
    BY <1>3 DEF Holds
  <1>5. \A x \in Held : At(x)' <=> At(x)
    BY <1>4 DEF At
  <1>6. Open' <=> Open
    BY <1>2, <1>5 DEF Open, Held
  <1>7. OneHolder'
    BY <1>2, <1>3, <1>4 DEF IInv, Safe, OneHolder
  <1>8. GateKept'
    BY <1>1, <1>3, <1>6 DEF IInv, Safe, GateKept
  <1>9. StartCounts' /\ EndCounts'
    BY <1>2, <1>5 DEF IInv, Safe, StartCounts, EndCounts, Held
  <1>10. TransferCounts'
    BY <1>2, <1>4 DEF IInv, Safe, TransferCounts
  <1>11. ClosedUnlessEnding' /\ LobbyUntilLive' /\ StartedWhenLive' /\ HostKept'
    BY <1>2, <1>5 DEF IInv, Safe, ClosedUnlessEnding, LobbyUntilLive,
                      StartedWhenLive, HostKept, RowHost, Held
  <1>12. NobodyIsIn' /\ StartsOnce'
    BY <1>2, <1>4 DEF IInv, Safe, NobodyIsIn, StartsOnce, Present, Proc
  <1> QED
    BY <1>7, <1>8, <1>9, <1>10, <1>11, <1>12 DEF Safe

(* A handler alone at the gate makes the row live, or ended, and goes on   *)
(* to the machine: nobody else is between the two.                         *)
LEMMA AloneAfterwards ==
    ASSUME TypeOK, GateKept, row.status # "ended",
           NEW p \in Proc, NEW step \in Gated, Enters(p, step),
           NEW next \in Step, Moves(p, next), call'[p].gate = call[p].gate
    PROVE  /\ \A q \in Proc : ~Holds(q)
           /\ \A q \in Proc : q # p => ~Holds(q)' /\ call'[q] = call[q]
           /\ \A q \in Proc : call'[q].gate \in {NoGate, gate}
  <1>1. Open
    BY DEF Open
  <1>2. \A q \in Proc : ~Holds(q)
    BY <1>1, EntersAlone
  <1> QED
    BY <1>1, <1>2 DEF Holds, Moves, GateKept

LEMMA GoesLiveStep ==
    ASSUME IInv, NEW p \in Proc, Enters(p, "start"), row.status = "scheduled",
           EnsureHeld, row' = [row EXCEPT !.status = "live"],
           Keep(p, "startRoom"), faulted' = faulted
    PROVE  Safe'
  <1>1. /\ row'.status = "live" /\ row'.host = row.host
        /\ RowHost(row') = RowHost(row)
    BY DEF IInv, TypeOK, Row, RowHost
  <1>2. Moves(p, "startRoom") /\ call'[p].gate = call[p].gate
    BY DEF Keep, Moves, IInv, TypeOK, Call
  <1>3. /\ \A q \in Proc : ~Holds(q)
        /\ \A q \in Proc : q # p => ~Holds(q)' /\ call'[q] = call[q]
        /\ \A q \in Proc : call'[q].gate \in {NoGate, gate}
    BY <1>2, AloneAfterwards DEF IInv, Safe, Gated, Step, Held
  <1>4. gate' = gate /\ room' = IF room = NoRoom THEN Opened ELSE room
    BY DEF EnsureHeld
  <1>5. /\ ~room'.started
        /\ room' # NoRoom /\ ~faulted => room'.host = RowHost(row)
    <2>1. ~At("transferRow")
      BY <1>3 DEF At, Holds, Held
    <2> QED
      BY <1>4, <2>1 DEF IInv, Safe, LobbyUntilLive, HostKept, Opened
  <1>6. OneHolder' /\ GateKept'
    BY <1>3, <1>4 DEF OneHolder, GateKept
  <1>7. StartCounts' /\ EndCounts' /\ TransferCounts'
    BY <1>1, <1>2, <1>3 DEF StartCounts, EndCounts, TransferCounts, At, Holds,
                            Held, Moves
  <1>8. At("startRoom")'
    BY <1>2 DEF At, Moves
  <1>9. ClosedUnlessEnding' /\ LobbyUntilLive' /\ StartedWhenLive' /\ HostKept'
    BY <1>1, <1>5, <1>8 DEF ClosedUnlessEnding, LobbyUntilLive, StartedWhenLive,
                            HostKept
  <1>10. NobodyIsIn'
    BY <1>2, <1>3 DEF NobodyIsIn, Holds, Held, Proc, Moves
  <1>11. StartsOnce'
    BY <1>5 DEF StartsOnce
  <1> QED
    BY <1>6, <1>7, <1>9, <1>10, <1>11 DEF Safe

LEMMA EndsStep ==
    ASSUME IInv, NEW p \in Proc, NEW step \in Gated, Enters(p, step),
           row.status # "ended", row' = [row EXCEPT !.status = "ended"],
           Keep(p, "endRoom"), p = Task => Present = {},
           UNCHANGED <<room, gate, faulted>>
    PROVE  Safe'
  <1>1. row'.status = "ended" /\ RowHost(row') = RowHost(row)
    BY DEF IInv, TypeOK, Row, RowHost
  <1>2. Moves(p, "endRoom") /\ call'[p].gate = call[p].gate
    BY DEF Keep, Moves, IInv, TypeOK, Call
  <1>3. /\ \A q \in Proc : ~Holds(q)
        /\ \A q \in Proc : q # p => ~Holds(q)' /\ call'[q] = call[q]
        /\ \A q \in Proc : call'[q].gate \in {NoGate, gate}
    BY <1>2, AloneAfterwards DEF IInv, Safe, Step, Held
  <1>4. OneHolder' /\ GateKept'
    BY <1>3 DEF OneHolder, GateKept
  <1>5. StartCounts' /\ EndCounts' /\ TransferCounts'
    BY <1>1, <1>2, <1>3 DEF StartCounts, EndCounts, TransferCounts, At, Holds,
                            Held, Moves
  <1>6. At("endRoom")'
    BY <1>2 DEF At, Moves
  <1>7. ClosedUnlessEnding' /\ LobbyUntilLive' /\ StartedWhenLive'
    BY <1>1, <1>6 DEF ClosedUnlessEnding, LobbyUntilLive, StartedWhenLive
  <1>8. HostKept'
    <2>1. ~At("transferRow")
      BY <1>3 DEF At, Holds, Held
    <2> QED
      BY <1>1, <2>1 DEF IInv, Safe, HostKept
  <1>9. NobodyIsIn' /\ StartsOnce'
    BY <1>2, <1>3 DEF NobodyIsIn, StartsOnce, Holds, Held, Present, Proc,
                      Moves
  <1> QED
    BY <1>4, <1>5, <1>7, <1>8, <1>9 DEF Safe

(* The handler that holds the gate of an open party finishes: afterwards   *)
(* nobody holds it.                                                        *)
LEMMA NobodyAfterwards ==
    ASSUME TypeOK, GateKept, OneHolder, Open, NEW p \in Proc, Holds(p),
           Moves(p, "idle")
    PROVE  /\ \A q \in Proc : q # p => ~Holds(q)
           /\ \A q \in Proc : ~Holds(q)' /\ call'[q].gate \in {NoGate, gate}
  <1>1. \A q \in Proc : q # p => ~Holds(q)
    BY HolderAlone
  <1> QED
    BY <1>1 DEF Holds, Held, Moves, GateKept

LEMMA StartRoomStep ==
    ASSUME IInv, NEW p \in Proc, StartRoom(p)
    PROVE  Safe'
  <1>1. call[p].at = "startRoom" /\ UNCHANGED <<row, gate, faulted>>
    BY DEF StartRoom
  <1>2. Moves(p, "idle") /\ Holds(p)
    BY <1>1 DEF StartRoom, Done, Moves, IInv, TypeOK, Call, Idle, Holds, Held
  <1>3. row.status = "live"
    BY <1>1 DEF IInv, Safe, StartCounts, At
  <1>4. /\ \A q \in Proc : q # p => ~Holds(q)
        /\ \A q \in Proc : ~Holds(q)' /\ call'[q].gate \in {NoGate, gate}
    BY <1>2, <1>3, NobodyAfterwards DEF IInv, Safe, Open
  <1>5. room' # NoRoom =>
          room # NoRoom /\ room'.started /\ room'.host = room.host
    BY DEF StartRoom, IInv, TypeOK, Room
  <1>6. OneHolder' /\ GateKept' /\ StartCounts' /\ EndCounts' /\ TransferCounts'
    BY <1>1, <1>4 DEF OneHolder, GateKept, StartCounts, EndCounts,
                      TransferCounts, At, Holds, Held
  <1>7. ClosedUnlessEnding' /\ LobbyUntilLive' /\ StartedWhenLive'
    BY <1>1, <1>3, <1>5 DEF ClosedUnlessEnding, LobbyUntilLive, StartedWhenLive
  <1>8. HostKept'
    <2>1. ~At("transferRow")
      BY <1>1, <1>4 DEF At, Holds, Held
    <2> QED
      BY <1>1, <1>5, <2>1 DEF IInv, Safe, HostKept, RowHost
  <1>9. NobodyIsIn' /\ StartsOnce'
    BY <1>4 DEF NobodyIsIn, StartsOnce, Holds, Held, Proc
  <1> QED
    BY <1>6, <1>7, <1>8, <1>9 DEF Safe

LEMMA EndRoomStep ==
    ASSUME IInv, NEW p \in Proc, EndRoom(p)
    PROVE  Safe'
  <1>1. /\ call[p].at = "endRoom" /\ UNCHANGED <<row, faulted>>
        /\ room' = NoRoom /\ gate' = NoGate
    BY DEF EndRoom, Forget
  <1>2. Moves(p, "idle") /\ Holds(p)
    BY <1>1 DEF EndRoom, Done, Moves, IInv, TypeOK, Call, Idle, Holds, Held
  <1>3. At("endRoom")
    BY <1>1 DEF At
  <1>4. \A q \in Proc : ~Holds(q)'
    BY <1>2, <1>3, NobodyAfterwards DEF IInv, Safe, Open
  <1>5. row'.status = "ended" /\ ~At("endRoom")'
    BY <1>1, <1>3, <1>4 DEF IInv, Safe, EndCounts, At, Holds, Held
  <1>6. OneHolder' /\ GateKept' /\ StartCounts' /\ EndCounts' /\ TransferCounts'
    BY <1>4, <1>5 DEF OneHolder, GateKept, StartCounts, EndCounts,
                      TransferCounts, At, Holds, Held, Open
  <1>7. /\ ClosedUnlessEnding' /\ LobbyUntilLive' /\ StartedWhenLive'
        /\ HostKept' /\ NobodyIsIn' /\ StartsOnce'
    BY <1>1 DEF ClosedUnlessEnding, LobbyUntilLive, StartedWhenLive, HostKept,
                NobodyIsIn, StartsOnce, Present
  <1> QED
    BY <1>6, <1>7 DEF Safe

(* The machine has a new host, and the row is about to: a faultless one    *)
(* that plays is live, so the handler is alone.                            *)
LEMMA TransferRoomStep ==
    ASSUME IInv, NEW p \in Proc, Enters(p, "transfer"),
           room # NoRoom, room.started,
           room' = [room EXCEPT !.host = call[p].who],
           Keep(p, "transferRow"), UNCHANGED <<row, gate, faulted>>
    PROVE  Safe'
  <1>0. /\ room' # NoRoom /\ room'.host = call[p].who
        /\ room'.started = room.started /\ room'.present = room.present
    <2>1. room \in Room /\ call[p].who \in User
      BY DEF IInv, TypeOK, Call
    <2>2. room' \in Room
      BY <2>1 DEF Room
    <2> QED
      BY <2>1, <2>2, RoomAssumption DEF Room
  <1>1. /\ Moves(p, "transferRow") /\ call'[p].gate = call[p].gate
        /\ call'[p].who = call[p].who
    BY DEF Keep, Moves, IInv, TypeOK, Call
  <1>2. ~Holds(p) /\ "transfer" \in Gated /\ "transferRow" \in Step
    BY DEF Enters, Holds, Gated, Held, Step
  <1>3. Open => /\ \A q \in Proc : ~Holds(q)
                /\ \A q \in Proc : q # p => ~Holds(q)' /\ call'[q] = call[q]
    BY <1>1, <1>2, EntersAlone DEF IInv, Safe, Holds, Moves
  <1>4. \A x \in Held \ {"transferRow"} : At(x)' <=> At(x)
    BY <1>1, <1>2 DEF At, Holds, Moves
  <1>5. Open' <=> Open
    BY <1>4 DEF Open, Held
  <1>6. OneHolder'
    <2>1. \A q \in Proc : Holds(q) => call[q].gate # call[p].gate
      BY DEF Enters
    <2>2. \A q \in Proc : q # p => (Holds(q)' <=> Holds(q)) /\ call'[q] = call[q]
      BY <1>1 DEF Holds, Moves
    <2> QED
      BY <1>1, <2>1, <2>2 DEF IInv, Safe, OneHolder
  <1>7. GateKept'
    BY <1>1, <1>5 DEF IInv, Safe, GateKept, Moves
  <1>8. StartCounts' /\ EndCounts'
    BY <1>4 DEF IInv, Safe, StartCounts, EndCounts, Held
  <1>9. ~faulted => Open /\ row.status = "live"
    <2>1. ~faulted => Open
      BY DEF IInv, Safe, ClosedUnlessEnding, Open
    <2>2. Open => ~At("endRoom")
      BY <1>3 DEF At, Holds, Held
    <2> QED
      BY <2>1, <2>2 DEF IInv, Safe, LobbyUntilLive, Open, TypeOK, Row, Status
  <1>10. TransferCounts'
    BY <1>0, <1>1, <1>3, <1>9 DEF TransferCounts, Holds, Held
  <1>11. ClosedUnlessEnding' /\ LobbyUntilLive' /\ StartedWhenLive'
    BY <1>0, <1>4 DEF IInv, Safe, ClosedUnlessEnding, LobbyUntilLive,
                      StartedWhenLive, Held
  <1>12. At("transferRow")'
    BY <1>1 DEF At, Moves
  <1>13. HostKept'
    BY <1>12 DEF HostKept
  <1>14. NobodyIsIn' /\ StartsOnce'
    <2>1. \A q \in Proc : call'[q].at \in {"endRoom", "startRoom"} =>
                            call[q].at = call'[q].at
      BY <1>1 DEF Moves
    <2> QED
      BY <1>0, <2>1 DEF IInv, Safe, NobodyIsIn, StartsOnce, Present, Proc
  <1> QED
    BY <1>6, <1>7, <1>8, <1>10, <1>11, <1>13, <1>14 DEF Safe

LEMMA TransferRowStep ==
    ASSUME IInv, NEW p \in Proc, TransferRow(p)
    PROVE  Safe'
  <1>1. call[p].at = "transferRow" /\ UNCHANGED <<room, gate, faulted>>
    BY DEF TransferRow
  <1>2. /\ row'.status = row.status /\ row'.host = call[p].who
        /\ call[p].who \in User
    BY DEF TransferRow, IInv, TypeOK, Row, Call
  <1>3. Moves(p, "idle") /\ Holds(p) /\ ~Holds(p)'
    BY <1>1 DEF TransferRow, Done, Moves, IInv, TypeOK, Call, Idle, Holds, Held
  <1>4. \A q \in Proc : Holds(q)' => q # p /\ Holds(q) /\ call'[q] = call[q]
    BY <1>3 DEF Holds, Moves
  <1>5. \A x \in Held \ {"transferRow"} : At(x)' <=> At(x)
    BY <1>1, <1>3 DEF At, Held, Moves
  <1>6. Open' <=> Open
    BY <1>2, <1>5 DEF Open, Held
  <1>7. OneHolder' /\ GateKept'
    BY <1>1, <1>3, <1>4, <1>6 DEF IInv, Safe, OneHolder, GateKept, Moves
  <1>8. StartCounts' /\ EndCounts'
    BY <1>2, <1>5 DEF IInv, Safe, StartCounts, EndCounts, Held
  <1>9. TransferCounts'
    BY <1>1, <1>2, <1>4 DEF IInv, Safe, TransferCounts, Holds, Held
  <1>10. ClosedUnlessEnding' /\ LobbyUntilLive' /\ StartedWhenLive'
    BY <1>1, <1>2, <1>5 DEF IInv, Safe, ClosedUnlessEnding, LobbyUntilLive,
                            StartedWhenLive, Held
  <1>11. HostKept'
    <2>1. ~faulted => room.host = call[p].who
      BY <1>1 DEF IInv, Safe, TransferCounts
    <2>2. RowHost(row') = call[p].who
      BY <1>2, RegistryAssumption DEF RowHost
    <2> QED
      BY <1>1, <2>1, <2>2 DEF HostKept
  <1>12. NobodyIsIn' /\ StartsOnce'
    BY <1>1, <1>4 DEF IInv, Safe, NobodyIsIn, StartsOnce, Present, Proc,
                      Holds, Held
  <1> QED
    BY <1>7, <1>8, <1>9, <1>10, <1>11, <1>12 DEF Safe

(* An empty room that is not live only frees its machine. *)
LEMMA FreesStep ==
    ASSUME IInv, Enters(Task, "expire"), row.status # "live", room' = NoRoom,
           Done(Task), UNCHANGED <<row, gate, faulted>>
    PROVE  Safe'
  <1> Task \in Proc
    BY DEF Proc
  <1>1. Moves(Task, "idle") /\ ~Holds(Task)
    BY DEF Done, Moves, IInv, TypeOK, Call, Idle, Enters, Holds, Held
  <1>2. \A q \in Proc : /\ Holds(q)' <=> Holds(q)
                        /\ Holds(q) => call'[q] = call[q]
    BY <1>1 DEF Holds, Moves, Held
  <1>3. \A x \in Held : At(x)' <=> At(x)
    BY <1>2 DEF At, Holds
  <1>4. Open' <=> Open
    BY <1>3 DEF Open, Held
  <1>5. OneHolder' /\ GateKept'
    BY <1>1, <1>2, <1>4 DEF IInv, Safe, OneHolder, GateKept, Moves
  <1>6. StartCounts' /\ EndCounts'
    BY <1>3 DEF IInv, Safe, StartCounts, EndCounts, Held
  <1>7. TransferCounts'
    BY <1>2 DEF IInv, Safe, TransferCounts, Holds, Held
  <1>8. /\ ClosedUnlessEnding' /\ LobbyUntilLive' /\ StartedWhenLive'
        /\ HostKept' /\ NobodyIsIn' /\ StartsOnce'
    BY DEF ClosedUnlessEnding, LobbyUntilLive, StartedWhenLive, HostKept,
           NobodyIsIn, StartsOnce, Present
  <1> QED
    BY <1>5, <1>6, <1>7, <1>8 DEF Safe

(* A fault under the gate excuses machine and row from agreeing.           *)
LEMMA FaultStep ==
    ASSUME IInv, NEW p \in Proc, Fault(p)
    PROVE  Safe'
  <1>1. Moves(p, "idle") /\ UNCHANGED <<row, room, gate>>
    BY DEF Fault, Done, Moves, IInv, TypeOK, Call, Idle
  <1>2. CASE ~Holds(p)
    <2>1. faulted' = faulted
      BY <1>2 DEF Fault, IInv, TypeOK
    <2>2. "idle" \in Step \ Held
      BY DEF Step, Held
    <2> QED
      BY <1>1, <1>2, <2>1, <2>2, QuietStep
  <1>3. CASE Holds(p)
    <2>1. faulted'
      BY <1>3 DEF Fault
    <2>2. \A q \in Proc : Holds(q)' => q # p /\ Holds(q) /\ call'[q] = call[q]
      BY <1>1 DEF Holds, Moves, Held
    <2>3. \A x \in Held : At(x)' => At(x)
      BY <2>2 DEF At, Holds
    <2>4. Open' => Open
      BY <1>1, <2>3 DEF Open, Held
    <2>5. OneHolder' /\ GateKept'
      BY <1>1, <2>2, <2>4 DEF IInv, Safe, OneHolder, GateKept, Moves
    <2>6. StartCounts' /\ EndCounts'
      BY <1>1, <2>3 DEF IInv, Safe, StartCounts, EndCounts, Held
    <2>7. /\ TransferCounts' /\ ClosedUnlessEnding' /\ StartedWhenLive'
          /\ HostKept'
      BY <2>1 DEF TransferCounts, ClosedUnlessEnding, StartedWhenLive, HostKept
    <2>8. LobbyUntilLive'
      BY <1>1 DEF IInv, Safe, LobbyUntilLive
    <2>9. NobodyIsIn' /\ StartsOnce'
      BY <1>1, <2>2 DEF IInv, Safe, NobodyIsIn, StartsOnce, Present, Proc,
                        Holds, Held
    <2> QED
      BY <2>5, <2>6, <2>7, <2>8, <2>9 DEF Safe
  <1> QED
    BY <1>2, <1>3

LEMMA RestartStep ==
    ASSUME IInv, Restart
    PROVE  Safe'
  <1>1. \A q \in Proc : call'[q].at = "idle" /\ call'[q].gate = NoGate
    BY DEF Restart, Idle
  <1>2. \A q \in Proc : ~Holds(q)'
    BY <1>1 DEF Holds, Held
  <1>3. \A x \in Held : ~At(x)'
    BY <1>1 DEF At, Held
  <1>4. OneHolder' /\ GateKept' /\ StartCounts' /\ EndCounts' /\ TransferCounts'
    BY <1>1, <1>2, <1>3 DEF OneHolder, GateKept, StartCounts, EndCounts,
                            TransferCounts, Held
  <1>5. row' = row /\ room' = IF row.status = "live" THEN Opened ELSE NoRoom
    BY DEF Restart
  <1>6. ClosedUnlessEnding' /\ LobbyUntilLive' /\ StartedWhenLive' /\ HostKept'
    BY <1>5 DEF ClosedUnlessEnding, LobbyUntilLive, StartedWhenLive, HostKept,
                Opened, RowHost
  <1>7. NobodyIsIn' /\ StartsOnce'
    BY <1>1 DEF NobodyIsIn, StartsOnce, Proc
  <1> QED
    BY <1>4, <1>6, <1>7 DEF Safe

LEMMA TimePassesStep ==
    ASSUME IInv, RoomIdles \/ DatePasses \/ UNCHANGED vars
    PROVE  Safe'
  <1>1. UNCHANGED <<row, gate, faulted, call>>
    BY DEF RoomIdles, DatePasses, vars
  <1>2. Keeps /\ Present' = Present
    <2>1. CASE RoomIdles
      <3>1. room \in Room
        BY <2>1 DEF RoomIdles, IInv, TypeOK
      <3>2. room' = [room EXCEPT !.idle = TRUE]
        BY <2>1 DEF RoomIdles
      <3>3. room' \in Room
        BY <3>1, <3>2 DEF Room
      <3> QED
        BY <3>1, <3>2, <3>3, RoomAssumption DEF Keeps, Present, Room
    <2>2. CASE ~RoomIdles
      BY <2>2 DEF DatePasses, vars, Keeps, Present
    <2> QED
      BY <2>1, <2>2
  <1>3. \A q \in Proc : Holds(q)' <=> Holds(q)
    BY <1>1 DEF Holds
  <1>4. \A x \in Held : At(x)' <=> At(x)
    BY <1>1 DEF At
  <1>5. OneHolder' /\ GateKept' /\ StartCounts' /\ EndCounts'
    BY <1>1, <1>3, <1>4 DEF IInv, Safe, OneHolder, GateKept, StartCounts,
                            EndCounts, Open, Held
  <1>6. TransferCounts' /\ NobodyIsIn' /\ StartsOnce'
    BY <1>1, <1>2 DEF IInv, Safe, TransferCounts, NobodyIsIn, StartsOnce,
                      Keeps
  <1>7. ClosedUnlessEnding' /\ LobbyUntilLive' /\ StartedWhenLive' /\ HostKept'
    BY <1>1, <1>2, <1>4 DEF IInv, Safe, ClosedUnlessEnding, LobbyUntilLive,
                            StartedWhenLive, HostKept, RowHost, Held, Keeps
  <1> QED
    BY <1>5, <1>6, <1>7 DEF Safe

-----------------------------------------------------------------------------
(* What the steps of a handler leave in its call, and in the machine.       *)

CallOK ==
    /\ call \in [Proc -> Call]
    /\ \A p \in Proc : Holds(p) => call[p].gate # NoGate

RoomOK ==
    /\ room \in Room \cup {NoRoom}
    /\ room # NoRoom /\ room.idle => room.present = {}

LEMMA DoneMoves ==
    ASSUME TypeOK, NEW p \in Proc, Done(p)
    PROVE  CallOK' /\ Moves(p, "idle")
  <1>1. Idle \in Call
    BY RegistryAssumption
       DEF Idle, Call, Step, NoRow, Row, Status
  <1> QED
    BY <1>1 DEF TypeOK, Done, CallOK, Moves, Idle, Holds, Held

LEMMA ReleaseMoves ==
    ASSUME TypeOK, NEW p \in Proc, NEW step \in Step \ Held, Release(p, step)
    PROVE  CallOK' /\ Moves(p, step)
  <1> DEFINE c == [call[p] EXCEPT !.at = step, !.gate = NoGate]
  <1>1. c \in Call /\ c.at = step /\ c.gate = NoGate
    BY DEF TypeOK, Call
  <1>2. call' = [call EXCEPT ![p] = c]
    BY DEF Release
  <1> HIDE DEF c
  <1> QED
    BY <1>1, <1>2 DEF TypeOK, CallOK, Moves, Holds

LEMMA KeepMoves ==
    ASSUME TypeOK, NEW p \in Proc, NEW step \in Step, Keep(p, step),
           call[p].gate # NoGate
    PROVE  CallOK' /\ Moves(p, step) /\ call'[p].gate = call[p].gate
  <1> DEFINE c == [call[p] EXCEPT !.at = step]
  <1>1. c \in Call /\ c.at = step /\ c.gate = call[p].gate
    BY DEF TypeOK, Call
  <1>2. call' = [call EXCEPT ![p] = c]
    BY DEF Keep
  <1> HIDE DEF c
  <1> QED
    BY <1>1, <1>2 DEF TypeOK, CallOK, Moves, Holds

LEMMA EnsureTyped ==
    ASSUME TypeOK, EnsureHeld
    PROVE  RoomOK' /\ gate' \in Gate \cup {NoGate}
  <1>1. Opened \in Room /\ Opened.present = {}
    BY RegistryAssumption DEF TypeOK, Opened, Room, Row, RowHost
  <1> QED
    BY <1>1 DEF TypeOK, EnsureHeld, Forget, RoomOK

(* Whoever the machine drops, it stays the machine it was. *)
LEMMA KickedKeeps ==
    ASSUME TypeOK, NEW gone, room' = Kicked(room, gone)
    PROVE  RoomOK' /\ Keeps /\ Present' \subseteq Present
  <1>1. CASE room = NoRoom
    BY <1>1 DEF Kicked, RoomOK, Keeps, Present
  <1>2. CASE room # NoRoom
    <2> DEFINE left == room.present \ (gone \ {room.host})
    <2>1. room \in Room /\ left \in SUBSET User /\ left \subseteq room.present
      BY <1>2 DEF TypeOK, Room
    <2>2. room' = [room EXCEPT !.present = left]
      BY <1>2 DEF Kicked
    <2> HIDE DEF left
    <2>3. /\ room' \in Room /\ room'.present = left /\ room'.host = room.host
          /\ room'.started = room.started /\ room'.idle = room.idle
      BY <2>1, <2>2 DEF Room
    <2>4. room' # NoRoom
      BY <2>3, RoomAssumption
    <2> QED
      BY <1>2, <2>1, <2>3, <2>4 DEF TypeOK, RoomOK, Keeps, Present
  <1> QED
    BY <1>1, <1>2

(* Who is in may change, and the countdown with it. *)
LEMMA PresenceKeeps ==
    ASSUME TypeOK, room # NoRoom, NEW who \in SUBSET User, NEW idle \in BOOLEAN,
           idle => who = {},
           room' = [room EXCEPT !.present = who, !.idle = idle]
    PROVE  RoomOK' /\ Keeps
  <1>1. room \in Room
    BY DEF TypeOK
  <1>2. /\ room' \in Room /\ room'.present = who /\ room'.host = room.host
        /\ room'.started = room.started /\ room'.idle = idle
    BY <1>1 DEF Room
  <1> QED
    BY <1>2, RoomAssumption DEF RoomOK, Keeps

(* ... or it may only shrink. *)
LEMMA LeavesKeep ==
    ASSUME TypeOK, room # NoRoom, NEW who \in SUBSET room.present,
           room' = [room EXCEPT !.present = who]
    PROVE  RoomOK' /\ Keeps
  <1>1. room \in Room /\ who \in SUBSET User
    BY DEF TypeOK, Room
  <1>2. /\ room' \in Room /\ room'.present = who /\ room'.host = room.host
        /\ room'.started = room.started /\ room'.idle = room.idle
    BY <1>1 DEF Room
  <1> QED
    BY <1>2, RoomAssumption DEF TypeOK, RoomOK, Keeps

LEMMA Typed ==
    ASSUME CallOK', RoomOK', row' \in Row, guest' \in [User -> Source],
           gate' \in Gate \cup {NoGate}, overdue' \in BOOLEAN,
           faulted' \in BOOLEAN
    PROVE  TypeOK'
  BY DEF TypeOK, CallOK, RoomOK

LEMMA BeginsStep ==
    ASSUME IInv, NEW p \in Proc, NEW c \in Call, c.at \in Step \ Held,
           c.gate = NoGate, NewCall(p, c)
    PROVE  IInv'
  <1>1. CallOK' /\ Moves(p, c.at) /\ ~Holds(p)
    BY DEF NewCall, IInv, TypeOK, CallOK, Moves, Holds, Held
  <1>2. TypeOK'
    BY <1>1, Typed DEF NewCall, IInv, TypeOK, RoomOK, CallOK
  <1>3. Safe'
    BY <1>1, QuietStep DEF NewCall
  <1> QED
    BY <1>2, <1>3 DEF IInv

-----------------------------------------------------------------------------
(* The actions.                                                             *)

LEMMA RequestBeginsStep ==
    ASSUME IInv, NEW p \in Proc, NEW u \in User, RequestBegins(p, u)
    PROVE  IInv'
  <1>0. /\ Idle \in Call /\ Idle.gate = NoGate
        /\ row \in Row
    BY RegistryAssumption
       DEF Idle, Call, Step, NoRow, Row, Status, IInv, TypeOK
  <1> DEFINE Simple == {"leave", "quitRow", "start", "end", "patch", "transfer",
                        "inviteRow"}
  <1>1. ASSUME NEW v \in User, NEW step \in Simple, Begin(p, step, v)
        PROVE  IInv'
    <2> DEFINE c == [Idle EXCEPT !.at = step, !.who = v]
    <2>1. step \in Step \ Held
      BY DEF Step, Gated, Held
    <2>2. c \in Call /\ c.at = step /\ c.gate = NoGate
      BY <1>0, <2>1 DEF Call
    <2>3. NewCall(p, c)
      BY <1>1 DEF Begin
    <2> HIDE DEF c
    <2> QED
      BY <2>1, <2>2, <2>3, BeginsStep
  <1>2. CASE Join(p, u)
    <2> DEFINE at == IF room = NoRoom THEN "ensure" ELSE "check"
               token == ~(u = Owner \/ IsGuest(u))
               c == [Idle EXCEPT !.at = at, !.who = u, !.token = token]
    <2>1. at \in Step \ Held /\ token \in BOOLEAN
      BY DEF Step, Gated, Held
    <2> HIDE DEF at, token
    <2>2. c \in Call /\ c.at = at /\ c.gate = NoGate
      BY <1>0, <2>1 DEF Call
    <2>3. NewCall(p, c)
      BY <1>2 DEF Join, at, token
    <2> HIDE DEF c
    <2> QED
      BY <2>1, <2>2, <2>3, BeginsStep
  <1>3. ASSUME NEW v \in User, Kick(p, u, v)
        PROVE  IInv'
    <2> DEFINE c == [Idle EXCEPT !.at = "kick", !.who = v, !.seen = row]
    <2>1. "kick" \in Step \ Held
      BY DEF Step, Gated, Held
    <2>2. c \in Call /\ c.at = "kick" /\ c.gate = NoGate
      BY <1>0, <2>1 DEF Call
    <2>3. NewCall(p, c)
      BY <1>3 DEF Kick
    <2> HIDE DEF c
    <2> QED
      BY <2>1, <2>2, <2>3, BeginsStep
  <1>4. Owner \in User
    BY RegistryAssumption
  <1>5. CASE Leave(p, u) \/ Quit(p, u) \/ Start(p, u) \/ End(p, u) \/ Patch(p, u)
    BY <1>1, <1>4, <1>5 DEF Leave, Quit, Start, End, Patch
  <1>6. ASSUME NEW v \in User, Transfer(p, u, v) \/ Invite(p, u, v)
        PROVE  IInv'
    BY <1>1, <1>6 DEF Transfer, Invite
  <1> QED
    BY <1>2, <1>3, <1>5, <1>6 DEF RequestBegins

LEMMA JoinStepsStep ==
    ASSUME IInv, NEW p \in Proc, JoinSteps(p)
    PROVE  IInv'
  <1>0. TypeOK
    BY DEF IInv
  <1>1. CASE Ensure(p)
    <2>1. PICK next \in {"idle", "check"} : CallOK' /\ Moves(p, next)
      BY <1>0, <1>1, DoneMoves, ReleaseMoves DEF Ensure, Step, Gated, Held
    <2>2. RoomOK' /\ gate' \in Gate \cup {NoGate}
      BY <1>0, <1>1, EnsureTyped DEF Ensure
    <2>3. TypeOK'
      BY <1>0, <1>1, <2>1, <2>2, Typed DEF Ensure, TypeOK
    <2>4. "ensure" \in Gated /\ next \in Step \ Held
      BY DEF Step, Gated, Held
    <2>5. Safe'
      BY <1>1, <2>1, <2>4, EnsureStep DEF Ensure
    <2> QED
      BY <2>3, <2>5 DEF IInv
  <1>2. CASE JoinCheck(p)
    <2>1. PICK next \in {"idle", "admit", "enter"} : CallOK' /\ Moves(p, next)
      BY <1>0, <1>2, DoneMoves, ReleaseMoves DEF JoinCheck, Step, Gated, Held
    <2>2. TypeOK'
      BY <1>0, <1>2, <2>1, Typed DEF JoinCheck, TypeOK, RoomOK
    <2>3. ~Holds(p) /\ next \in Step \ Held
      BY <1>2 DEF JoinCheck, Step, Gated, Holds, Held
    <2>4. Safe'
      BY <1>2, <2>1, <2>3, QuietStep DEF JoinCheck
    <2> QED
      BY <2>2, <2>4 DEF IInv
  <1>3. CASE JoinAdmit(p)
    <2>1. "enter" \in Step \ Held /\ ~Holds(p)
      BY <1>3 DEF JoinAdmit, Step, Gated, Holds, Held
    <2>2. CallOK' /\ Moves(p, "enter")
      BY <1>0, <1>3, <2>1, ReleaseMoves DEF JoinAdmit
    <2>3. guest' \in [User -> Source]
      BY <1>0, <1>3 DEF JoinAdmit, TypeOK, Source
    <2>4. TypeOK'
      BY <1>0, <1>3, <2>2, <2>3, Typed DEF JoinAdmit, TypeOK, RoomOK
    <2>5. Safe'
      BY <1>3, <2>1, <2>2, QuietStep DEF JoinAdmit
    <2> QED
      BY <2>4, <2>5 DEF IInv
  <1>4. CASE JoinEnter(p)
    <2>1. CallOK' /\ Moves(p, "idle")
      BY <1>0, <1>4, DoneMoves DEF JoinEnter
    <2>2. RoomOK' /\ Keeps
      <3>1. CASE room = NoRoom
        BY <1>0, <1>4, <3>1 DEF JoinEnter, TypeOK, RoomOK, Keeps
      <3>2. CASE room # NoRoom
        <4> DEFINE who == room.present \cup {call[p].who}
        <4>1. who \in SUBSET User
          BY <1>0, <3>2 DEF TypeOK, Room, Call
        <4>2. room' = [room EXCEPT !.present = who, !.idle = FALSE]
          BY <1>4, <3>2 DEF JoinEnter
        <4> HIDE DEF who
        <4> QED
          BY <1>0, <3>2, <4>1, <4>2, PresenceKeeps
      <3> QED
        BY <3>1, <3>2
    <2>3. TypeOK'
      BY <1>0, <1>4, <2>1, <2>2, Typed DEF JoinEnter, TypeOK
    <2>4. "enter" \in Gated /\ "idle" \in Step \ Held
      BY DEF Step, Gated, Held
    <2>5. Safe'
      BY <1>4, <2>1, <2>2, <2>4, GatedStep DEF JoinEnter
    <2> QED
      BY <2>3, <2>5 DEF IInv
  <1> QED
    BY <1>1, <1>2, <1>3, <1>4 DEF JoinSteps

LEMMA LeaveStepsStep ==
    ASSUME IInv, NEW p \in Proc, LeaveSteps(p)
    PROVE  IInv'
  <1>0. TypeOK /\ {"leave", "quit"} \subseteq Gated /\ "idle" \in Step \ Held
    BY DEF IInv, Step, Gated, Held
  <1>1. ASSUME room # NoRoom,
               room' = [room EXCEPT !.present = @ \ {call[p].who}]
        PROVE  RoomOK' /\ Keeps
    <2> DEFINE who == room.present \ {call[p].who}
    <2>1. who \in SUBSET room.present /\ room' = [room EXCEPT !.present = who]
      BY <1>1
    <2> HIDE DEF who
    <2> QED
      BY <1>0, <1>1, <2>1, LeavesKeep
  <1>2. CASE LeaveRoom(p)
    <2>1. CallOK' /\ Moves(p, "idle")
      BY <1>0, <1>2, DoneMoves DEF LeaveRoom
    <2>2. RoomOK' /\ Keeps
      BY <1>0, <1>1, <1>2 DEF LeaveRoom, TypeOK, RoomOK, Keeps
    <2>3. TypeOK'
      BY <1>0, <1>2, <2>1, <2>2, Typed DEF LeaveRoom, TypeOK
    <2>4. Safe'
      BY <1>0, <1>2, <2>1, <2>2, GatedStep DEF LeaveRoom
    <2> QED
      BY <2>3, <2>4 DEF IInv
  <1>3. CASE QuitRow(p)
    <2>1. PICK next \in {"idle", "quit"} : CallOK' /\ Moves(p, next)
      BY <1>0, <1>3, DoneMoves, ReleaseMoves DEF QuitRow, Step, Gated, Held
    <2>2. guest' \in [User -> Source]
      BY <1>0, <1>3 DEF QuitRow, TypeOK, Source
    <2>3. TypeOK'
      BY <1>0, <1>3, <2>1, <2>2, Typed DEF QuitRow, TypeOK, RoomOK
    <2>4. ~Holds(p) /\ next \in Step \ Held
      BY <1>3 DEF QuitRow, Step, Gated, Holds, Held
    <2>5. Safe'
      BY <1>3, <2>1, <2>4, QuietStep DEF QuitRow
    <2> QED
      BY <2>3, <2>5 DEF IInv
  <1>4. CASE QuitRoom(p)
    <2>1. CallOK' /\ Moves(p, "idle")
      BY <1>0, <1>4, DoneMoves DEF QuitRoom
    <2>2. CASE room = NoRoom
      <3>1. EnsureHeld
        BY <1>4, <2>2 DEF QuitRoom
      <3>2. RoomOK' /\ gate' \in Gate \cup {NoGate}
        BY <1>0, <3>1, EnsureTyped
      <3>3. TypeOK'
        BY <1>0, <1>4, <2>1, <3>2, Typed DEF QuitRoom, TypeOK
      <3>4. Safe'
        BY <1>0, <1>4, <2>1, <3>1, EnsureStep DEF QuitRoom
      <3> QED
        BY <3>3, <3>4 DEF IInv
    <2>3. CASE room # NoRoom
      <3>1. RoomOK' /\ Keeps /\ gate' = gate
        BY <1>1, <1>4, <2>3 DEF QuitRoom
      <3>2. TypeOK'
        BY <1>0, <1>4, <2>1, <3>1, Typed DEF QuitRoom, TypeOK
      <3>3. Safe'
        BY <1>0, <1>4, <2>1, <3>1, GatedStep DEF QuitRoom
      <3> QED
        BY <3>2, <3>3 DEF IInv
    <2> QED
      BY <2>2, <2>3
  <1> QED
    BY <1>2, <1>3, <1>4 DEF LeaveSteps

LEMMA StartStep ==
    ASSUME IInv, NEW p \in Proc, StartRow(p) \/ StartRoom(p)
    PROVE  IInv'
  <1>0. TypeOK /\ "start" \in Gated /\ "idle" \in Step \ Held
        /\ "startRoom" \in Step
    BY DEF IInv, Step, Gated, Held
  <1>1. CASE StartRow(p) /\ row.status # "scheduled"
    <2>1. CallOK' /\ Moves(p, "idle")
      BY <1>0, <1>1, DoneMoves DEF StartRow
    <2>2. TypeOK'
      BY <1>0, <1>1, <2>1, Typed DEF StartRow, TypeOK, RoomOK
    <2>3. Safe'
      BY <1>0, <1>1, <2>1, GatedStep DEF StartRow, Keeps
    <2> QED
      BY <2>2, <2>3 DEF IInv
  <1>2. CASE StartRow(p) /\ row.status = "scheduled"
    <2>1. EnsureHeld /\ RoomOK' /\ gate' \in Gate \cup {NoGate}
      BY <1>0, <1>2, EnsureTyped DEF StartRow
    <2>2. CASE Done(p) /\ row' = row
      <3>1. CallOK' /\ Moves(p, "idle")
        BY <1>0, <2>2, DoneMoves
      <3>2. TypeOK'
        BY <1>0, <1>2, <2>1, <2>2, <3>1, Typed DEF StartRow, TypeOK
      <3>3. Safe'
        BY <1>0, <1>2, <2>1, <2>2, <3>1, EnsureStep DEF StartRow
      <3> QED
        BY <3>2, <3>3 DEF IInv
    <2>3. CASE row' = [row EXCEPT !.status = "live"] /\ Keep(p, "startRoom")
      <3>1. CallOK'
        BY <1>0, <1>2, <2>3, KeepMoves DEF StartRow, Enters
      <3>2. row' \in Row
        BY <1>0, <2>3 DEF TypeOK, Row, Status
      <3>3. TypeOK'
        BY <1>0, <1>2, <2>1, <3>1, <3>2, Typed DEF StartRow, TypeOK
      <3>4. Safe'
        BY <1>2, <2>1, <2>3, GoesLiveStep DEF StartRow
      <3> QED
        BY <3>3, <3>4 DEF IInv
    <2> QED
      BY <1>2, <2>2, <2>3 DEF StartRow
  <1>3. CASE StartRoom(p)
    <2>1. CallOK'
      BY <1>0, <1>3, DoneMoves DEF StartRoom
    <2>2. RoomOK'
      <3>1. CASE room = NoRoom
        BY <1>0, <1>3, <3>1 DEF StartRoom, TypeOK, RoomOK
      <3>2. CASE room # NoRoom
        <4>1. room \in Room
          BY <1>0, <3>2 DEF TypeOK
        <4>2. room' \in Room /\ ~room'.idle
          BY <1>3, <3>2, <4>1 DEF StartRoom, Room
        <4> QED
          BY <4>2 DEF RoomOK
      <3> QED
        BY <3>1, <3>2
    <2>3. TypeOK'
      BY <1>0, <1>3, <2>1, <2>2, Typed DEF StartRoom, TypeOK
    <2>4. Safe'
      BY <1>3, StartRoomStep
    <2> QED
      BY <2>3, <2>4 DEF IInv
  <1> QED
    BY <1>1, <1>2, <1>3

(* `end_held`, whoever calls it. *)
LEMMA SetEndedStep ==
    ASSUME IInv, NEW p \in Proc, NEW step \in Gated, Enters(p, step),
           SetEnded(p), p = Task => Present = {},
           UNCHANGED <<guest, room, gate, overdue, faulted>>
    PROVE  IInv'
  <1>0. TypeOK /\ "idle" \in Step \ Held /\ "endRoom" \in Step
    BY DEF IInv, Step, Gated, Held
  <1>1. CASE row.status = "ended"
    <2>1. Done(p) /\ row' = row
      BY <1>1 DEF SetEnded
    <2>2. CallOK' /\ Moves(p, "idle")
      BY <1>0, <2>1, DoneMoves
    <2>3. TypeOK'
      BY <1>0, <2>1, <2>2, Typed DEF TypeOK, RoomOK
    <2>4. Safe'
      BY <1>0, <2>1, <2>2, GatedStep DEF Keeps
    <2> QED
      BY <2>3, <2>4 DEF IInv
  <1>2. CASE row.status # "ended"
    <2>1. row' = [row EXCEPT !.status = "ended"] /\ Keep(p, "endRoom")
      BY <1>2 DEF SetEnded
    <2>2. CallOK'
      BY <1>0, <2>1, KeepMoves DEF Enters
    <2>3. row' \in Row
      BY <1>0, <2>1 DEF TypeOK, Row, Status
    <2>4. TypeOK'
      BY <1>0, <2>2, <2>3, Typed DEF TypeOK, RoomOK
    <2>5. Safe'
      BY <1>2, <2>1, EndsStep
    <2> QED
      BY <2>4, <2>5 DEF IInv
  <1> QED
    BY <1>1, <1>2

LEMMA KickStep ==
    ASSUME IInv, NEW p \in Proc,
           KickRow(p) \/ KickRoom(p) \/ Regenerate(p) \/ RevokeRoom(p)
    PROVE  IInv'
  <1>0. TypeOK /\ {"kick", "patch"} \subseteq Gated /\ "idle" \in Step \ Held
        /\ {"kickRoom", "revokeRoom"} \subseteq Step \cap Held
    BY DEF IInv, Step, Gated, Held
  (* A writer of the guests goes on under the gate, or changes nothing. *)
  <1>1. ASSUME NEW step \in Gated, Enters(p, step),
               NEW next \in {"kickRoom", "revokeRoom"},
               CallOK', Moves(p, next), guest' \in [User -> Source],
               UNCHANGED <<row, room, gate, overdue, faulted>>
        PROVE  IInv'
    <2>1. TypeOK'
      BY <1>0, <1>1, Typed DEF TypeOK, RoomOK
    <2>2. Safe'
      BY <1>1, TakesStep
    <2> QED
      BY <2>1, <2>2 DEF IInv
  <1>2. ASSUME NEW step \in Gated, Enters(p, step), Done(p),
               UNCHANGED <<row, guest, room, gate, overdue, faulted>>
        PROVE  IInv'
    <2>1. CallOK' /\ Moves(p, "idle")
      BY <1>0, <1>2, DoneMoves
    <2>2. TypeOK'
      BY <1>0, <1>2, <2>1, Typed DEF TypeOK, RoomOK
    <2>3. Safe'
      BY <1>0, <1>2, <2>1, GatedStep DEF Keeps
    <2> QED
      BY <2>2, <2>3 DEF IInv
  (* ... and the machine then drops those members. *)
  <1>3. ASSUME call[p].at \in {"kickRoom", "revokeRoom"}, Done(p),
               NEW gone, room' = Kicked(room, gone),
               UNCHANGED <<row, guest, gate, overdue, faulted>>
        PROVE  IInv'
    <2>1. CallOK' /\ Moves(p, "idle")
      BY <1>0, <1>3, DoneMoves
    <2>2. RoomOK' /\ Keeps /\ Present' \subseteq Present
      BY <1>0, <1>3, KickedKeeps
    <2>3. TypeOK'
      BY <1>0, <1>3, <2>1, <2>2, Typed DEF TypeOK
    <2>4. Safe'
      BY <1>3, <2>1, <2>2, DropsStep
    <2> QED
      BY <2>3, <2>4 DEF IInv
  <1>4. CASE KickRow(p)
    <2>1. CASE UNCHANGED guest /\ Done(p)
      BY <1>0, <1>2, <1>4, <2>1 DEF KickRow
    <2>2. CASE /\ guest' = [guest EXCEPT ![call[p].who] = "kicked"]
               /\ Keep(p, "kickRoom")
      <3>1. CallOK' /\ Moves(p, "kickRoom")
        BY <1>0, <1>4, <2>2, KeepMoves DEF KickRow, Enters
      <3>2. guest' \in [User -> Source]
        BY <1>0, <2>2 DEF TypeOK, Source
      <3> QED
        BY <1>0, <1>1, <1>4, <3>1, <3>2 DEF KickRow
    <2> QED
      BY <1>4, <2>1, <2>2 DEF KickRow
  <1>5. CASE KickRoom(p)
    BY <1>3, <1>5 DEF KickRoom
  <1>6. CASE Regenerate(p)
    <2> DEFINE gone == {u \in User : guest[u] = "joined" /\ u # HostOf(row)}
    <2>1. CASE UNCHANGED guest /\ Done(p)
      BY <1>0, <1>2, <1>6, <2>1 DEF Regenerate
    <2>2. CASE /\ guest' = [u \in User |->
                     IF u \in gone \/ guest[u] = "kicked" THEN "none"
                                                          ELSE guest[u]]
               /\ call' = [call EXCEPT ![p].at = "revokeRoom", ![p].gone = gone]
      <3> DEFINE c == [call[p] EXCEPT !.at = "revokeRoom", !.gone = gone]
      <3>1. gone \in SUBSET User /\ call[p].gate # NoGate
        BY <1>6 DEF Regenerate, Enters
      <3> HIDE DEF gone
      <3>2. c \in Call /\ c.at = "revokeRoom" /\ c.gate = call[p].gate
        BY <1>0, <3>1 DEF TypeOK, Call
      <3>3. call' = [call EXCEPT ![p] = c]
        BY <2>2
      <3> HIDE DEF c
      <3>4. CallOK' /\ Moves(p, "revokeRoom")
        BY <1>0, <3>1, <3>2, <3>3 DEF TypeOK, CallOK, Moves, Holds
      <3>5. guest' \in [User -> Source]
        BY <1>0, <2>2 DEF TypeOK, Source
      <3> QED
        BY <1>0, <1>1, <1>6, <3>4, <3>5 DEF Regenerate
    <2> QED
      BY <1>6, <2>1, <2>2 DEF Regenerate
  <1>7. CASE RevokeRoom(p)
    BY <1>3, <1>7 DEF RevokeRoom
  <1> QED
    BY <1>4, <1>5, <1>6, <1>7

LEMMA TransferStep ==
    ASSUME IInv, NEW p \in Proc, TransferRoom(p) \/ TransferRow(p)
    PROVE  IInv'
  <1>0. TypeOK /\ "transfer" \in Gated /\ "idle" \in Step \ Held
        /\ "transferRow" \in Step
    BY DEF IInv, Step, Gated, Held
  <1>1. CASE TransferRoom(p) /\ Done(p) /\ room' = room
    <2>1. CallOK' /\ Moves(p, "idle")
      BY <1>0, <1>1, DoneMoves
    <2>2. TypeOK'
      BY <1>0, <1>1, <2>1, Typed DEF TransferRoom, TypeOK, RoomOK
    <2>3. Safe'
      BY <1>0, <1>1, <2>1, GatedStep DEF TransferRoom, Keeps
    <2> QED
      BY <2>2, <2>3 DEF IInv
  <1>2. CASE /\ TransferRoom(p) /\ Keep(p, "transferRow")
             /\ room # NoRoom /\ room.started
             /\ room' = [room EXCEPT !.host = call[p].who]
    <2>1. CallOK'
      BY <1>0, <1>2, KeepMoves DEF TransferRoom, Enters
    <2>2. RoomOK'
      <3>1. room \in Room /\ call[p].who \in User
        BY <1>0, <1>2 DEF TypeOK, Call
      <3>2. /\ room' \in Room /\ room'.idle = room.idle
            /\ room'.present = room.present
        BY <1>2, <3>1 DEF Room
      <3> QED
        BY <1>0, <1>2, <3>2 DEF TypeOK, RoomOK
    <2>3. TypeOK'
      BY <1>0, <1>2, <2>1, <2>2, Typed DEF TransferRoom, TypeOK
    <2>4. Safe'
      BY <1>2, TransferRoomStep DEF TransferRoom
    <2> QED
      BY <2>3, <2>4 DEF IInv
  <1>3. CASE TransferRow(p)
    <2>1. CallOK'
      BY <1>0, <1>3, DoneMoves DEF TransferRow
    <2>2. row' \in Row
      BY <1>0, <1>3 DEF TransferRow, TypeOK, Row, Call
    <2>3. TypeOK'
      BY <1>0, <1>3, <2>1, <2>2, Typed DEF TransferRow, TypeOK, RoomOK
    <2>4. Safe'
      BY <1>3, TransferRowStep
    <2> QED
      BY <2>3, <2>4 DEF IInv
  <1> QED
    BY <1>1, <1>2, <1>3 DEF TransferRoom

LEMMA InviteStep ==
    ASSUME IInv, NEW p \in Proc,
           InviteRow(p) \/ InviteNote(p) \/ Reschedule(p)
    PROVE  IInv'
  <1>0. TypeOK /\ {"note", "patch"} \subseteq Gated /\ "idle" \in Step \ Held
    BY DEF IInv, Step, Gated, Held
  <1>1. CASE InviteRow(p)
    <2>1. PICK next \in {"idle", "note"} : CallOK' /\ Moves(p, next)
      BY <1>0, <1>1, DoneMoves, ReleaseMoves DEF InviteRow, Step, Gated, Held
    <2>2. guest' \in [User -> Source]
      BY <1>0, <1>1 DEF InviteRow, TypeOK, Source
    <2>3. TypeOK'
      BY <1>0, <1>1, <2>1, <2>2, Typed DEF InviteRow, TypeOK, RoomOK
    <2>4. ~Holds(p) /\ next \in Step \ Held
      BY <1>1 DEF InviteRow, Step, Gated, Holds, Held
    <2>5. Safe'
      BY <1>1, <2>1, <2>4, QuietStep DEF InviteRow
    <2> QED
      BY <2>3, <2>5 DEF IInv
  <1>2. CASE InviteNote(p) \/ Reschedule(p)
    <2>1. CallOK' /\ Moves(p, "idle")
      BY <1>0, <1>2, DoneMoves DEF InviteNote, Reschedule
    <2>2. RoomOK' /\ gate' \in Gate \cup {NoGate}
      BY <1>0, <1>2, EnsureTyped DEF InviteNote, Reschedule
    <2>3. TypeOK'
      BY <1>0, <1>2, <2>1, <2>2, Typed DEF InviteNote, Reschedule, TypeOK
    <2>4. Safe'
      BY <1>0, <1>2, <2>1, EnsureStep DEF InviteNote, Reschedule
    <2> QED
      BY <2>3, <2>4 DEF IInv
  <1> QED
    BY <1>1, <1>2

LEMMA TaskStep ==
    ASSUME IInv, Tick \/ Sweep \/ TaskProceeds
    PROVE  IInv'
  <1>0. TypeOK /\ {"tick", "expire", "sweep"} \subseteq Gated /\ Task \in Proc
        /\ "idle" \in Step \ Held /\ "expire" \in Step \ Held
    BY DEF IInv, Step, Gated, Held, Proc
  <1>1. ASSUME NEW step \in {"tick", "sweep"}, Begin(Task, step, Owner)
        PROVE  IInv'
    <2> DEFINE c == [Idle EXCEPT !.at = step, !.who = Owner]
    <2>1. step \in Step \ Held /\ Owner \in User
      BY RegistryAssumption DEF Step, Gated, Held
    <2>2. Idle \in Call /\ Idle.gate = NoGate
      BY RegistryAssumption DEF Idle, Call, Step, NoRow, Row, Status
    <2>3. c \in Call /\ c.at = step /\ c.gate = NoGate
      BY <2>1, <2>2 DEF Call
    <2>4. NewCall(Task, c)
      BY <1>1 DEF Begin
    <2> HIDE DEF c
    <2> QED
      BY <1>0, <2>1, <2>3, <2>4, BeginsStep
  <1>2. CASE TickRoom
    <2>1. PICK next \in {"idle", "expire"} : CallOK' /\ Moves(Task, next)
      BY <1>0, <1>2, DoneMoves, ReleaseMoves DEF TickRoom
    <2>2. RoomOK' /\ Keeps
      <3>1. CASE room = NoRoom
        BY <1>0, <1>2, <3>1 DEF TickRoom, TypeOK, RoomOK, Keeps
      <3>2. CASE room # NoRoom
        <4>1. PICK lost \in SUBSET room.present :
                room' = [room EXCEPT !.present = @ \ lost]
          BY <1>2, <3>2 DEF TickRoom
        <4> DEFINE who == room.present \ lost
        <4>2. who \in SUBSET room.present /\ room' = [room EXCEPT !.present = who]
          BY <4>1
        <4> HIDE DEF who
        <4> QED
          BY <1>0, <3>2, <4>2, LeavesKeep
      <3> QED
        BY <3>1, <3>2
    <2>3. TypeOK'
      BY <1>0, <1>2, <2>1, <2>2, Typed DEF TickRoom, TypeOK
    <2>4. Safe'
      BY <1>0, <1>2, <2>1, <2>2, GatedStep DEF TickRoom
    <2> QED
      BY <2>3, <2>4 DEF IInv
  <1>3. CASE Expire
    <2>1. CASE room = NoRoom \/ ~room.idle
      <3>1. CallOK' /\ Moves(Task, "idle")
        BY <1>0, <1>3, <2>1, DoneMoves DEF Expire
      <3>2. TypeOK'
        BY <1>0, <1>3, <2>1, <3>1, Typed DEF Expire, TypeOK, RoomOK
      <3>3. Safe'
        BY <1>0, <1>3, <2>1, <3>1, GatedStep DEF Expire, Keeps
      <3> QED
        BY <3>2, <3>3 DEF IInv
    <2>2. CASE room # NoRoom /\ room.idle /\ row.status = "live"
      <3>1. Present = {}
        BY <1>0, <2>2 DEF TypeOK, Present
      <3> QED
        BY <1>0, <1>3, <2>2, <3>1, SetEndedStep DEF Expire
    <2>3. CASE room # NoRoom /\ room.idle /\ row.status # "live"
      <3>1. Done(Task) /\ room' = NoRoom /\ Enters(Task, "expire")
            /\ UNCHANGED <<row, guest, gate, overdue, faulted>>
        BY <1>3, <2>3 DEF Expire
      <3>2. CallOK'
        BY <1>0, <3>1, DoneMoves
      <3>3. TypeOK'
        BY <1>0, <3>1, <3>2, Typed DEF TypeOK, RoomOK
      <3>4. Safe'
        BY <2>3, <3>1, FreesStep
      <3> QED
        BY <3>3, <3>4 DEF IInv
    <2> QED
      BY <2>1, <2>2, <2>3
  <1>4. CASE SweepRow
    <2>1. CASE row.status = "scheduled" /\ ScheduleExpired
      BY <1>0, <1>4, <2>1, SetEndedStep DEF SweepRow, ScheduleExpired
    <2>2. CASE ~(row.status = "scheduled" /\ ScheduleExpired)
      <3>1. CallOK' /\ Moves(Task, "idle")
        BY <1>0, <1>4, <2>2, DoneMoves DEF SweepRow
      <3>2. TypeOK'
        BY <1>0, <1>4, <2>2, <3>1, Typed DEF SweepRow, TypeOK, RoomOK
      <3>3. Safe'
        BY <1>0, <1>4, <2>2, <3>1, GatedStep DEF SweepRow, Keeps
      <3> QED
        BY <3>2, <3>3 DEF IInv
    <2> QED
      BY <2>1, <2>2
  <1> QED
    BY <1>1, <1>2, <1>3, <1>4 DEF Tick, Sweep, TaskProceeds

LEMMA SharedStep ==
    ASSUME IInv, NEW p \in Proc, Ask(p) \/ EndRoom(p) \/ Fault(p)
    PROVE  IInv'
  <1>0. TypeOK
    BY DEF IInv
  <1>1. CASE Ask(p)
    <2>1. PICK g \in Gate : gate' = g /\ call' = [call EXCEPT ![p].gate = g]
      BY <1>1 DEF Ask
    <2> DEFINE c == [call[p] EXCEPT !.gate = g]
    <2>2. c \in Call /\ c.at = call[p].at /\ c.gate = g
      BY <1>0 DEF TypeOK, Call
    <2>3. call' = [call EXCEPT ![p] = c]
      BY <2>1
    <2> HIDE DEF c
    <2>4. CallOK'
      BY <1>0, <2>2, <2>3, RegistryAssumption DEF TypeOK, CallOK, Holds
    <2>5. TypeOK'
      BY <1>0, <1>1, <2>1, <2>4, Typed DEF Ask, TypeOK, RoomOK
    <2> QED
      BY <1>1, <2>5, AskStep DEF IInv
  <1>2. CASE EndRoom(p)
    <2>1. CallOK'
      BY <1>0, <1>2, DoneMoves DEF EndRoom
    <2>2. TypeOK'
      BY <1>0, <1>2, <2>1, Typed DEF EndRoom, Forget, TypeOK, RoomOK
    <2> QED
      BY <1>2, <2>2, EndRoomStep DEF IInv
  <1>3. CASE Fault(p)
    <2>1. CallOK'
      BY <1>0, <1>3, DoneMoves DEF Fault
    <2>2. TypeOK'
      <3>1. faulted' \in BOOLEAN
        BY <1>3 DEF Fault
      <3> QED
        BY <1>0, <1>3, <2>1, <3>1, Typed DEF Fault, TypeOK, RoomOK
    <2> QED
      BY <1>3, <2>2, FaultStep DEF IInv
  <1> QED
    BY <1>1, <1>2, <1>3

LEMMA ServerStep ==
    ASSUME IInv, RoomIdles \/ DatePasses \/ Restart \/ UNCHANGED vars
    PROVE  IInv'
  <1>0. TypeOK
    BY DEF IInv
  <1>1. CASE RoomIdles
    <2>1. room \in Room /\ room.present = {} /\ room' = [room EXCEPT !.idle = TRUE]
      BY <1>0, <1>1 DEF RoomIdles, TypeOK
    <2>2. room' \in Room /\ room'.present = {}
      BY <2>1 DEF Room
    <2>3. TypeOK'
      BY <1>0, <1>1, <2>2 DEF RoomIdles, TypeOK, Holds
    <2> QED
      BY <1>1, <2>3, TimePassesStep DEF IInv
  <1>2. CASE DatePasses \/ UNCHANGED vars
    <2>1. TypeOK'
      BY <1>0, <1>2 DEF DatePasses, vars, TypeOK, Holds
    <2> QED
      BY <1>2, <2>1, TimePassesStep DEF IInv
  <1>3. CASE Restart
    <2>1. Idle \in Call
      BY RegistryAssumption DEF Idle, Call, Step, NoRow, Row, Status
    <2>2. CallOK'
      BY <1>3, <2>1 DEF Restart, CallOK, Holds, Held, Idle
    <2>3. Opened \in Room /\ Opened.present = {}
      BY <1>0, RegistryAssumption DEF TypeOK, Opened, Room, Row, RowHost
    <2>4. RoomOK'
      BY <1>3, <2>3 DEF Restart, RoomOK
    <2>5. TypeOK'
      BY <1>0, <1>3, <2>2, <2>4, Typed DEF Restart, TypeOK
    <2> QED
      BY <1>3, <2>5, RestartStep DEF IInv
  <1> QED
    BY <1>1, <1>2, <1>3

-----------------------------------------------------------------------------
(* The theorems.                                                            *)

LEMMA Initially == Init => IInv
  <1> SUFFICES ASSUME Init PROVE IInv
    OBVIOUS
  <1>1. Idle \in Call /\ NoRow \in Row /\ Idle.at = "idle"
    BY RegistryAssumption DEF Idle, Call, Step, NoRow, Row, Status
  <1>2. TypeOK
    BY <1>1 DEF Init, TypeOK, Source, Holds, Held
  <1>3. \A p \in Proc : ~Holds(p) /\ call[p].at = "idle" /\ call[p].gate = NoGate
    BY <1>1 DEF Init, Holds, Held, Idle
  <1>4. OneHolder /\ GateKept /\ StartCounts /\ EndCounts /\ TransferCounts
    BY <1>3 DEF OneHolder, GateKept, StartCounts, EndCounts, TransferCounts, At
  <1>5. /\ ClosedUnlessEnding /\ LobbyUntilLive /\ StartedWhenLive /\ HostKept
        /\ NobodyIsIn /\ StartsOnce
    BY DEF Init, ClosedUnlessEnding, LobbyUntilLive, StartedWhenLive, HostKept,
           NobodyIsIn, StartsOnce, Present
  <1> QED
    BY <1>2, <1>4, <1>5 DEF IInv, Safe

(* The inductive invariant holds in every reachable state, with faults and *)
(* restarts at any point of any handler.                                   *)
THEOREM Invariance == Spec => []IInv
  <1>1. IInv /\ [Next]_vars => IInv'
    <2> SUFFICES ASSUME IInv, [Next]_vars PROVE IInv'
      OBVIOUS
    <2>1. ASSUME NEW p \in Request, NEW u \in User, RequestBegins(p, u)
          PROVE  IInv'
      BY <2>1, RequestBeginsStep DEF Proc
    <2>2. ASSUME NEW p \in Request, Proceeds(p)
          PROVE  IInv'
      <3>1. p \in Proc /\ "end" \in Gated /\ p # Task
        BY RegistryAssumption DEF Proc, Gated
      <3>2. CASE JoinSteps(p)
        BY <3>1, <3>2, JoinStepsStep
      <3>3. CASE LeaveSteps(p)
        BY <3>1, <3>3, LeaveStepsStep
      <3>4. CASE EndRow(p)
        BY <3>1, <3>4, SetEndedStep DEF EndRow
      <3>5. CASE HostSteps(p) /\ ~EndRow(p)
        BY <3>1, <3>5, StartStep, KickStep, TransferStep, InviteStep
           DEF HostSteps
      <3> QED
        BY <2>2, <3>2, <3>3, <3>4, <3>5 DEF Proceeds
    <2>3. CASE Tick \/ Sweep \/ TaskProceeds
      BY <2>3, TaskStep
    <2>4. ASSUME NEW p \in Proc, Ask(p) \/ EndRoom(p) \/ Fault(p)
          PROVE  IInv'
      BY <2>4, SharedStep
    <2>5. CASE RoomIdles \/ DatePasses \/ Restart \/ UNCHANGED vars
      BY <2>5, ServerStep
    <2> QED
      BY <2>1, <2>2, <2>3, <2>4, <2>5 DEF Next
  <1> QED
    BY <1>1, Initially, PTL DEF Spec

(* The task that is ending the party holds its gate: until it is done the   *)
(* machine, the date and the row are nobody else's.                        *)
LEMMA EndingAlone ==
    ASSUME IInv, call[Task].at = "endRoom"
    PROVE  /\ row.status = "ended"
           /\ \A q \in Proc : q # Task => ~Holds(q)
           /\ \A q \in Proc : \A step : ~Enters(q, step)
  <1>1. Task \in Proc /\ Holds(Task)
    BY DEF Proc, Holds, Held
  <1>2. At("endRoom") /\ Open
    BY <1>1 DEF At, Open
  <1>3. row.status = "ended"
    BY <1>2 DEF IInv, Safe, EndCounts
  <1>4. \A q \in Proc : q # Task => ~Holds(q)
    BY <1>1, <1>2, HolderAlone DEF IInv, Safe
  <1>5. ASSUME NEW q \in Proc, NEW step, Enters(q, step) PROVE FALSE
    <2>1. call[q].gate = gate
      BY <1>2, <1>5 DEF IInv, Safe, GateKept, Enters
    <2>2. call[Task].gate = gate
      BY <1>1, <1>2 DEF IInv, Safe, GateKept, TypeOK
    <2> QED
      BY <1>1, <1>5, <2>1, <2>2 DEF Enters
  <1> QED
    BY <1>3, <1>4, <1>5

LEMMA TaskWaits ==
    ASSUME TypeOK, NEW p \in Request,
           Proceeds(p) \/ \E u \in User : RequestBegins(p, u)
    PROVE  call'[Task] = call[Task]
  <1>1. p \in Proc /\ Task \in Proc /\ p # Task /\ call \in [Proc -> Call]
    BY RegistryAssumption DEF Proc, TypeOK
  <1>2. ASSUME NEW c, call' = [call EXCEPT ![p] = c] PROVE call'[Task] = call[Task]
    BY <1>1, <1>2
  <1>3. Done(p) => call'[Task] = call[Task]
    BY <1>2 DEF Done
  <1>4. \A step : /\ Release(p, step) => call'[Task] = call[Task]
                  /\ Keep(p, step) => call'[Task] = call[Task]
    BY <1>1 DEF Release, Keep
  <1>5. \A c : NewCall(p, c) => call'[Task] = call[Task]
    BY <1>2 DEF NewCall
  <1>6. CASE JoinSteps(p)
    BY <1>3, <1>4, <1>6 DEF JoinSteps, Ensure, JoinCheck, JoinAdmit, JoinEnter
  <1>7. CASE LeaveSteps(p)
    BY <1>3, <1>4, <1>7 DEF LeaveSteps, LeaveRoom, QuitRow, QuitRoom
  <1>8. CASE HostSteps(p)
    <2>1. CASE StartRow(p) \/ StartRoom(p) \/ EndRow(p)
      BY <1>3, <1>4, <2>1 DEF StartRow, StartRoom, EndRow, SetEnded
    <2>2. CASE KickRow(p) \/ KickRoom(p) \/ TransferRoom(p) \/ TransferRow(p)
      BY <1>3, <1>4, <2>2 DEF KickRow, KickRoom, TransferRoom, TransferRow
    <2>3. CASE InviteRow(p) \/ InviteNote(p) \/ Reschedule(p) \/ RevokeRoom(p)
      BY <1>3, <1>4, <2>3 DEF InviteRow, InviteNote, Reschedule, RevokeRoom
    <2>4. CASE Regenerate(p)
      BY <1>1, <1>3, <2>4 DEF Regenerate
    <2> QED
      BY <1>8, <2>1, <2>2, <2>3, <2>4 DEF HostSteps
  <1>9. ASSUME NEW u \in User, RequestBegins(p, u) PROVE call'[Task] = call[Task]
    BY <1>5, <1>9 DEF RequestBegins, Join, Leave, Quit, Start, End, Patch, Kick,
                      Transfer, Invite, Begin
  <1> QED
    BY <1>6, <1>7, <1>8, <1>9 DEF Proceeds

(* The task comes to end a party by the expiry, which finds a live row and  *)
(* so a started machine, or by the sweep, which judges the date again.     *)
LEMMA DateStep == IInv /\ DateIsOver /\ [Next]_vars => DateIsOver'
  <1> SUFFICES ASSUME IInv, DateIsOver, [Next]_vars,
                      call'[Task].at = "endRoom", ~faulted', ~overdue',
                      room' = NoRoom \/ ~room'.started
               PROVE  FALSE
    BY DEF DateIsOver
  <1>0. Task \in Proc /\ TypeOK /\ call \in [Proc -> Call]
    BY DEF Proc, IInv, TypeOK
  <1>1. CASE call[Task].at = "endRoom"
    <2>1. /\ row.status = "ended"
          /\ \A q \in Proc : q # Task => ~Holds(q)
          /\ \A q \in Proc : \A step : ~Enters(q, step)
      BY <1>1, EndingAlone
    <2>2. ~(UNCHANGED <<room, overdue, faulted>>)
      BY <1>1 DEF DateIsOver
    <2>3. ASSUME NEW p \in Request, Proceeds(p) PROVE FALSE
      <3>1. p \in Proc /\ ~Holds(p)
        BY <2>1, RegistryAssumption DEF Proc
      <3>2. ~JoinSteps(p)
        BY <2>1, <2>2, <3>1 DEF JoinSteps, Ensure, JoinCheck, JoinAdmit, JoinEnter
      <3>3. ~LeaveSteps(p)
        BY <2>1, <2>2, <3>1 DEF LeaveSteps, LeaveRoom, QuitRow, QuitRoom
      <3>4. ~HostSteps(p)
        BY <2>1, <2>2, <3>1
           DEF HostSteps, StartRow, StartRoom, EndRow, KickRow, KickRoom,
               TransferRoom, TransferRow, InviteRow, InviteNote, Reschedule,
               Regenerate, RevokeRoom, Holds, Held
      <3> QED
        BY <2>3, <3>2, <3>3, <3>4 DEF Proceeds
    <2>4. ASSUME NEW p \in Request, NEW u \in User, RequestBegins(p, u)
          PROVE  FALSE
      BY <2>1, <2>4 DEF RequestBegins, Join, Leave, Quit, Start, End, Patch, Kick,
                        Transfer, Invite, Begin, NewCall
    <2>5. CASE Tick \/ Sweep \/ TaskProceeds
      BY <1>0, <2>1, <2>5 DEF Tick, Sweep, Begin, NewCall, TaskProceeds, TickRoom,
                              Expire, SweepRow
    <2>6. ASSUME NEW p \in Proc, Ask(p) PROVE FALSE
      BY <2>2, <2>6 DEF Ask
    <2>7. ASSUME NEW p \in Proc, EndRoom(p) PROVE FALSE
      <3>1. p = Task
        BY <2>1, <2>7 DEF EndRoom, Holds, Held
      <3> QED
        BY <1>0, <2>7, <3>1 DEF EndRoom, Done, Idle
    <2>8. ASSUME NEW p \in Proc, Fault(p) PROVE FALSE
      BY <1>1, <2>8 DEF Fault, DateIsOver
    <2>9. CASE RoomIdles
      <3>1. room \in Room
        BY <1>0, <2>9 DEF RoomIdles, TypeOK
      <3>2. room'.started = room.started
        BY <2>9, <3>1 DEF RoomIdles, Room
      <3>3. room' # NoRoom
        <4>1. room' \in Room
          BY <2>9, <3>1 DEF RoomIdles, Room
        <4> QED
          BY <4>1, RoomAssumption
      <3> QED
        BY <1>1, <2>9, <3>2, <3>3 DEF RoomIdles, DateIsOver
    <2>10. CASE DatePasses
      BY <2>10 DEF DatePasses
    <2>11. CASE Restart
      BY <1>0, <2>11 DEF Restart, Idle
    <2>12. CASE UNCHANGED vars
      BY <2>2, <2>12 DEF vars
    <2> QED
      BY <2>3, <2>4, <2>5, <2>6, <2>7, <2>8, <2>9, <2>10, <2>11, <2>12 DEF Next
  <1>2. CASE call[Task].at # "endRoom"
    <2>1. call'[Task] # call[Task]
      BY <1>2
    <2>2. CASE Expire
      <3>1. Enters(Task, "expire") /\ row.status = "live" /\ room # NoRoom
            /\ UNCHANGED <<room, overdue, faulted>>
        BY <1>0, <2>2 DEF Expire, SetEnded, Done, Idle
      <3>2. \A q \in Proc : ~Holds(q)
        BY <1>0, <3>1, EntersAlone DEF IInv, Safe, Open
      <3>3. ~At("startRoom")
        BY <3>2 DEF At, Holds, Held
      <3> QED
        BY <3>1, <3>3 DEF IInv, Safe, StartedWhenLive
    <2>3. CASE SweepRow
      BY <1>0, <2>3 DEF SweepRow, SetEnded, Done, Idle, ScheduleExpired
    <2>4. CASE TickRoom
      BY <1>0, <2>4 DEF TickRoom, Release, Done, Idle, TypeOK, Call
    <2>5. CASE Tick \/ Sweep
      BY <1>0, <2>5 DEF Tick, Sweep, Begin, NewCall, Idle
    <2>6. ASSUME NEW p \in Proc, Ask(p) \/ EndRoom(p) \/ Fault(p) PROVE FALSE
      <3>1. CASE p # Task
        BY <1>0, <2>1, <2>6, <3>1 DEF Ask, EndRoom, Fault, Done
      <3>2. CASE p = Task
        BY <1>0, <1>2, <2>6, <3>2 DEF Ask, EndRoom, Fault, Done, Idle, TypeOK, Call
      <3> QED
        BY <3>1, <3>2
    <2>7. CASE RoomIdles \/ DatePasses \/ UNCHANGED vars
      BY <2>1, <2>7 DEF RoomIdles, DatePasses, vars
    <2>8. CASE Restart
      BY <1>0, <2>8 DEF Restart, Idle
    <2> QED
      BY <1>0, <2>1, <2>2, <2>3, <2>4, <2>5, <2>6, <2>7, <2>8, TaskWaits
         DEF Next, TaskProceeds
  <1> QED
    BY <1>1, <1>2

(* Every variable keeps its type, and no handler writes without a mutex. *)
THEOREM TypeCorrect == Spec => []TypeOK
  <1>1. IInv => TypeOK
    BY DEF IInv
  <1> QED
    BY <1>1, Invariance, PTL

(* The gate excludes: two handlers never write an open party at once,      *)
(* however often its mutex was dropped and made again.                     *)
THEOREM GateIsExclusive == Spec => []GateExcludes
  <1>1. IInv => GateExcludes
    BY HolderAlone DEF IInv, Safe, GateExcludes, Open
  <1> QED
    BY <1>1, Invariance, PTL

(* An ended party never has a machine again once its end is done, whatever *)
(* join, read, note or quit raced the end.                                 *)
THEOREM EndIsFinal == Spec => []EndedIsClosedUnlessCut
  <1>1. IInv => EndedIsClosedUnlessCut
    BY DEF IInv, Safe, EndedIsClosedUnlessCut, EndedIsClosed, Settled,
           ClosedUnlessEnding, At, Holds, Held
  <1> QED
    BY <1>1, Invariance, PTL

(* Machine and row agree on whether the party plays. *)
THEOREM StartedAsStored == Spec => []StartedIsLiveUnlessCut
  <1>1. IInv => StartedIsLiveUnlessCut
    <2> SUFFICES ASSUME IInv, ~faulted, Settled, room # NoRoom
                 PROVE  room.started <=> row.status = "live"
      BY DEF StartedIsLiveUnlessCut
    <2>1. ~At("startRoom") /\ ~At("endRoom")
      BY DEF Settled, At, Holds, Held
    <2>2. row.status \in {"scheduled", "live"}
      BY <2>1 DEF IInv, Safe, ClosedUnlessEnding, TypeOK, Row, Status
    <2>3. room.started \in BOOLEAN
      BY DEF IInv, TypeOK, Room
    <2> QED
      BY <2>1, <2>2, <2>3 DEF IInv, Safe, LobbyUntilLive, StartedWhenLive
  <1> QED
    BY <1>1, Invariance, PTL

(* ... and on who is host. *)
THEOREM HostAsStored == Spec => []HostIsStoredUnlessCut
  <1>1. IInv => HostIsStoredUnlessCut
    BY DEF IInv, Safe, HostIsStoredUnlessCut, HostKept, Settled, At, Holds, Held
  <1> QED
    BY <1>1, Invariance, PTL

(* The task evicts nobody, and the sweep goes by the date as it is: the    *)
(* party the task ends has no member present, and one that was never       *)
(* started is still overdue, whatever joins and changes of the date came   *)
(* between the decision and the end.                                       *)
THEOREM NobodyIsEvicted == Spec => []ExpiryFindsNobody
  <1>1. Init => DateIsOver
    BY RegistryAssumption DEF Init, DateIsOver, Idle, Proc
  <1>2. IInv /\ DateIsOver => ExpiryFindsNobody
    BY DEF IInv, Safe, NobodyIsIn, DateIsOver, ExpiryFindsNobody
  <1> QED
    BY <1>1, <1>2, DateStep, Invariance, PTL DEF Spec

(* However many starts race for one scheduled party, it starts once: the    *)
(* status read under the gate stops the second.                            *)
THEOREM ConcurrentStartsStartOnce == Spec => []StartsOnce
  <1>1. IInv => StartsOnce
    BY DEF IInv, Safe
  <1> QED
    BY <1>1, Invariance, PTL

=============================================================================
