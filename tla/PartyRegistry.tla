----------------------------- MODULE PartyRegistry -----------------------------
(***************************************************************************)
(* The registry of in-memory parties (party/registry.rs) with the route    *)
(* handlers that drive it (party/routes.rs), for one party: its database   *)
(* row and guest rows, its machine in memory, and the gate that serializes *)
(* whoever writes the party or delivers its events.                        *)
(*                                                                         *)
(* Every handler is a process `p` that runs one call at a time: requests   *)
(* and the background task.  A step runs from one await to the next.  What *)
(* a handler reads before it holds the gate is kept in its call (`token`,  *)
(* `seen`) and may be stale when it is used.  Two abstractions: reads in a *)
(* row with no write between them are one step, and so is what is done     *)
(* under the gate up to the first write that an ungated reader can see.    *)
(*                                                                         *)
(* Of the machine only what the registry relies on is kept: the host, who  *)
(* is present, whether playback was started and whether the room has been  *)
(* empty for EMPTY_TTL (the machine itself is PartyMachine).  The party is *)
(* public, so any account may join; nobody holds the Manage permission.    *)
(***************************************************************************)
EXTENDS Integers, FiniteSets

CONSTANTS
    User, Owner,    \* accounts, and the one that owns the party
    NoUser,         \* NULL
    Request,        \* request handlers that may run at the same time
    Task,           \* the background task (spawn)
    Gate, NoGate,   \* mutexes: the map's entry is replaced after an end
    NoRoom,         \* no machine in memory
    MayFail,        \* whether a call may be cut short and the server restart
    GoesOn          \* bound: whether calls begin after one was cut under the gate

ASSUME RegistryAssumption ==
    /\ Owner \in User /\ NoUser \notin User
    /\ Task \notin Request
    /\ NoGate \notin Gate /\ IsFiniteSet(Gate)
    /\ Cardinality(Gate) > Cardinality(Request)
    /\ {MayFail, GoesOn} \subseteq BOOLEAN

VARIABLES
    row,        \* watch_parties: status and hostId
    guest,      \* watch_party_invitees: the source of each user's row
    room,       \* Inner.live: the machine, or none
    gate,       \* Inner.gates: the mutex of the party, or none
    overdue,    \* SCHEDULE_EXPIRY passed since the date and the last emptying
    faulted,    \* a call was cut short since the server started
    call        \* what each handler is doing

vars == <<row, guest, room, gate, overdue, faulted, call>>

Proc == Request \cup {Task}

Status == {"scheduled", "live", "ended"}
Source == {"none", "invite", "joined", "kicked"}    \* joined: link or public
Row == [status: Status, host: User \cup {NoUser}]
Room == [host: User, present: SUBSET User, started: BOOLEAN, idle: BOOLEAN]

ASSUME RoomAssumption == NoRoom \notin Room

(* Steps that begin by taking the gate, and steps that follow under it. *)
Gated == {"ensure", "enter", "leave", "kick", "start", "end",
          "transfer", "quit", "note", "patch",
          "tick", "expire", "sweep"}
Held == {"kickRoom", "startRoom", "endRoom", "transferRow", "revokeRoom"}
Step == {"idle", "check", "admit", "quitRow", "inviteRow"}
            \cup Gated \cup Held

(* Of a call: its step, the user it is about (who joins or leaves, who is   *)
(* kicked, invited or made host, else the caller), and what it remembers.  *)
Call == [at: Step, who: User, token: BOOLEAN, seen: Row,
         gone: SUBSET User, gate: Gate \cup {NoGate}]

NoRow == [status |-> "scheduled", host |-> NoUser]
Idle == [at |-> "idle", who |-> Owner, token |-> FALSE,
         seen |-> NoRow, gone |-> {}, gate |-> NoGate]

-----------------------------------------------------------------------------
(* Reading the party.                                                       *)

(* Row::host: the stored host, else the owner. *)
RowHost(r) == IF r.host # NoUser THEN r.host ELSE Owner

(* The owner until the start, then whoever the machine says. *)
HostOf(r) == CASE r.status = "scheduled" -> Owner
               [] r.status # "scheduled" /\ room # NoRoom -> room.host
               [] OTHER -> RowHost(r)

IsGuest(u) == guest[u] \in {"invite", "joined"}

MayRead(u) == u = Owner \/ IsGuest(u) \/ (room # NoRoom /\ u \in room.present)

Present == IF room = NoRoom THEN {} ELSE room.present

-----------------------------------------------------------------------------
(* The gate.                                                                *)

Holds(p) == call[p].at \in Held

(* `hold`: takes the map's mutex, made if there is none; then waits for it. *)
Ask(p) ==
    /\ call[p].at \in Gated
    /\ call[p].gate = NoGate
    /\ \E g \in Gate :
         /\ IF gate # NoGate THEN g = gate
                              ELSE \A q \in Proc : call[q].gate # g
         /\ gate' = g
         /\ call' = [call EXCEPT ![p].gate = g]
    /\ UNCHANGED <<row, guest, room, overdue, faulted>>

(* The handler is at this gated step and gets its mutex. *)
Enters(p, step) ==
    /\ call[p].at = step
    /\ call[p].gate # NoGate
    /\ \A q \in Proc : Holds(q) => call[q].gate # call[p].gate

Done(p) == call' = [call EXCEPT ![p] = Idle]

(* The handler goes on without the gate, or keeps it for the next step. *)
Release(p, step) == call' = [call EXCEPT ![p].at = step, ![p].gate = NoGate]
Keep(p, step) == call' = [call EXCEPT ![p].at = step]

(* Bounds: no call begins once the party ended (most are refused, and the  *)
(* others find no machine), nor, unless GoesOn, between a cut under the     *)
(* gate and the restart; those already under way go on.                    *)
NewCall(p, c) == /\ call[p].at = "idle"
                 /\ row.status # "ended" /\ (faulted => GoesOn)
                 /\ call' = [call EXCEPT ![p] = c]
                 /\ UNCHANGED <<row, guest, room, gate, overdue, faulted>>

Begin(p, step, u) == NewCall(p, [Idle EXCEPT !.at = step, !.who = u])

(* `insert`: a live row boots with its playback, any other opens a lobby. *)
Opened == [host |-> RowHost(row), present |-> {},
           started |-> row.status = "live", idle |-> FALSE]

Forget == room' = NoRoom /\ gate' = NoGate

(* Mutant: the row read before the gate is trusted. *)
BugEnsureHeld == /\ room' = IF room = NoRoom THEN Opened ELSE room
                 /\ UNCHANGED gate

(* `ensure_held`: judged on the row as stored now. *)
EnsureHeld ==
    IF room = NoRoom /\ row.status = "ended"
    THEN Forget
    ELSE /\ room' = IF room = NoRoom THEN Opened ELSE room
         /\ UNCHANGED gate

-----------------------------------------------------------------------------
(* Joining and leaving.                                                     *)

(* The row and the access are read without the gate; a member (the owner   *)
(* or a guest) skips the `kicked` check.                                   *)
Join(p, u) ==
    NewCall(p, [Idle EXCEPT !.at = IF room = NoRoom THEN "ensure" ELSE "check",
                            !.who = u,
                            !.token = ~(u = Owner \/ IsGuest(u))])

(* `ensure`; any read of the party (GET, and the answer of most calls)     *)
(* does the same and goes no further.                                      *)
Ensure(p) ==
    /\ Enters(p, "ensure")
    /\ EnsureHeld
    /\ Done(p) \/ (room' # NoRoom /\ Release(p, "check"))
    /\ UNCHANGED <<row, guest, overdue, faulted>>

JoinCheck(p) ==
    /\ call[p].at = "check"
    /\ IF room = NoRoom \/ (call[p].token /\ guest[call[p].who] = "kicked")
       THEN Done(p)
       ELSE Release(p, IF call[p].token THEN "admit" ELSE "enter")
    /\ UNCHANGED <<row, guest, room, gate, overdue, faulted>>

(* add_joined_guest: ON CONFLICT DO NOTHING. *)
JoinAdmit(p) ==
    /\ call[p].at = "admit"
    /\ guest' = [guest EXCEPT ![call[p].who] = IF @ = "none" THEN "joined" ELSE @]
    /\ Release(p, "enter")
    /\ UNCHANGED <<row, room, gate, overdue, faulted>>

(* Mutant: a join does not stop the countdown. *)
BugJoinEnter(p) ==
    /\ Enters(p, "enter")
    /\ IF room = NoRoom
       THEN UNCHANGED <<room, overdue>>
       ELSE /\ room' = [room EXCEPT !.present = @ \cup {call[p].who}]
            /\ overdue' = FALSE
    /\ Done(p)
    /\ UNCHANGED <<row, guest, gate, faulted>>

(* `mutate`: without a machine nothing happens, and the answer is 200. *)
JoinEnter(p) ==
    /\ Enters(p, "enter")
    /\ IF room = NoRoom
       THEN UNCHANGED <<room, overdue>>
       ELSE /\ room' = [room EXCEPT !.present = @ \cup {call[p].who}, !.idle = FALSE]
            /\ overdue' = FALSE
    /\ Done(p)
    /\ UNCHANGED <<row, guest, gate, faulted>>

Leave(p, u) == MayRead(u) /\ Begin(p, "leave", u)

LeaveRoom(p) ==
    /\ Enters(p, "leave")
    /\ room' = IF room = NoRoom THEN room
               ELSE [room EXCEPT !.present = @ \ {call[p].who}]
    /\ Done(p)
    /\ UNCHANGED <<row, guest, gate, overdue, faulted>>

(* A guest leaves for good: the guest row first, then the room. *)
Quit(p, u) ==
    /\ u # Owner /\ u # HostOf(row)
    /\ Begin(p, "quitRow", u)

QuitRow(p) ==
    /\ call[p].at = "quitRow"
    /\ IF IsGuest(call[p].who)
       THEN /\ guest' = [guest EXCEPT ![call[p].who] = "none"]
            /\ Release(p, "quit")
       ELSE Done(p) /\ UNCHANGED guest
    /\ UNCHANGED <<row, room, gate, overdue, faulted>>

QuitRoom(p) ==
    /\ Enters(p, "quit")
    /\ IF room = NoRoom
       THEN EnsureHeld
       ELSE /\ room' = [room EXCEPT !.present = @ \ {call[p].who}]
            /\ UNCHANGED gate
    /\ Done(p)
    /\ UNCHANGED <<row, guest, overdue, faulted>>

-----------------------------------------------------------------------------
(* The host's calls.                                                        *)

Start(p, u) ==
    /\ u = HostOf(row)
    /\ row.status = "scheduled"
    /\ Begin(p, "start", Owner)

(* Mutant: the status is not judged again under the gate. *)
BugStartRow(p) ==
    /\ Enters(p, "start")
    /\ IF row.status = "ended"
       THEN Done(p) /\ UNCHANGED <<row, room, gate>>
       ELSE /\ EnsureHeld
            /\ \/ Done(p) /\ UNCHANGED row
               \/ row' = [row EXCEPT !.status = "live"] /\ Keep(p, "startRoom")
    /\ UNCHANGED <<guest, overdue, faulted>>

(* go_live up to set_live; an unplayable programme refuses it. *)
StartRow(p) ==
    /\ Enters(p, "start")
    /\ IF row.status # "scheduled"
       THEN Done(p) /\ UNCHANGED <<row, room, gate>>
       ELSE /\ EnsureHeld
            /\ \/ Done(p) /\ UNCHANGED row
               \/ row' = [row EXCEPT !.status = "live"] /\ Keep(p, "startRoom")
    /\ UNCHANGED <<guest, overdue, faulted>>

(* Mutant: a start that finds nobody in the room leaves the lobby. *)
BugStartRoom(p) ==
    /\ call[p].at = "startRoom"
    /\ room' = IF room = NoRoom \/ Present = {} THEN room
               ELSE [room EXCEPT !.started = TRUE, !.idle = FALSE]
    /\ Done(p)
    /\ UNCHANGED <<row, guest, gate, overdue, faulted>>

StartRoom(p) ==
    /\ call[p].at = "startRoom"
    /\ room' = IF room = NoRoom THEN room
               ELSE [room EXCEPT !.started = TRUE, !.idle = FALSE]
    /\ Done(p)
    /\ UNCHANGED <<row, guest, gate, overdue, faulted>>

End(p, u) ==
    /\ u = HostOf(row)
    /\ Begin(p, "end", Owner)

(* end_held: set_ended, then the members are told and the party forgotten. *)
SetEnded(p) ==
    IF row.status = "ended"
    THEN Done(p) /\ UNCHANGED row
    ELSE row' = [row EXCEPT !.status = "ended"] /\ Keep(p, "endRoom")

EndRow(p) ==
    /\ Enters(p, "end")
    /\ SetEnded(p)
    /\ UNCHANGED <<guest, room, gate, overdue, faulted>>

EndRoom(p) ==
    /\ call[p].at = "endRoom"
    /\ Forget
    /\ Done(p)
    /\ UNCHANGED <<row, guest, overdue, faulted>>

(* The host is checked on the row as read before the gate, and again there. *)
Kick(p, u, v) ==
    /\ MayRead(u) /\ u = HostOf(row)
    /\ NewCall(p, [Idle EXCEPT !.at = "kick", !.who = v, !.seen = row])

(* The `kicked` row is written before the member leaves the room. *)
KickRow(p) ==
    LET v == call[p].who IN
    /\ Enters(p, "kick")
    /\ IF v # Owner /\ v # HostOf(call[p].seen) /\ (v \in Present \/ IsGuest(v))
       THEN guest' = [guest EXCEPT ![v] = "kicked"] /\ Keep(p, "kickRoom")
       ELSE Done(p) /\ UNCHANGED guest
    /\ UNCHANGED <<row, room, gate, overdue, faulted>>

(* Who the machine's kick removes: never the host. *)
Kicked(s, gone) ==
    IF s = NoRoom THEN s ELSE [s EXCEPT !.present = @ \ (gone \ {s.host})]

(* Mutant: `mutate` instead of `mutate_held` asks for the gate again. *)
BugKickRoom(p) ==
    /\ Enters(p, "kickRoom")
    /\ room' = Kicked(room, {call[p].who})
    /\ Done(p)
    /\ UNCHANGED <<row, guest, gate, overdue, faulted>>

KickRoom(p) ==
    /\ call[p].at = "kickRoom"
    /\ room' = Kicked(room, {call[p].who})
    /\ Done(p)
    /\ UNCHANGED <<row, guest, gate, overdue, faulted>>

Transfer(p, u, v) ==
    /\ MayRead(u) /\ u = HostOf(row)
    /\ Begin(p, "transfer", v)

(* The machine moves the role, then the row remembers it. *)
TransferRoom(p) ==
    /\ Enters(p, "transfer")
    /\ IF room # NoRoom /\ room.started /\ call[p].who \in Present
       THEN room' = [room EXCEPT !.host = call[p].who] /\ Keep(p, "transferRow")
       ELSE Done(p) /\ UNCHANGED room
    /\ UNCHANGED <<row, guest, gate, overdue, faulted>>

(* Mutant: the stored host is never written. *)
BugTransferRow(p) ==
    /\ call[p].at = "transferRow"
    /\ Done(p)
    /\ UNCHANGED <<row, guest, room, gate, overdue, faulted>>

TransferRow(p) ==
    /\ call[p].at = "transferRow"
    /\ row' = [row EXCEPT !.host = call[p].who]
    /\ Done(p)
    /\ UNCHANGED <<guest, room, gate, overdue, faulted>>

(* add_invitees upgrades whoever was not invited, without the gate. *)
Invite(p, u, v) ==
    /\ MayRead(u) /\ u = HostOf(row)
    /\ v # Owner
    /\ Begin(p, "inviteRow", v)

InviteRow(p) ==
    /\ call[p].at = "inviteRow"
    /\ IF guest[call[p].who] = "invite"
       THEN Done(p) /\ UNCHANGED guest
       ELSE /\ guest' = [guest EXCEPT ![call[p].who] = "invite"]
            /\ Release(p, "note")
    /\ UNCHANGED <<row, room, gate, overdue, faulted>>

(* The message in the chat of a party that may have no machine yet. *)
InviteNote(p) ==
    /\ Enters(p, "note")
    /\ EnsureHeld
    /\ Done(p)
    /\ UNCHANGED <<row, guest, overdue, faulted>>

(* PATCH reads the row under the gate, so nothing in it is stale. *)
Patch(p, u) ==
    /\ u = HostOf(row)
    /\ Begin(p, "patch", u)

Reschedule(p) ==
    /\ Enters(p, "patch")
    /\ row.status = "scheduled" /\ call[p].who = HostOf(row)
    /\ overdue' = FALSE
    /\ EnsureHeld
    /\ Done(p)
    /\ UNCHANGED <<row, guest, faulted>>

(* A new token: the kicked are forgiven, those who joined with it are out. *)
Regenerate(p) ==
    LET gone == {u \in User : guest[u] = "joined" /\ u # HostOf(row)} IN
    /\ Enters(p, "patch")
    /\ IF row.status # "ended" /\ call[p].who = HostOf(row)
       THEN /\ guest' = [u \in User |->
                  IF u \in gone \/ guest[u] = "kicked" THEN "none" ELSE guest[u]]
            /\ call' = [call EXCEPT ![p].at = "revokeRoom", ![p].gone = gone]
       ELSE Done(p) /\ UNCHANGED guest
    /\ UNCHANGED <<row, room, gate, overdue, faulted>>

RevokeRoom(p) ==
    /\ call[p].at = "revokeRoom"
    /\ room' = Kicked(room, call[p].gone)
    /\ Done(p)
    /\ UNCHANGED <<row, guest, gate, overdue, faulted>>

-----------------------------------------------------------------------------
(* The background task.                                                     *)

Tick == room # NoRoom /\ Begin(Task, "tick", Owner)

(* The machine's tick: lost members go, and an empty room may be expired. *)
TickRoom ==
    /\ Enters(Task, "tick")
    /\ IF room = NoRoom
       THEN Done(Task) /\ UNCHANGED room
       ELSE /\ \E lost \in SUBSET room.present :
                 room' = [room EXCEPT !.present = @ \ lost]
            /\ IF room.idle THEN Release(Task, "expire") ELSE Done(Task)
    /\ UNCHANGED <<row, guest, gate, overdue, faulted>>

(* Mutant: freeing a lobby's machine drops its gate as well. *)
BugExpireForgets ==
    /\ Enters(Task, "expire")
    /\ CASE room = NoRoom \/ ~room.idle ->
              Done(Task) /\ UNCHANGED <<row, room, gate>>
         [] room # NoRoom /\ room.idle /\ row.status = "live" ->
              SetEnded(Task) /\ UNCHANGED <<room, gate>>
         [] OTHER ->
              Forget /\ Done(Task) /\ UNCHANGED row
    /\ UNCHANGED <<guest, overdue, faulted>>

(* Mutant: an expired machine is freed, whatever the row says. *)
BugFreeLive ==
    /\ Enters(Task, "expire")
    /\ room' = IF room # NoRoom /\ room.idle THEN NoRoom ELSE room
    /\ Done(Task)
    /\ UNCHANGED <<row, guest, gate, overdue, faulted>>

(* Judged again: a live party ends, any other only frees its machine. *)
Expire ==
    /\ Enters(Task, "expire")
    /\ CASE room = NoRoom \/ ~room.idle ->
              Done(Task) /\ UNCHANGED <<row, room>>
         [] room # NoRoom /\ room.idle /\ row.status = "live" ->
              SetEnded(Task) /\ UNCHANGED room
         [] OTHER ->
              room' = NoRoom /\ Done(Task) /\ UNCHANGED row
    /\ UNCHANGED <<guest, gate, overdue, faulted>>

(* schedule_expired: a room with a present member never is. *)
ScheduleExpired == overdue /\ Present = {}

Sweep ==
    /\ row.status = "scheduled" /\ ScheduleExpired
    /\ Begin(Task, "sweep", Owner)

(* Mutant: the sweep goes by the date it read before the gate. *)
BugSweepRow ==
    /\ Enters(Task, "sweep")
    /\ IF row.status = "scheduled" /\ Present = {}
       THEN SetEnded(Task)
       ELSE Done(Task) /\ UNCHANGED row
    /\ UNCHANGED <<guest, room, gate, overdue, faulted>>

SweepRow ==
    /\ Enters(Task, "sweep")
    /\ IF row.status = "scheduled" /\ ScheduleExpired
       THEN SetEnded(Task)
       ELSE Done(Task) /\ UNCHANGED row
    /\ UNCHANGED <<guest, room, gate, overdue, faulted>>

(* EMPTY_TTL passes over a room nobody is in. *)
RoomIdles ==
    /\ room # NoRoom /\ room.present = {} /\ ~room.idle
    /\ room' = [room EXCEPT !.idle = TRUE]
    /\ UNCHANGED <<row, guest, gate, overdue, faulted, call>>

(* SCHEDULE_EXPIRY passes since the date, and since the room emptied. *)
DatePasses ==
    /\ row.status = "scheduled" /\ Present = {} /\ ~overdue
    /\ overdue' = TRUE
    /\ UNCHANGED <<row, guest, room, gate, faulted, call>>

-----------------------------------------------------------------------------
(* Failures.                                                                *)

(* A database call fails, or the request is dropped with its client: the   *)
(* handler stops where it is and the gate is released.                     *)
Fault(p) ==
    /\ MayFail
    /\ call[p].at \notin {"idle", "tick"}
    /\ faulted' = (faulted \/ Holds(p))
    /\ Done(p)
    /\ UNCHANGED <<row, guest, room, gate, overdue>>

(* The server restarts: `boot` gives every live row a machine. *)
Restart ==
    /\ MayFail
    /\ room' = IF row.status = "live" THEN Opened ELSE NoRoom
    /\ gate' = NoGate
    /\ call' = [p \in Proc |-> Idle]
    /\ faulted' = FALSE
    /\ UNCHANGED <<row, guest, overdue>>

-----------------------------------------------------------------------------

Init ==
    /\ row = NoRow
    /\ guest \in [User -> {"none", "invite"}] /\ guest[Owner] = "none"
    /\ room = NoRoom
    /\ gate = NoGate
    /\ overdue = FALSE
    /\ faulted = FALSE
    /\ call = [p \in Proc |-> Idle]

JoinSteps(p) == Ensure(p) \/ JoinCheck(p) \/ JoinAdmit(p) \/ JoinEnter(p)
LeaveSteps(p) == LeaveRoom(p) \/ QuitRow(p) \/ QuitRoom(p)
HostSteps(p) ==
    \/ StartRow(p) \/ StartRoom(p)
    \/ EndRow(p)
    \/ KickRow(p) \/ KickRoom(p)
    \/ TransferRoom(p) \/ TransferRow(p)
    \/ InviteRow(p) \/ InviteNote(p)
    \/ Reschedule(p) \/ Regenerate(p) \/ RevokeRoom(p)

RequestBegins(p, u) ==
    \/ Join(p, u) \/ Leave(p, u) \/ Quit(p, u)
    \/ Start(p, u) \/ End(p, u)
    \/ Patch(p, u)
    \/ \E v \in User : Kick(p, u, v) \/ Transfer(p, u, v) \/ Invite(p, u, v)

Proceeds(p) == JoinSteps(p) \/ LeaveSteps(p) \/ HostSteps(p)
TaskProceeds == TickRoom \/ Expire \/ SweepRow

Next ==
    \/ \E p \in Request : \/ \E u \in User : RequestBegins(p, u)
                          \/ Proceeds(p)
    \/ Tick \/ Sweep \/ TaskProceeds
    \/ \E p \in Proc : Ask(p) \/ EndRoom(p) \/ Fault(p)
    \/ RoomIdles \/ DatePasses
    \/ Restart

Spec == Init /\ [][Next]_vars

(* Every handler is polled until it answers and a mutex is served in the   *)
(* order it was asked for, hence strong fairness of the steps that wait    *)
(* for one; the task's loop calls the tick and the sweep again and again,  *)
(* and a room left alone does reach EMPTY_TTL.                             *)
Fairness ==
    /\ \A p \in Request : SF_vars(Proceeds(p))
    /\ \A p \in Proc : WF_vars(Ask(p)) /\ WF_vars(EndRoom(p))
    /\ SF_vars(TaskProceeds) /\ SF_vars(Tick) /\ SF_vars(Sweep)
    /\ WF_vars(RoomIdles)

FairSpec == Spec /\ Fairness

-----------------------------------------------------------------------------
(* Properties.                                                              *)

(* Every variable keeps its type; a handler holds a mutex only at the steps *)
(* that take one, and the machine's countdown is over only in an empty room. *)
TypeOK ==
    /\ row \in Row
    /\ guest \in [User -> Source]
    /\ room \in Room \cup {NoRoom}
    /\ gate \in Gate \cup {NoGate}
    /\ overdue \in BOOLEAN
    /\ faulted \in BOOLEAN
    /\ call \in [Proc -> Call]
    /\ \A p \in Proc : Holds(p) => call[p].gate # NoGate
    /\ room # NoRoom /\ room.idle => room.present = {}

(* Nobody is writing the party under the gate. *)
Settled == \A p \in Proc : ~Holds(p)

(* The gate excludes: never do two handlers write an open party at once,   *)
(* although its mutex is made on demand and forgotten with the party.      *)
GateExcludes ==
    row.status # "ended" =>
        \A p, q \in Proc : p # q => ~(Holds(p) /\ Holds(q))

(* An ended party has no machine once its end is done: no join, read, note *)
(* or quit that raced the end brings it back.                              *)
EndedIsClosed == row.status = "ended" /\ Settled => room = NoRoom

(* ... unless a fault cut the end short; the next restart repairs that.    *)
EndedIsClosedUnlessCut == ~faulted => EndedIsClosed

(* The machine plays exactly when the row is live, whichever of a start, a *)
(* read, a join, an expiry or a restart made the machine.                  *)
StartedIsLiveUnlessCut ==
    ~faulted /\ Settled /\ room # NoRoom => (room.started <=> row.status = "live")

(* The host the members see is the one a restart would bring back.         *)
HostIsStoredUnlessCut ==
    ~faulted /\ Settled /\ room # NoRoom => room.host = RowHost(row)

(* A party that the task is ending has nobody in, and nobody gets in; and  *)
(* one that was never started is ended at its date, not at one that has    *)
(* been changed meanwhile.                                                 *)
ExpiryFindsNobody ==
    call[Task].at = "endRoom" =>
        /\ Present = {}
        /\ ~faulted /\ (room = NoRoom \/ ~room.started) => overdue

(* A start never restarts a playback: a handler about to build it finds    *)
(* the lobby, so of concurrent starts one wins.                            *)
StartsOnce ==
    \A p \in Request :
        call[p].at = "startRoom" /\ room # NoRoom => ~room.started

(* Every call is answered: no handler waits for a mutex it holds, nor for  *)
(* one that an ended party left behind.                                    *)
CallsAreAnswered ==
    \A p \in Proc : call[p].at # "idle" ~> call[p].at = "idle"

(* A live party that nobody is in any more is ended, whatever calls come   *)
(* in, as long as nobody joins.                                            *)
EmptyPartyEnds ==
    [](row.status = "live" /\ Present = {} =>
         <>(row.status = "ended" \/ Present # {}))

(* The host of a live party may read it: the owner or one of its guests.   *)
HostIsAdmitted ==
    row.status = "live" /\ Settled /\ room # NoRoom =>
        room.host = Owner \/ IsGuest(room.host)

=============================================================================
