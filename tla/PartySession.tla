----------------------------- MODULE PartySession -----------------------------
(***************************************************************************)
(* A client's view of the party it is in (client party.service.ts) and the *)
(* part of the server it depends on: the event stream of its device, the   *)
(* snapshot that GET and join answer (party/routes.rs `dto`), and the      *)
(* connection the party's machine delivers to.                             *)
(*                                                                         *)
(* Every change of the party has a revision and concerns one facet; what   *)
(* is shown of a facet is the revision of the change it comes from.  The   *)
(* stream keeps its order and loses what it holds when it drops.  A call   *)
(* is answered from two reads, of the row and of the machine, with         *)
(* anything in between.  The party is live and stays so: lobby, chat and   *)
(* the end are left out.                                                   *)
(***************************************************************************)
EXTENDS Integers, Sequences

CONSTANTS
    MaxRev,     \* bound on the revisions of the party
    MaxConn,    \* bound on the streams the device opens, one after the other
    MaxFail     \* bound on the calls that fail

ASSUME SessionAssumption ==
    /\ MaxRev \in Nat \ {0} /\ MaxConn \in Nat \ {0} /\ MaxFail \in Nat

VARIABLES
    (* The server. *)
    rev,        \* Room::rev
    at,         \* the revision that last changed each facet
    row,        \* the settings in the row: one ahead of rev while a PATCH runs
    bound,      \* the connection of this device's member; 0: away or no member
    hub,        \* the registered connection of this device; 0: none
    (* The wire. *)
    up,         \* the stream as the client sees it; 0: down
    wire,       \* events on their way
    fetch,      \* the GET under way
    join,       \* the join under way
    opened, failed,     \* how many streams were opened, how many calls failed
    (* The client. *)
    inParty,        \* party() is set
    lastRev, shown, \* what was applied, and what it shows
    refetchAgain, needsRejoin,
    retry,          \* the timer of a failed rejoin is running
    (* History: what the client cannot know. *)
    owed,       \* the event that showed a gap, if no snapshot was applied since
    missed,     \* a change was lost that nothing will ask for
    deaf        \* a reconnection was left to a join that took an older stream

serverVars == <<rev, at, row, bound, hub>>
clientVars == <<inParty, lastRev, shown, needsRejoin, retry>>
vars == <<serverVars, up, wire, fetch, join, opened, failed,
          clientVars, refetchAgain, owed, missed, deaf>>

Facet == {"state", "members", "settings"}
Rev == 0 .. MaxRev
Conn == 0 .. MaxConn

(* A call: how far it got, the connection a join found, and what it read.  *)
(* `whole`: the row it read is not older than the machine's settings.      *)
Call == [step: {"idle", "asked", "read", "joined", "answered", "failed"},
         conn: Conn, rev: Rev, seen: [Facet -> Rev], whole: BOOLEAN]
Nothing == [f \in Facet |-> 0]
NoCall == [step |-> "idle", conn |-> 0, rev |-> 0, seen |-> Nothing,
           whole |-> TRUE]
Asked == [NoCall EXCEPT !.step = "asked"]

Event == [rev: Rev, facet: Facet]

Busy(call) == call.step # "idle"

Init ==
    /\ rev = 1 /\ at = [f \in Facet |-> 1] /\ row = 1
    /\ bound = 0
    /\ hub = 1 /\ up = 1 /\ opened = 1
    /\ wire = <<>>
    /\ fetch = NoCall /\ join = NoCall /\ failed = 0
    /\ inParty = FALSE
    /\ lastRev = 0 /\ shown = Nothing
    /\ refetchAgain = FALSE /\ needsRejoin = FALSE /\ retry = FALSE
    /\ owed = 0 /\ missed = FALSE /\ deaf = FALSE

-----------------------------------------------------------------------------
(* The server.                                                              *)

(* `hold`: nobody else is between the writes of a PATCH. *)
GateFree == row <= rev

(* A revision and its event, to the member's connection if it is the one    *)
(* the hub has and the client still listens.                                *)
Announce(facet, to) ==
    /\ rev' = rev + 1
    /\ at' = [at EXCEPT ![facet] = rev + 1]
    /\ wire' = IF to # 0 /\ to = hub /\ to = up
                 THEN Append(wire, [rev |-> rev + 1, facet |-> facet])
                 ELSE wire

(* Another member acts: playback moves, or the list of members changes. *)
Change(facet) ==
    /\ facet # "settings"
    /\ GateFree /\ rev < MaxRev
    /\ Announce(facet, bound)
    /\ UNCHANGED <<row, bound, hub, up, fetch, join, opened, failed,
                   clientVars, refetchAgain, owed, missed, deaf>>

(* A PATCH stores the settings, then tells the machine, under the gate. *)
PatchRow ==
    /\ GateFree /\ rev < MaxRev
    /\ row' = rev + 1
    /\ UNCHANGED <<rev, at, bound, hub, up, wire, fetch, join, opened, failed,
                   clientVars, refetchAgain, owed, missed, deaf>>

PatchRoom ==
    /\ ~GateFree
    /\ Announce("settings", bound)
    /\ UNCHANGED <<row, bound, hub, up, fetch, join, opened, failed,
                   clientVars, refetchAgain, owed, missed, deaf>>

(* The tick marks a member away whose connection is gone. *)
Tick ==
    /\ bound # 0 /\ bound # hub
    /\ GateFree /\ rev < MaxRev
    /\ bound' = 0
    /\ Announce("members", 0)
    /\ UNCHANGED <<row, hub, up, fetch, join, opened, failed,
                   clientVars, refetchAgain, owed, missed, deaf>>

(* `row_of`: the first read of a handler. *)
ReadRow(call) == [call EXCEPT !.step = "read", !.seen.settings = row]

(* Mutant: the answer's revision is counted after its contents were read. *)
BugReadView(call) ==
    [call EXCEPT !.step = "answered", !.rev = rev + 1,
                 !.seen.state = at.state, !.seen.members = at.members,
                 !.whole = call.seen.settings >= at.settings]

(* `dto`: the machine's view, with the settings of the row read before. *)
ReadView(call) ==
    [call EXCEPT !.step = "answered", !.rev = rev,
                 !.seen.state = at.state, !.seen.members = at.members,
                 !.whole = call.seen.settings >= at.settings]

ServeFetch ==
    /\ \/ fetch.step = "asked" /\ fetch' = ReadRow(fetch)
       \/ fetch.step = "read" /\ fetch' = ReadView(fetch)
    /\ UNCHANGED <<serverVars, up, wire, join, opened, failed,
                   clientVars, refetchAgain, owed, missed, deaf>>

(* The join reads the row and finds the device's connection; without one it *)
(* is refused, as one worth retrying.                                       *)
JoinReads ==
    /\ join.step = "asked"
    /\ join' = IF hub = 0 THEN [join EXCEPT !.step = "failed"]
                          ELSE [ReadRow(join) EXCEPT !.conn = hub]
    /\ UNCHANGED <<serverVars, up, wire, fetch, opened, failed,
                   clientVars, refetchAgain, owed, missed, deaf>>

(* `Room::join` under the gate: the member is bound to what was found. *)
JoinBinds ==
    /\ join.step = "read"
    /\ GateFree /\ rev < MaxRev
    /\ bound' = join.conn
    /\ Announce("members", join.conn)
    /\ join' = [join EXCEPT !.step = "joined"]
    /\ UNCHANGED <<row, hub, up, fetch, opened, failed,
                   clientVars, refetchAgain, owed, missed, deaf>>

JoinViews ==
    /\ join.step = "joined"
    /\ join' = ReadView(join)
    /\ UNCHANGED <<serverVars, up, wire, fetch, opened, failed,
                   clientVars, refetchAgain, owed, missed, deaf>>

(* The hub forgets a connection: its queue was full, or its stream is gone. *)
HubCloses ==
    /\ hub # 0
    /\ hub' = 0
    /\ UNCHANGED <<rev, at, row, bound, up, wire, fetch, join, opened, failed,
                   clientVars, refetchAgain, owed, missed, deaf>>

-----------------------------------------------------------------------------
(* The client: snapshots.                                                   *)

(* Mutant: no snapshot is older than what was applied. *)
BugTooOld(s) == FALSE

(* A snapshot older than what events already applied. *)
TooOld(s) == s.rev < lastRev

(* `applySnapshot`.  One that was asked for to fill a gap and is overtaken   *)
(* by the next event is dropped, and nothing asks again.                    *)
ApplySnapshot(s, more) ==
    IF TooOld(s)
    THEN /\ missed' = (missed \/ (owed \in 1 .. s.rev /\ ~more))
         /\ UNCHANGED <<lastRev, shown, owed>>
    ELSE /\ lastRev' = s.rev
         /\ shown' = s.seen
         /\ owed' = 0
         /\ missed' = ~s.whole

(* `refetch`: one fetch at a time, one more after it if asked meanwhile. *)
Refetch ==
    IF Busy(fetch) THEN refetchAgain' = TRUE /\ UNCHANGED fetch
                   ELSE fetch' = Asked /\ UNCHANGED refetchAgain

(* The end of `refetchOnce`, and the loop of `refetch`. *)
FetchEnds ==
    /\ fetch' = IF refetchAgain THEN Asked ELSE NoCall
    /\ refetchAgain' = FALSE

FetchAnswered ==
    /\ fetch.step = "answered"
    /\ ApplySnapshot(fetch, refetchAgain \/ Busy(join))
    /\ FetchEnds
    /\ UNCHANGED <<serverVars, up, wire, join, opened, failed,
                   inParty, needsRejoin, retry, deaf>>

(* A failed refetch is swallowed. *)
FetchFailed ==
    /\ fetch.step = "failed"
    /\ FetchEnds
    /\ missed' = (missed \/ (owed # 0 /\ ~refetchAgain /\ ~Busy(join)))
    /\ UNCHANGED <<serverVars, up, wire, join, opened, failed,
                   clientVars, owed, deaf>>

-----------------------------------------------------------------------------
(* The client: joining.                                                     *)

(* `enter`: the person joins; events are ignored until the answer. *)
Enter ==
    /\ ~inParty /\ up # 0 /\ ~Busy(join)
    /\ join' = Asked
    /\ deaf' = FALSE /\ missed' = FALSE
    /\ UNCHANGED <<serverVars, up, wire, fetch, opened, failed,
                   clientVars, refetchAgain, owed>>

(* `adopt`: a reset, then the snapshot. *)
Adopt ==
    /\ ~inParty /\ join.step = "answered"
    /\ inParty' = TRUE
    /\ lastRev' = join.rev /\ shown' = join.seen
    /\ needsRejoin' = FALSE
    /\ join' = NoCall
    /\ missed' = (missed \/ ~join.whole)
    /\ owed' = 0
    /\ UNCHANGED <<serverVars, up, wire, fetch, opened, failed,
                   retry, refetchAgain, deaf>>

EnterFailed ==
    /\ ~inParty /\ join.step = "failed"
    /\ join' = NoCall
    /\ UNCHANGED <<serverVars, up, wire, fetch, opened, failed,
                   clientVars, refetchAgain, owed, missed, deaf>>

(* `rejoin` returns at once while one is under way. *)
Rejoin == IF Busy(join) THEN UNCHANGED <<join, deaf>>
                        ELSE join' = Asked /\ deaf' = FALSE

Rejoined ==
    /\ inParty /\ join.step = "answered"
    /\ ApplySnapshot(join, Busy(fetch))
    /\ needsRejoin' = FALSE
    /\ join' = NoCall
    /\ UNCHANGED <<serverVars, up, wire, fetch, opened, failed,
                   inParty, retry, refetchAgain, deaf>>

(* Mutant: the retry is left to the next reconnection. *)
BugRejoinFailed ==
    /\ inParty /\ join.step = "failed"
    /\ join' = NoCall
    /\ retry' = (retry \/ up = 0)
    /\ UNCHANGED <<serverVars, up, wire, fetch, opened, failed,
                   inParty, lastRev, shown, needsRejoin,
                   refetchAgain, owed, missed, deaf>>

(* Any failure but the party's end arms the timer. *)
RejoinFailed ==
    /\ inParty /\ join.step = "failed"
    /\ join' = NoCall
    /\ retry' = TRUE
    /\ UNCHANGED <<serverVars, up, wire, fetch, opened, failed,
                   inParty, lastRev, shown, needsRejoin,
                   refetchAgain, owed, missed, deaf>>

(* The timer: a rejoin, if the stream is up. *)
RetryFires ==
    /\ retry
    /\ retry' = FALSE
    /\ IF up # 0 THEN Rejoin ELSE UNCHANGED <<join, deaf>>
    /\ UNCHANGED <<serverVars, up, wire, fetch, opened, failed,
                   inParty, lastRev, shown, needsRejoin,
                   refetchAgain, owed, missed>>

(* An action is refused because the server holds no member for the device. *)
ActionRefused ==
    /\ inParty /\ up # 0 /\ bound = 0
    /\ needsRejoin' = TRUE
    /\ Rejoin
    /\ UNCHANGED <<serverVars, up, wire, fetch, opened, failed,
                   inParty, lastRev, shown, retry,
                   refetchAgain, owed, missed>>

-----------------------------------------------------------------------------
(* The stream.                                                              *)

(* What was on its way is lost; the server may take a while to notice. *)
Drop ==
    /\ up # 0
    /\ up' = 0 /\ wire' = <<>>
    /\ needsRejoin' = (needsRejoin \/ inParty)
    /\ UNCHANGED <<serverVars, fetch, join, opened, failed,
                   inParty, lastRev, shown, retry,
                   refetchAgain, owed, missed, deaf>>

(* Mutant: after a reconnection the client only fetches. *)
BugReconnected == UNCHANGED <<join, deaf>>

(* In a party the client rejoins on a new stream.  A join that took the     *)
(* older stream does not bind this one.                                     *)
Reconnected ==
    IF inParty /\ ~Busy(join)
    THEN Rejoin
    ELSE /\ deaf' = (deaf \/ join.step \in {"read", "joined", "answered"})
         /\ UNCHANGED join

(* A new stream, which evicts what the hub had for the device. *)
Connect ==
    /\ up = 0 /\ opened < MaxConn
    /\ opened' = opened + 1
    /\ up' = opened + 1 /\ hub' = opened + 1
    /\ Reconnected
    /\ UNCHANGED <<rev, at, row, bound, wire, fetch, failed,
                   clientVars, refetchAgain, owed, missed>>

Acceptable(e) == e.rev > lastRev

(* Mutant: one lost event is not noticed. *)
BugGap(e) == e.rev > lastRev + 2

Gap(e) == e.rev > lastRev + 1

(* `onEvent` with `acceptRev`: a stale event is dropped, a gap refetches. *)
OnEvent ==
    /\ wire # <<>>
    /\ wire' = Tail(wire)
    /\ LET e == Head(wire) IN
         IF ~inParty
         THEN /\ missed' = (missed \/ (join.step = "answered"
                                        /\ e.rev > join.rev))
              /\ UNCHANGED <<lastRev, shown, owed, fetch, refetchAgain>>
         ELSE IF Acceptable(e)
         THEN /\ lastRev' = e.rev
              /\ shown' = [shown EXCEPT ![e.facet] = e.rev]
              /\ IF Gap(e)
                   THEN owed' = e.rev /\ missed' = FALSE /\ Refetch
                   ELSE UNCHANGED <<owed, missed, fetch, refetchAgain>>
         ELSE UNCHANGED <<lastRev, shown, owed, missed, fetch, refetchAgain>>
    /\ UNCHANGED <<serverVars, up, join, opened, failed,
                   inParty, needsRejoin, retry, deaf>>

(* A call is lost on the network, wherever it got on the server. *)
CallFails ==
    /\ failed < MaxFail
    /\ failed' = failed + 1
    /\ \/ /\ fetch.step \notin {"idle", "failed"}
          /\ fetch' = [NoCall EXCEPT !.step = "failed"]
          /\ UNCHANGED join
       \/ /\ join.step \notin {"idle", "failed"}
          /\ join' = [NoCall EXCEPT !.step = "failed"]
          /\ UNCHANGED fetch
    /\ UNCHANGED <<serverVars, up, wire, opened,
                   clientVars, refetchAgain, owed, missed, deaf>>

Next ==
    \/ \E f \in Facet : Change(f)
    \/ PatchRow \/ PatchRoom \/ Tick \/ HubCloses
    \/ ServeFetch \/ FetchAnswered \/ FetchFailed
    \/ Enter \/ JoinReads \/ JoinBinds \/ JoinViews \/ Adopt \/ EnterFailed
    \/ Rejoined \/ RejoinFailed \/ RetryFires \/ ActionRefused
    \/ Drop \/ Connect \/ OnEvent \/ CallFails

Spec == Init /\ [][Next]_vars

-----------------------------------------------------------------------------
(* Properties.                                                              *)

(* Every variable holds what its declaration says.                          *)
TypeOK ==
    /\ rev \in Rev /\ at \in [Facet -> Rev] /\ row \in Rev
    /\ {bound, hub, up} \subseteq Conn
    /\ opened \in Conn /\ failed \in 0 .. MaxFail
    /\ wire \in Seq(Event)
    /\ fetch \in Call /\ join \in Call
    /\ lastRev \in Rev /\ shown \in [Facet -> Rev]
    /\ owed \in Rev
    /\ {inParty, refetchAgain, needsRejoin, retry, missed, deaf} \subseteq BOOLEAN

(* Within one session neither the revision nor the playback and the members *)
(* shown ever go back, in whatever order the answers of GET and join, sent  *)
(* before or after an event, arrive (party.service.ts `applySnapshot`).     *)
NothingRollsBack ==
    [][inParty => /\ lastRev' >= lastRev
                  /\ \A f \in Facet \ {"settings"} : shown'[f] >= shown[f]]_vars

(* While the client shows that it must rejoin and its stream is up, a join  *)
(* is under way or its timer runs: whichever calls failed and however often *)
(* the stream dropped meanwhile, the rejoin is never forgotten.             *)
RejoinIsPursued ==
    needsRejoin /\ up # 0 => Busy(join) \/ retry

(* Nothing is under way, and the client shows no lost connection. *)
Quiet ==
    /\ inParty /\ ~needsRejoin /\ ~retry
    /\ up # 0 /\ hub = up /\ wire = <<>>
    /\ ~Busy(fetch) /\ ~Busy(join)

(* A client with nothing under way receives the party's events, unless a    *)
(* reconnection found an older join in flight; the next join repairs that.  *)
HearsUnlessDeaf == Quiet /\ ~deaf => bound = up

(* A client with nothing under way shows the party as the server has it,    *)
(* unless a change was lost in one of the ways `missed` and `deaf` record:  *)
(* events before the first answer, a gap whose snapshots all failed or came *)
(* after newer events, an older row, a rejoin skipped.                      *)
CurrentUnlessMissed ==
    Quiet /\ GateFree /\ ~missed /\ ~deaf => lastRev = rev /\ shown = at

(* "a gap means we missed one, so the snapshot refetch fills it in"         *)
(* (party.service.ts:581): with nothing under way no gap is left.           *)
GapIsFilled == Quiet => owed = 0

=============================================================================
