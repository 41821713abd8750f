--------------------------- MODULE LiveTunersProofs ---------------------------
(***************************************************************************)
(* What holds of the registry of live TV sessions for every number of      *)
(* opens, channels, sources and faults.                                    *)
(*                                                                         *)
(* The invariant has four layers.  `Base`: what runs, what the feed tells  *)
(* and what the host knows was answered by the engine before.  `Capacity`  *)
(* and `Viewers`: the opens that wait and what runs, counted together,     *)
(* stay within the limits.  `Follows`: whatever the registry lacks, or     *)
(* keeps too long, is on its way in the feed or in a resync.               *)
(***************************************************************************)
EXTENDS LiveTuners, TLAPS, SequenceTheorems, FiniteSetTheorems

(***************************************************************************)
(* The first layer: types, and what the engine and the host's requests     *)
(* have to do with each other.                                             *)
(***************************************************************************)

(* An open that the engine has not answered. *)
Early(o) == request[o].step \in {"new", "sent", "cancelled"}

(* The events on their way, without their order. *)
Events == Range(feed)

Told(kind, o) == \E e \in Events : e.kind = kind /\ e.of = o
ResyncComes == \E e \in Events : e.kind = "resync"

(* The types, those of the histories and the resync among them. *)
Types ==
    /\ TypeOK
    /\ limit \in Nat /\ breaks \in Nat /\ failovers \in Nat
    /\ resync \in [step : {"idle", "listed", "applied"},
                   upstream : [Open -> Upstream \cup {None}],
                   watching : [Open -> Open \cup {None}],
                   known : SUBSET Open]

(* A request that was sent names a channel, one that is fed a session. *)
Named ==
    \A o \in Open : /\ request[o].step # "new" => request[o].channel \in Channel
                    /\ request[o].step = "fed" => request[o].token \in Open

(* What runs was answered: a session by its own name, and a viewer watches  *)
(* the session that its open was answered with.                             *)
RunsAnswered ==
    \A o \in Open :
        /\ o \in Live => /\ request[o].step \in {"fed", "done"}
                         /\ request[o].token = o
        /\ o \in Watched => /\ request[o].step \in {"fed", "done"}
                            /\ watching[o] = request[o].token

(* The feed and the list of a resync tell of opens that were answered, and  *)
(* of an end once nothing runs.                                             *)
ToldInTime ==
    /\ \A e \in Events : e.kind # "resync" =>
          /\ ~Early(e.of)
          /\ e.kind = "released" => e.of \notin Live /\ e.of \notin Watched
          /\ e.kind = "ended" => e.of \notin Watched
    /\ \A o \in Open :
          /\ resync.upstream[o] # None => ~Early(o)
          /\ resync.watching[o] # None => ~Early(o) /\ resync.watching[o] = request[o].token

(* The host knows of what the engine answered. *)
KnownInTime ==
    \A o \in Open :
        /\ o \in Known => ~Early(o) /\ viewer[o] = request[o].token
        /\ o \in resync.known \/ o \in lookup => ~Early(o)

Base == Types /\ Named /\ RunsAnswered /\ ToldInTime /\ KnownInTime

(***************************************************************************)
(* The second layer: the limits of the sources.                            *)
(***************************************************************************)

(* A request holds a connection while it waits, pending, and before it is   *)
(* sent, or once it is cut short, it does not.                              *)
HoldsWhileSent ==
    \A o \in Open :
        /\ request[o].step = "sent" => o \in Held /\ hold[o].pending
        /\ request[o].step \in {"new", "cancelled"} => o \notin Held
        /\ request[o].step = "done" /\ o \in Held => ~hold[o].pending

(* A session that did not stray feeds from the source where it is held,     *)
(* which had room when it was opened.                                       *)
FeedsWhereHeld ==
    \A t \in Live \ strayed :
        /\ t \in Held /\ hold[t].source = upstream[t].source
        /\ upstream[t].source \notin request[t].vetoed
        /\ \A e \in Events : e.kind = "ok" /\ e.of = t => e.source = upstream[t].source

(* The opens that a source had room for: those that wait for the engine,    *)
(* and the sessions that did not stray.                                     *)
Counted(s) ==
    {t \in Held : /\ hold[t].source = s /\ s \notin request[t].vetoed
                  /\ request[t].step = "sent" \/ t \in Live \ strayed}

WithinLimits ==
    \A s \in Source : MaxStreams[s] # 0 => Cardinality(Counted(s)) <= MaxStreams[s]

Capacity == HoldsWhileSent /\ FeedsWhereHeld /\ WithinLimits

(***************************************************************************)
(* The third layer: the cap on a user's viewers.                           *)
(***************************************************************************)

(* A viewer that runs is known to the host, or its open still waits for the *)
(* answer; a request that the client gave up is on record.                  *)
ViewersAreTaken ==
    \A v \in Open :
        /\ request[v].step = "fed" /\ v \in Watched => v \in Held /\ hold[v].pending
        /\ request[v].step = "done" /\ v \in Watched \ (left \cup forgotten) => v \in Known
        /\ request[v].step = "cancelled" => v \in left

(* A viewer that the host knew and the list misses has ended. *)
MissedIsOver ==
    resync.step = "listed" =>
        \A v \in resync.known : resync.watching[v] = None => v \notin Watched

Watching == {v \in Open : request[v].step = "sent" \/ v \in Watched \ (left \cup forgotten)}

WithinCap == limit # 0 => Cardinality(Watching) <= limit

Viewers == ViewersAreTaken /\ MissedIsOver /\ WithinCap

(***************************************************************************)
(* The fourth layer: the registry follows the engine.                      *)
(***************************************************************************)

(* A viewer that the host does not know is one it will learn of. *)
UnknownComes ==
    \A v \in Watched \ (left \cup Known) :
        \/ request[v].step = "fed"
        \/ ResyncComes
        \/ resync.step = "listed" /\ resync.watching[v] # None

(* A viewer that ended and is still known is one whose end comes. *)
EndComes ==
    \A v \in Known \ (Watched \cup ghosts \cup left) :
        \/ Told("ended", v)
        \/ ResyncComes
        \/ resync.step = "listed" /\ resync.watching[v] = None /\ v \in resync.known

(* A hold without a session is that of an open, or its release comes. *)
ReleaseComes ==
    \A t \in Held \ (Live \cup stuck) :
        \/ request[t].step \in {"sent", "fed", "refused", "dead"}
        \/ Told("released", t)
        \/ ResyncComes
        \/ resync.step \in {"listed", "applied"} /\ resync.upstream[t] = None

(* A session is held unless it is on record that it is not. *)
SessionsAreHeld ==
    /\ Live \ uncounted \subseteq Held
    /\ uncounted \subseteq Live \ Held
    /\ stuck \cap Live = {}
    /\ \A t \in stuck : ~Early(t)

(* A listed session that is over has its release on the way. *)
ListedIsReleased ==
    resync.step = "listed" =>
        \A t \in Open \ Live :
            resync.upstream[t] # None => Told("released", t) \/ ResyncComes

(* e is the last move told of its session in the events f. *)
LastIn(f, e) ==
    \E i \in DOMAIN f :
        /\ f[i] = e /\ e.kind = "ok"
        /\ \A j \in DOMAIN f : j > i => ~(f[j].kind = "ok" /\ f[j].of = e.of)

(* The last move told of a session is to the source that feeds it. *)
LastMove ==
    \A e \in Events : LastIn(feed, e) /\ e.of \in Live => e.source = upstream[e.of].source

(* A session with no move on its way is held, and listed, where it feeds. *)
MovesAreTold ==
    \A t \in Live \ mislaid : ~Told("ok", t) =>
        /\ t \in Held => hold[t].source = upstream[t].source
        /\ resync.step = "listed" /\ resync.upstream[t] # None
              => resync.upstream[t].source = upstream[t].source

Follows ==
    /\ UnknownComes /\ EndComes /\ ReleaseComes /\ SessionsAreHeld
    /\ ListedIsReleased /\ LastMove /\ MovesAreTold

IInv == Base /\ Capacity /\ Viewers /\ Follows

-----------------------------------------------------------------------------
(* Sequences of events.                                                     *)

(* What an event is. *)
LEMMA EventFacts ==
    ASSUME NEW e \in Event
    PROVE  /\ e.kind \in {"ok", "error", "released", "ended", "resync"}
           /\ e.kind # "resync" => e.of \in Open
           /\ e.kind \in {"ok", "error"} => e.source \in Source
  BY DEF Event

(* The events of two sequences, one after the other. *)
LEMMA RangeConcat ==
    ASSUME NEW S, NEW s \in Seq(S), NEW t \in Seq(S)
    PROVE  /\ s \o t \in Seq(S)
           /\ Range(s \o t) = Range(s) \cup Range(t)
  <1>1. /\ s \o t \in Seq(S) /\ Len(s \o t) = Len(s) + Len(t)
        /\ Len(s) \in Nat /\ Len(t) \in Nat
        /\ DOMAIN s = 1 .. Len(s) /\ DOMAIN t = 1 .. Len(t)
        /\ DOMAIN (s \o t) = 1 .. Len(s) + Len(t)
        /\ \A i \in 1 .. Len(s) + Len(t) :
              (s \o t)[i] = IF i <= Len(s) THEN s[i] ELSE t[i - Len(s)]
    BY ConcatProperties, LenProperties
  <1>2. ASSUME NEW x \in Range(s \o t) PROVE x \in Range(s) \cup Range(t)
    <2>1. PICK i \in 1 .. Len(s) + Len(t) : x = (s \o t)[i]
      BY <1>1 DEF Range
    <2>2. CASE i <= Len(s)
      <3>1. i \in DOMAIN s /\ x = s[i]
        BY <1>1, <2>1, <2>2
      <3> QED
        BY <3>1 DEF Range
    <2>3. CASE ~(i <= Len(s))
      <3>1. i - Len(s) \in DOMAIN t /\ x = t[i - Len(s)]
        BY <1>1, <2>1, <2>3
      <3> QED
        BY <3>1 DEF Range
    <2> QED
      BY <2>2, <2>3
  <1>3. ASSUME NEW x \in Range(s) PROVE x \in Range(s \o t)
    <2>1. PICK i \in DOMAIN s : x = s[i]
      BY DEF Range
    <2>2. i \in DOMAIN (s \o t) /\ (s \o t)[i] = x
      BY <1>1, <2>1
    <2> QED
      BY <2>2 DEF Range
  <1>4. ASSUME NEW x \in Range(t) PROVE x \in Range(s \o t)
    <2>1. PICK i \in DOMAIN t : x = t[i]
      BY DEF Range
    <2>2. i + Len(s) \in DOMAIN (s \o t) /\ (s \o t)[i + Len(s)] = x
      <3>1. i + Len(s) \in 1 .. Len(s) + Len(t) /\ (i + Len(s)) - Len(s) = i
            /\ ~(i + Len(s) <= Len(s))
        BY <1>1
      <3> QED
        BY <1>1, <2>1, <3>1
    <2> QED
      BY <2>2 DEF Range
  <1> QED
    BY <1>1, <1>2, <1>3, <1>4

(* What one event tells, and what two tell. *)
LEMMA RangeOne ==
    ASSUME NEW S, NEW a \in S
    PROVE  <<a>> \in Seq(S) /\ Range(<<a>>) = {a}
  BY DEF Range

LEMMA RangeTwo ==
    ASSUME NEW S, NEW a \in S, NEW b \in S
    PROVE  <<a, b>> \in Seq(S) /\ Range(<<a, b>>) = {a, b}
  <1>1. DOMAIN <<a, b>> = {1, 2}
    OBVIOUS
  <1> QED
    BY <1>1 DEF Range

(* The engine tells the host of events. *)
LEMMA TellEvents ==
    ASSUME feed \in Seq(Event), NEW es \in Seq(Event), Tell(es)
    PROVE  feed' \in Seq(Event) /\ Events' = Events \cup Range(es)
  BY RangeConcat DEF Tell, Events

(* The host takes the first event. *)
LEMMA TailEvents ==
    ASSUME feed \in Seq(Event), feed # <<>>, feed' = Tail(feed)
    PROVE  /\ feed' \in Seq(Event)
           /\ Head(feed) \in Events /\ Head(feed) \in Event
           /\ Events' \subseteq Events
           /\ Events \subseteq Events' \cup {Head(feed)}
  <1>1. /\ Len(feed) \in Nat \ {0} /\ DOMAIN feed = 1 .. Len(feed)
        /\ \A i \in 1 .. Len(feed) : feed[i] \in Event
        /\ Head(feed) = feed[1]
    BY LenProperties, HeadTailProperties, EmptySeq
  <1>2. /\ Tail(feed) \in Seq(Event)
        /\ Len(Tail(feed)) = Len(feed) - 1
        /\ \A i \in 1 .. Len(Tail(feed)) : Tail(feed)[i] = feed[i + 1]
    BY HeadTailProperties
  <1>3. DOMAIN Tail(feed) = 1 .. Len(feed) - 1
    BY <1>1, <1>2, LenProperties
  <1>4. Head(feed) \in Events /\ Head(feed) \in Event
    BY <1>1 DEF Events, Range
  <1>5. ASSUME NEW x \in Events' PROVE x \in Events
    <2>1. PICK i \in DOMAIN Tail(feed) : x = Tail(feed)[i]
      BY DEF Events, Range
    <2>2. i + 1 \in DOMAIN feed /\ x = feed[i + 1]
      BY <1>1, <1>2, <1>3, <2>1
    <2> QED
      BY <2>2 DEF Events, Range
  <1>6. ASSUME NEW x \in Events, x # Head(feed) PROVE x \in Events'
    <2>1. PICK i \in DOMAIN feed : x = feed[i]
      BY DEF Events, Range
    <2>2. i - 1 \in DOMAIN Tail(feed) /\ (i - 1) + 1 = i
      BY <1>1, <1>3, <1>6, <2>1
    <2>3. x = Tail(feed)[i - 1]
      BY <1>2, <1>3, <2>1, <2>2
    <2> QED
      BY <2>2, <2>3 DEF Events, Range
  <1> QED
    BY <1>2, <1>4, <1>5, <1>6

(* The feed breaks. *)
LEMMA BrokenEvents ==
    ASSUME FeedBreaks
    PROVE  feed' \in Seq(Event) /\ Events' = {[kind |-> "resync"]}
  <1>1. [kind |-> "resync"] \in Event
    BY DEF Event
  <1> QED
    BY <1>1, RangeOne DEF FeedBreaks, Events

(* Every member of a finite set is somewhere in the sequence made of it. *)
LEMMA SeqOfSet ==
    ASSUME NEW V, IsFiniteSet(V)
    PROVE  /\ SetToSeq(V) \in Seq(V)
           /\ Range(SetToSeq(V)) = V
  <1>1. Cardinality(V) \in Nat /\ ExistsBijection(1 .. Cardinality(V), V)
    BY FS_CardinalityType
  <1>2. \E f \in [1 .. Cardinality(V) -> V] : IsInjective(f)
    BY <1>1 DEF ExistsBijection, Bijection, Injection
  <1>3. SetToSeq(V) \in [1 .. Cardinality(V) -> V] /\ IsInjective(SetToSeq(V))
    BY <1>2 DEF SetToSeq
  <1>4. SetToSeq(V) \in Surjection(1 .. Cardinality(V), V)
    <2>1. SetToSeq(V) \in Injection(1 .. Cardinality(V), V)
      BY <1>3 DEF Injection
    <2>2. Cardinality(1 .. Cardinality(V)) = Cardinality(V)
      BY <1>1, FS_Interval
    <2> QED
      BY <2>1, <2>2, FS_Injection
  <1> QED
    BY <1>1, <1>3, <1>4 DEF Surjection, Range

(* The ends of a session's viewers. *)
LEMMA EndedEvents ==
    ASSUME NEW V \in SUBSET Open
    PROVE  /\ Ended(SetToSeq(V)) \in Seq(Event)
           /\ Range(Ended(SetToSeq(V))) = {[kind |-> "ended", of |-> v] : v \in V}
  <1> DEFINE s == SetToSeq(V)
  <1>1. IsFiniteSet(V)
    BY TunerAssumption, FS_Subset
  <1>2. s \in Seq(V) /\ Range(s) = V
    BY <1>1, SeqOfSet
  <1>3. DOMAIN s = 1 .. Len(s) /\ Len(s) \in Nat /\ \A i \in DOMAIN s : s[i] \in V
    BY <1>2, LenProperties
  <1> HIDE DEF s
  <1>4. Ended(s) \in Seq(Event)
    BY <1>3 DEF Ended, Event
  <1>5. Range(Ended(s)) = {[kind |-> "ended", of |-> v] : v \in V}
    BY <1>2 DEF Ended, Range
  <1> QED
    BY <1>4, <1>5 DEF s

(* The failures of the streams that an open tries before one feeds. *)
LEMMA FailedEvents ==
    ASSUME Types, NEW o \in Open, NEW c \in Channel, NEW tried \in SUBSET DOMAIN Streams[c],
           NEW f \in InOrder(tried), NEW es,
           es = [j \in DOMAIN f |-> [kind |-> "error", of |-> o,
                                     source |-> Streams[c][f[j]]]]
    PROVE  /\ es \in Seq(Event)
           /\ \A e \in Range(es) : e.kind = "error" /\ e.of = o
  <1>1. Streams[c] \in Seq(Source)
    BY TunerAssumption
  <1>2. DOMAIN Streams[c] = 1 .. Len(Streams[c]) /\ Len(Streams[c]) \in Nat
        /\ \A i \in DOMAIN Streams[c] : Streams[c][i] \in Source
    BY <1>1, LenProperties
  <1>3. Cardinality(tried) \in Nat
    <2>1. IsFiniteSet(1 .. Len(Streams[c]))
      BY <1>2, FS_Interval
    <2>2. IsFiniteSet(tried)
      BY <1>2, <2>1, FS_Subset
    <2> QED
      BY <2>2, FS_CardinalityType
  <1>4. DOMAIN f = 1 .. Cardinality(tried) /\ \A j \in DOMAIN f : f[j] \in tried
    BY DEF InOrder
  <1>5. \A j \in DOMAIN f : [kind |-> "error", of |-> o, source |-> Streams[c][f[j]]] \in Event
    BY <1>2, <1>4 DEF Event
  <1>6. es \in Seq(Event)
    BY <1>3, <1>4, <1>5
  <1>7. \A e \in Range(es) : e.kind = "error" /\ e.of = o
    BY DEF Range
  <1> QED
    BY <1>6, <1>7


-----------------------------------------------------------------------------
(* The first layer.                                                         *)

(* What holds in the initial states. *)
LEMMA InitBase == Init => Base
  <1> SUFFICES ASSUME Init PROVE Base
    OBVIOUS
  <1>1. feed \in Seq(Event) /\ Events = {}
    BY DEF Init, Events, Range
  <1>2. request \in [Open -> Request]
    BY DEF Init, Request
  <1>3. TypeOK
    BY <1>1, <1>2 DEF Init, TypeOK, NoList
  <1>4. Types
    BY <1>3, TunerAssumption DEF Init, Types, NoList
  <1>5. Named /\ RunsAnswered /\ ToldInTime /\ KnownInTime
    BY <1>1 DEF Init, Named, RunsAnswered, ToldInTime, KnownInTime, NoList,
                Early, Live, Watched, Known
  <1> QED
    BY <1>4, <1>5 DEF Base

(* The host's counts of closed connections stay numbers. *)
LEMMA ReleasedTypes ==
    ASSUME Types, NEW t \in Open, Released(t)
    PROVE  /\ hold' \in [Open -> Hold \cup {None}]
           /\ closing' \in [Source -> Nat]
           /\ hold'[t] = None /\ \A u \in Open \ {t} : hold'[u] = hold[u]
  <1>1. CASE t \in Held
    <2>1. hold[t] \in Hold /\ hold[t].source \in Source
      BY <1>1 DEF Types, TypeOK, Held, Hold
    <2>2. /\ hold' = [hold EXCEPT ![t] = None]
          /\ closing' = [closing EXCEPT ![hold[t].source] = @ + 1]
      BY <1>1 DEF Released
    <2>3. closing \in [Source -> Nat] /\ hold \in [Open -> Hold \cup {None}]
      BY DEF Types, TypeOK
    <2>4. closing' \in [Source -> Nat]
      BY <2>1, <2>2, <2>3
    <2> QED
      BY <2>2, <2>3, <2>4
  <1>2. CASE t \notin Held
    BY <1>2 DEF Released, Types, TypeOK, Held
  <1> QED
    BY <1>1, <1>2


(* A request moves on. *)
LEMMA RequestMoves ==
    ASSUME request \in [Open -> Request], NEW o \in Open,
           NEW step \in {"new", "sent", "cancelled", "fed", "refused", "dead", "done"},
           request' = [request EXCEPT ![o].step = step]
    PROVE  /\ request' \in [Open -> Request]
           /\ request'[o].step = step
           /\ request'[o].token = request[o].token
           /\ request'[o].channel = request[o].channel
           /\ request'[o].vetoed = request[o].vetoed
           /\ \A p \in Open \ {o} : request'[p] = request[p]
  <1>1. request[o] \in Request
    OBVIOUS
  <1>2. [request[o] EXCEPT !.step = step] \in Request
    BY <1>1 DEF Request
  <1>3. request'[o] = [request[o] EXCEPT !.step = step]
    OBVIOUS
  <1>4. /\ request'[o].step = step
        /\ request'[o].token = request[o].token
        /\ request'[o].channel = request[o].channel
        /\ request'[o].vetoed = request[o].vetoed
    BY <1>1, <1>3 DEF Request
  <1> QED
    BY <1>2, <1>3, <1>4

(* The answer of the engine: what it leaves of the requests. *)
LEMMA ReplyMoves ==
    ASSUME Types, NEW o \in Open, NEW step \in {"fed", "refused", "dead"},
           NEW t \in Open \cup {None}, Reply(o, step, t)
    PROVE  /\ request' \in [Open -> Request]
           /\ request'[o].step = IF request[o].step = "cancelled" THEN "done" ELSE step
           /\ request'[o].token = t
           /\ request'[o].channel = request[o].channel
           /\ request'[o].vetoed = request[o].vetoed
           /\ \A p \in Open \ {o} : request'[p] = request[p]
  <1> DEFINE next == IF request[o].step = "cancelled" THEN "done" ELSE step
  <1>1. request \in [Open -> Request]
    BY DEF Types, TypeOK
  <1>2. request' = [request EXCEPT ![o].step = next, ![o].token = t]
    BY <1>1 DEF Reply
  <1>3. next \in {"new", "sent", "cancelled", "fed", "refused", "dead", "done"}
    OBVIOUS
  <1> HIDE DEF next
  <1>4. request[o] \in Request
    BY <1>1
  <1>5. request'[o] = [[request[o] EXCEPT !.step = next] EXCEPT !.token = t]
    BY <1>1, <1>2
  <1>6. [[request[o] EXCEPT !.step = next] EXCEPT !.token = t] \in Request
    BY <1>3, <1>4 DEF Request
  <1>7. /\ request'[o].step = next /\ request'[o].token = t
        /\ request'[o].channel = request[o].channel
        /\ request'[o].vetoed = request[o].vetoed
    BY <1>4, <1>5 DEF Request
  <1>8. request' \in [Open -> Request]
    BY <1>1, <1>2, <1>5, <1>6
  <1> QED
    BY <1>1, <1>2, <1>7, <1>8 DEF next


(* What a change of one request leaves. *)
Moves(o, step, token) ==
    /\ request' \in [Open -> Request]
    /\ request'[o].step = step /\ request'[o].token = token
    /\ request'[o].channel = request[o].channel
    /\ request'[o].vetoed = request[o].vetoed
    /\ \A p \in Open \ {o} : request'[p] = request[p]

(* The host opens: what is forgotten, the vetoes and the hold. *)
LEMMA OpenLiveReturns ==
    ASSUME Types, NEW o \in Open, NEW c \in Channel, OpenLive(o, c)
    PROVE  \E vetoed \in SUBSET Source, s \in Source :
             /\ request' = [request EXCEPT ![o] = [step |-> "sent", channel |-> c,
                                                   vetoed |-> vetoed, token |-> None]]
             /\ request' \in [Open -> Request]
             /\ hold' = [hold EXCEPT ![o] = [source |-> s, fed |-> None, pending |-> TRUE]]
             /\ hold' \in [Open -> Hold \cup {None}]
             /\ hold'[o] # None
             /\ closing' \in [Source -> Nat]
             /\ s \in vetoed \/ ~Full(s, closing'[s])
  <1> DEFINE vetoed == {s \in Range(Streams[c]) : Full(s, closing'[s])}
  <1>1. /\ request' = [request EXCEPT ![o] = [step |-> "sent", channel |-> c,
                                              vetoed |-> vetoed, token |-> None]]
        /\ \E i \in DOMAIN Streams[c] :
             hold' = [hold EXCEPT ![o] =
                        [source |-> Streams[c][i], fed |-> None, pending |-> TRUE]]
    BY Zenon DEF OpenLive
  <1>2. PICK i \in DOMAIN Streams[c] :
             hold' = [hold EXCEPT ![o] =
                        [source |-> Streams[c][i], fed |-> None, pending |-> TRUE]]
    BY <1>1
  <1> DEFINE s == Streams[c][i]
  <1>3. Streams[c] \in Seq(Source)
    BY TunerAssumption
  <1>4. s \in Source /\ s \in Range(Streams[c]) /\ vetoed \in SUBSET Source
    <2>1. \A j \in DOMAIN Streams[c] : Streams[c][j] \in Source
      BY <1>3, LenProperties
    <2> QED
      BY <1>2, <2>1 DEF Range
  <1>5. s \in vetoed \/ ~Full(s, closing'[s])
    BY <1>4
  <1> HIDE DEF vetoed, s
  <1>6. [step |-> "sent", channel |-> c, vetoed |-> vetoed, token |-> None] \in Request
    BY <1>4 DEF Request
  <1>7. [source |-> s, fed |-> None, pending |-> TRUE] \in Hold
    BY <1>4 DEF Hold
  <1>8. /\ request \in [Open -> Request] /\ hold \in [Open -> Hold \cup {None}]
        /\ closing \in [Source -> Nat]
    BY DEF Types, TypeOK
  <1>9. closing' \in [Source -> Nat]
    <2>1. closing' \in Pruned({r \in Range(Streams[c]) : MaxStreams[r] # 0})
      BY DEF OpenLive
    <2>2. /\ closing' \in [Source -> UNION {0 .. closing[r] : r \in Source}]
      BY <2>1 DEF Pruned
    <2>3. UNION {0 .. closing[r] : r \in Source} \subseteq Nat
      BY <1>8
    <2> QED
      BY <2>2, <2>3
  <1>10. hold' = [hold EXCEPT ![o] = [source |-> s, fed |-> None, pending |-> TRUE]]
    BY <1>2 DEF s
  <1>11. /\ request' \in [Open -> Request]
         /\ hold' \in [Open -> Hold \cup {None}] /\ hold'[o] # None
    BY <1>1, <1>6, <1>7, <1>8, <1>10, NoneAssumption
  <1> QED
    BY <1>1, <1>4, <1>5, <1>9, <1>10, <1>11

(* The hold once the answer of the engine is in. *)
LEMMA SettleReturns ==
    ASSUME Types, NEW o \in Open, NEW t \in Open \cup {None}, hold' = Settle(o, t)
    PROVE  /\ hold' \in [Open -> Hold \cup {None}]
           /\ \A u \in Open \ {o} : hold'[u] = hold[u]
           /\ t # o \/ o \notin Held => hold'[o] = None
           /\ t = o /\ o \in Held => /\ hold'[o] # None
                                     /\ hold'[o].source = hold[o].source
                                     /\ ~hold'[o].pending
  <1>1. hold \in [Open -> Hold \cup {None}]
    BY DEF Types, TypeOK
  <1>2. CASE t # o \/ o \notin Held
    <2>1. hold' = [hold EXCEPT ![o] = None]
      BY <1>1, <1>2 DEF Settle, Held
    <2> QED
      BY <1>1, <1>2, <2>1
  <1>3. CASE t = o /\ o \in Held
    <2>1. /\ hold' = [hold EXCEPT ![o] = [hold[o] EXCEPT !.pending = FALSE]]
          /\ hold[o] \in Hold
      BY <1>1, <1>3 DEF Settle, Held
    <2> DEFINE h == [hold[o] EXCEPT !.pending = FALSE]
    <2>2. h \in Hold /\ h.source = hold[o].source /\ h.pending = FALSE
      BY <2>1 DEF Hold
    <2> HIDE DEF h
    <2>3. hold' = [hold EXCEPT ![o] = h]
      BY <2>1 DEF h
    <2> QED
      BY <1>1, <1>3, <2>2, <2>3, NoneAssumption
  <1> QED
    BY <1>2, <1>3

(* A stream feeds or failed: the hold of its open. *)
LEMMA AttemptReturns ==
    ASSUME Types, NEW e \in Event, e.kind \in {"ok", "error"}, Attempt(e)
    PROVE  /\ hold' \in [Open -> Hold \cup {None}]
           /\ closing' \in [Source -> Nat]
           /\ \A u \in Open \ {e.of} : hold'[u] = hold[u]
           /\ hold'[e.of] = None <=> hold[e.of] = None
           /\ hold[e.of] # None =>
                /\ hold'[e.of].pending = hold[e.of].pending
                /\ hold'[e.of].source = IF e.kind = "ok" THEN e.source
                                                         ELSE hold[e.of].source
  <1>1. hold \in [Open -> Hold \cup {None}] /\ closing \in [Source -> Nat]
    BY DEF Types, TypeOK
  <1>2. e.of \in Open /\ e.source \in Source
    BY EventFacts
  <1>3. CASE hold[e.of] = None
    <2>1. UNCHANGED <<hold, closing>>
      BY <1>3 DEF Attempt
    <2> QED
      BY <1>1, <1>3, <2>1
  <1>4. ASSUME hold[e.of] # None, NEW h \in Hold, hold' = [hold EXCEPT ![e.of] = h],
               h.pending = hold[e.of].pending,
               h.source = IF e.kind = "ok" THEN e.source ELSE hold[e.of].source
        PROVE  /\ hold' \in [Open -> Hold \cup {None}]
               /\ \A u \in Open \ {e.of} : hold'[u] = hold[u]
               /\ hold'[e.of] = None <=> hold[e.of] = None
               /\ hold[e.of] # None =>
                    /\ hold'[e.of].pending = hold[e.of].pending
                    /\ hold'[e.of].source = IF e.kind = "ok" THEN e.source
                                                             ELSE hold[e.of].source
    <2>1. hold' \in [Open -> Hold \cup {None}] /\ hold'[e.of] = h
          /\ \A u \in Open \ {e.of} : hold'[u] = hold[u]
      BY <1>1, <1>2, <1>4
    <2> QED
      BY <1>4, <2>1, NoneAssumption
  <1>5. CASE hold[e.of] # None /\ e.kind = "ok"
    <2> DEFINE h == MoveHold(hold[e.of], e.source)
    <2>1. hold' = [hold EXCEPT ![e.of] = h] /\ UNCHANGED closing
      BY <1>5 DEF Attempt
    <2>2. hold[e.of] \in Hold
      BY <1>1, <1>2, <1>5
    <2>3. h \in Hold /\ h.pending = hold[e.of].pending /\ h.source = e.source
      BY <1>2, <2>2 DEF MoveHold, Hold
    <2> HIDE DEF h
    <2> QED
      BY <1>1, <1>4, <1>5, <2>1, <2>3
  <1>6. CASE hold[e.of] # None /\ e.kind # "ok" /\ hold[e.of].fed = e.source
    <2> DEFINE h == [hold[e.of] EXCEPT !.fed = None]
    <2>1. /\ hold' = [hold EXCEPT ![e.of] = h]
          /\ closing' = [closing EXCEPT ![e.source] = @ + 1]
      BY <1>1, <1>2, <1>6 DEF Attempt
    <2>2. hold[e.of] \in Hold
      BY <1>1, <1>2, <1>6
    <2>3. h \in Hold /\ h.pending = hold[e.of].pending /\ h.source = hold[e.of].source
      BY <2>2 DEF Hold
    <2> HIDE DEF h
    <2>4. closing' \in [Source -> Nat]
      BY <1>1, <1>2, <2>1
    <2> QED
      BY <1>4, <1>6, <2>1, <2>3, <2>4
  <1>7. CASE hold[e.of] # None /\ e.kind # "ok" /\ hold[e.of].fed # e.source
    <2>1. UNCHANGED <<hold, closing>>
      BY <1>7 DEF Attempt
    <2> QED
      BY <1>1, <1>7, <2>1
  <1> QED
    BY <1>3, <1>5, <1>6, <1>7


(* The engine opens: the failures it tells of, then the stream that feeds. *)
LEMMA EngineOpensReturns ==
    ASSUME Types, Named, NEW o \in Open, NEW s \in Source, EngineOpens(o, s)
    PROVE  /\ Moves(o, IF request[o].step = "cancelled" THEN "done" ELSE "fed", o)
           /\ s \notin request[o].vetoed
           /\ upstream' \in [Open -> Upstream \cup {None}]
           /\ upstream' = [upstream EXCEPT ![o] = [source |-> s,
                                                   channel |-> request[o].channel]]
           /\ upstream'[o] # None /\ upstream'[o].source = s
           /\ failovers' \in Nat
           /\ \E es \in Seq(Event) :
                /\ \A e \in Range(es) : e.kind = "error" /\ e.of = o
                /\ Tell(es \o <<[kind |-> "ok", of |-> o, source |-> s]>>)
  <1> DEFINE c == request[o].channel
             tried == Free(c, request[o].vetoed)
  <1>1. c \in Channel /\ request[o].step \in {"sent", "cancelled"}
    BY DEF EngineOpens, Named
  <1>2. PICK i \in tried :
           LET failed == {j \in tried : j < i}
           IN /\ Streams[c][i] = s
              /\ failed = {} \/ failovers < MaxFailovers
              /\ failovers' = IF failed = {} THEN failovers ELSE failovers + 1
              /\ \E f \in InOrder(failed) :
                   Tell([j \in DOMAIN f |-> [kind |-> "error", of |-> o,
                                            source |-> Streams[c][f[j]]]]
                          \o <<[kind |-> "ok", of |-> o, source |-> s]>>)
    BY Zenon DEF EngineOpens
  <1> DEFINE failed == {j \in tried : j < i}
  <1>3. PICK f \in InOrder(failed) :
           Tell([j \in DOMAIN f |-> [kind |-> "error", of |-> o,
                                    source |-> Streams[c][f[j]]]]
                  \o <<[kind |-> "ok", of |-> o, source |-> s]>>)
    BY <1>2
  <1>4. failed \in SUBSET DOMAIN Streams[c]
    BY DEF Free
  <1>5. s \notin request[o].vetoed
    BY <1>2 DEF Free
  <1>6. failovers' \in Nat
    BY <1>2 DEF Types
  <1>15. PICK es : es = [j \in DOMAIN f |-> [kind |-> "error", of |-> o,
                                             source |-> Streams[c][f[j]]]]
    OBVIOUS
  <1>7. es \in Seq(Event) /\ \A e \in Range(es) : e.kind = "error" /\ e.of = o
    <2>1. PICK ch, fs : ch = c /\ fs = failed
      OBVIOUS
    <2>2. /\ ch \in Channel /\ fs \in SUBSET DOMAIN Streams[ch] /\ f \in InOrder(fs)
          /\ es = [j \in DOMAIN f |-> [kind |-> "error", of |-> o,
                                       source |-> Streams[ch][f[j]]]]
      BY <1>1, <1>3, <1>4, <1>15, <2>1
    <2> QED
      BY <2>2, FailedEvents
  <1>8. Tell(es \o <<[kind |-> "ok", of |-> o, source |-> s]>>)
    BY <1>3, <1>15
  <1>9. /\ Reply(o, "fed", o)
        /\ upstream' = [upstream EXCEPT ![o] = [source |-> s, channel |-> c]]
    BY DEF EngineOpens
  <1> HIDE DEF c
  <1>10. [source |-> s, channel |-> c] \in Upstream
    BY <1>1 DEF Upstream
  <1>11. upstream \in [Open -> Upstream \cup {None}]
    BY DEF Types, TypeOK
  <1>12. /\ upstream' \in [Open -> Upstream \cup {None}]
         /\ upstream'[o] # None /\ upstream'[o].source = s
    BY <1>9, <1>10, <1>11, NoneAssumption
  <1>13. Moves(o, IF request[o].step = "cancelled" THEN "done" ELSE "fed", o)
    BY <1>9, ReplyMoves DEF Moves
  <1>14. upstream' = [upstream EXCEPT ![o] = [source |-> s, channel |-> request[o].channel]]
    BY <1>9 DEF c
  <1> QED
    BY <1>5, <1>6, <1>7, <1>8, <1>12, <1>13, <1>14

(* A restart of the engine or of the host: the requests. *)
LEMMA RestartMoves ==
    ASSUME Types,
           NEW next \in [Open -> {"new", "sent", "cancelled", "fed", "refused", "dead", "done"}],
           request' = [o \in Open |-> [request[o] EXCEPT !.step = next[o]]]
    PROVE  /\ request' \in [Open -> Request]
           /\ \A o \in Open : /\ request'[o].step = next[o]
                              /\ request'[o].token = request[o].token
                              /\ request'[o].channel = request[o].channel
                              /\ request'[o].vetoed = request[o].vetoed
  <1> SUFFICES ASSUME NEW o \in Open
               PROVE  /\ [request[o] EXCEPT !.step = next[o]] \in Request
                      /\ [request[o] EXCEPT !.step = next[o]].step = next[o]
                      /\ [request[o] EXCEPT !.step = next[o]].token = request[o].token
                      /\ [request[o] EXCEPT !.step = next[o]].channel = request[o].channel
                      /\ [request[o] EXCEPT !.step = next[o]].vetoed = request[o].vetoed
    OBVIOUS
  <1>1. request[o] \in Request
    BY DEF Types, TypeOK
  <1> QED
    BY <1>1 DEF Request

LEMMA EngineRestartsReturns ==
    ASSUME Types, EngineRestarts
    PROVE  /\ request' \in [Open -> Request]
           /\ \A o \in Open :
                /\ request'[o].step = CASE request[o].step \in {"sent", "fed"} -> "refused"
                                        [] request[o].step = "cancelled" -> "done"
                                        [] OTHER -> request[o].step
                /\ request'[o].token = request[o].token
                /\ request'[o].channel = request[o].channel
                /\ request'[o].vetoed = request[o].vetoed
           /\ upstream' = [t \in Open |-> None] /\ watching' = [v \in Open |-> None]
           /\ strayed' = {} /\ uncounted' = {} /\ mislaid' = {}
  <1> DEFINE next == [o \in Open |-> CASE request[o].step \in {"sent", "fed"} -> "refused"
                          [] request[o].step = "cancelled" -> "done"
                          [] OTHER -> request[o].step]
  <1>1. \A o \in Open : request[o].step \in {"new", "sent", "cancelled", "fed", "refused",
                                             "dead", "done"}
    BY DEF Types, TypeOK, Request
  <1>2. next \in [Open -> {"new", "sent", "cancelled", "fed", "refused", "dead", "done"}]
    BY <1>1
  <1>3. request' = [o \in Open |-> [request[o] EXCEPT !.step = next[o]]]
    BY DEF EngineRestarts, Types, TypeOK, Request
  <1>4. /\ upstream' = [t \in Open |-> None] /\ watching' = [v \in Open |-> None]
        /\ strayed' = {} /\ uncounted' = {} /\ mislaid' = {}
    BY DEF EngineRestarts, Ends, Types, TypeOK
  <1>5. /\ request' \in [Open -> Request]
        /\ \A o \in Open : /\ request'[o].step = next[o]
                           /\ request'[o].token = request[o].token
                           /\ request'[o].channel = request[o].channel
                           /\ request'[o].vetoed = request[o].vetoed
    <2> HIDE DEF next
    <2> QED
      BY <1>2, <1>3, RestartMoves
  <1> QED
    BY <1>4, <1>5

LEMMA HostRestartsReturns ==
    ASSUME Types, HostRestarts
    PROVE  /\ request' \in [Open -> Request]
           /\ \A o \in Open :
                /\ request'[o].step = IF request[o].step = "sent" THEN "cancelled"
                                      ELSE IF request[o].step = "new" THEN "new"
                                      ELSE IF request[o].step = "cancelled" THEN "cancelled"
                                      ELSE "done"
                /\ request'[o].token = request[o].token
                /\ request'[o].channel = request[o].channel
                /\ request'[o].vetoed = request[o].vetoed
           /\ left' = left \cup {o \in Open : request[o].step
                                                \in {"sent", "fed", "refused", "dead"}}
  <1> DEFINE next == [o \in Open |-> IF request[o].step = "sent" THEN "cancelled"
                        ELSE IF request[o].step = "new" THEN "new"
                        ELSE IF request[o].step = "cancelled" THEN "cancelled"
                        ELSE "done"]
             cut == {o \in Open : request[o].step \in {"sent", "fed", "refused", "dead"}}
  <1>1. next \in [Open -> {"new", "sent", "cancelled", "fed", "refused", "dead", "done"}]
    OBVIOUS
  <1>2. \A o \in Open : request[o].step \in {"new", "sent", "cancelled", "fed", "refused",
                                             "dead", "done"}
    BY DEF Types, TypeOK, Request
  <1>3. /\ request' = [o \in Open |->
                [request[o] EXCEPT !.step =
                    IF request[o].step = "sent" THEN "cancelled"
                    ELSE IF o \in cut THEN "done" ELSE request[o].step]]
        /\ left' = left \cup cut
    BY DEF HostRestarts, Types, TypeOK, Request
  <1>4. \A o \in Open : next[o] = IF request[o].step = "sent" THEN "cancelled"
                                  ELSE IF o \in cut THEN "done" ELSE request[o].step
    BY <1>2
  <1>5. request' = [o \in Open |-> [request[o] EXCEPT !.step = next[o]]]
    <2> HIDE DEF next, cut
    <2> QED
      BY <1>3, <1>4
  <1>6. /\ request' \in [Open -> Request]
        /\ \A o \in Open : /\ request'[o].step = next[o]
                           /\ request'[o].token = request[o].token
                           /\ request'[o].channel = request[o].channel
                           /\ request'[o].vetoed = request[o].vetoed
    <2> HIDE DEF next
    <2> QED
      BY <1>1, <1>5, RestartMoves
  <1> QED
    BY <1>3, <1>6


(* A session moves to another stream. *)
LEMMA FailsOverReturns ==
    ASSUME Types, NEW t \in Open, NEW s \in Source, FailsOver(t, s)
    PROVE  /\ upstream' \in [Open -> Upstream \cup {None}]
           /\ upstream'[t] # None /\ upstream'[t].source = s
           /\ \A u \in Open \ {t} : upstream'[u] = upstream[u]
           /\ failovers' \in Nat
           /\ \E r \in Source :
                /\ Tell(<<[kind |-> "error", of |-> t, source |-> r],
                          [kind |-> "ok", of |-> t, source |-> s]>>)
                /\ <<[kind |-> "error", of |-> t, source |-> r],
                     [kind |-> "ok", of |-> t, source |-> s]>> \in Seq(Event)
  <1>1. upstream \in [Open -> Upstream \cup {None}] /\ failovers \in Nat
    BY DEF Types, TypeOK
  <1>2. upstream[t] \in Upstream
    BY <1>1 DEF FailsOver, Live
  <1>3. /\ [upstream[t] EXCEPT !.source = s] \in Upstream
        /\ [upstream[t] EXCEPT !.source = s].source = s
        /\ upstream[t].source \in Source
    BY <1>2 DEF Upstream
  <1>4. /\ upstream' = [upstream EXCEPT ![t].source = s]
        /\ failovers' = failovers + 1
        /\ Tell(<<[kind |-> "error", of |-> t, source |-> upstream[t].source],
                  [kind |-> "ok", of |-> t, source |-> s]>>)
    BY DEF FailsOver
  <1>5. /\ upstream' \in [Open -> Upstream \cup {None}]
        /\ upstream'[t] # None /\ upstream'[t].source = s
        /\ \A u \in Open \ {t} : upstream'[u] = upstream[u]
    <2>1. PICK h : h = [upstream[t] EXCEPT !.source = s]
      OBVIOUS
    <2>2. upstream' = [upstream EXCEPT ![t] = h]
      BY <1>4, <2>1
    <2> QED
      BY <1>1, <1>3, <2>1, <2>2, NoneAssumption
  <1>6. /\ [kind |-> "error", of |-> t, source |-> upstream[t].source] \in Event
        /\ [kind |-> "ok", of |-> t, source |-> s] \in Event
    BY <1>3 DEF Event
  <1> QED
    BY <1>1, <1>3, <1>4, <1>5, <1>6

(* A session dies: what is told of it and of its viewers. *)
LEMMA DiesReturns ==
    ASSUME Types, NEW t \in Open, Dies(t)
    PROVE  /\ upstream' \in [Open -> Upstream \cup {None}]
           /\ upstream'[t] = None /\ \A u \in Open \ {t} : upstream'[u] = upstream[u]
           /\ watching' \in [Open -> Open \cup {None}]
           /\ \A v \in Open : watching'[v] = IF watching[v] = t THEN None ELSE watching[v]
           /\ \E es \in Seq(Event) :
                /\ Tell(es)
                /\ [kind |-> "released", of |-> t] \in Range(es)
                /\ \A v \in Open : watching[v] = t => [kind |-> "ended", of |-> v] \in Range(es)
                /\ \A e \in Range(es) :
                     \/ e.kind = "error" /\ e.of = t
                     \/ e = [kind |-> "released", of |-> t]
                     \/ e.kind = "ended" /\ e.of \in Open /\ watching[e.of] = t
  <1> DEFINE gone == {v \in Open : watching[v] = t}
             err == <<[kind |-> "error", of |-> t, source |-> upstream[t].source]>>
             rel == <<[kind |-> "released", of |-> t]>>
             ends == Ended(SetToSeq(gone))
             es == err \o ends \o rel
  <1>1. upstream[t] \in Upstream /\ upstream \in [Open -> Upstream \cup {None}]
        /\ watching \in [Open -> Open \cup {None}]
    BY DEF Types, TypeOK, Dies, Live
  <1>2. Tell(es)
    BY DEF Dies
  <1>3. err \in Seq(Event) /\ Range(err) = {[kind |-> "error", of |-> t, source |-> upstream[t].source]}
    <2>1. [kind |-> "error", of |-> t, source |-> upstream[t].source] \in Event
      BY <1>1 DEF Event, Upstream
    <2> QED
      BY <2>1, RangeOne
  <1>4. rel \in Seq(Event) /\ Range(rel) = {[kind |-> "released", of |-> t]}
    <2>1. [kind |-> "released", of |-> t] \in Event
      BY DEF Event
    <2> QED
      BY <2>1, RangeOne
  <1>5. ends \in Seq(Event) /\ Range(ends) = {[kind |-> "ended", of |-> v] : v \in gone}
    BY EndedEvents
  <1> HIDE DEF err, rel, ends
  <1>6. err \o ends \in Seq(Event) /\ Range(err \o ends) = Range(err) \cup Range(ends)
    BY <1>3, <1>5, RangeConcat
  <1>7. es \in Seq(Event) /\ Range(es) = Range(err \o ends) \cup Range(rel)
    <2>1. PICK a : a = err \o ends
      OBVIOUS
    <2>2. a \in Seq(Event)
      BY <1>6, <2>1
    <2>3. a \o rel \in Seq(Event) /\ Range(a \o rel) = Range(a) \cup Range(rel)
      BY <1>4, <2>2, RangeConcat
    <2> QED
      BY <2>1, <2>3
  <1> HIDE DEF es
  <1>8. /\ [kind |-> "released", of |-> t] \in Range(es)
        /\ \A v \in Open : watching[v] = t => [kind |-> "ended", of |-> v] \in Range(es)
    BY <1>4, <1>5, <1>6, <1>7
  <1>9. ASSUME NEW e \in Range(es)
        PROVE  \/ e.kind = "error" /\ e.of = t
               \/ e = [kind |-> "released", of |-> t]
               \/ e.kind = "ended" /\ e.of \in Open /\ watching[e.of] = t
    BY <1>3, <1>4, <1>5, <1>6, <1>7
  <1>10. /\ upstream' \in [Open -> Upstream \cup {None}]
         /\ upstream'[t] = None /\ \A u \in Open \ {t} : upstream'[u] = upstream[u]
         /\ watching' \in [Open -> Open \cup {None}]
         /\ \A v \in Open : watching'[v] = IF watching[v] = t THEN None ELSE watching[v]
    BY <1>1 DEF Dies, Ends
  <1> QED
    BY <1>2, <1>7, <1>8, <1>9, <1>10

(* The list of a resync: the holds it restores and the viewers it enters. *)
LEMMA ResyncAppliesReturns ==
    ASSUME Types, ResyncApplies
    PROVE  /\ resync.step = "listed" /\ resync'.step = "applied"
           /\ resync' \in [step : {"idle", "listed", "applied"},
                           upstream : [Open -> Upstream \cup {None}],
                           watching : [Open -> Open \cup {None}],
                           known : SUBSET Open]
           /\ resync'.upstream = resync.upstream /\ resync'.known = {}
           /\ \A v \in Open : resync'.watching[v] = None
           /\ hold' \in [Open -> Hold \cup {None}]
           /\ \A t \in Open :
                /\ hold[t] # None \/ resync.upstream[t] = None => hold'[t] = hold[t]
                /\ hold'[t] # hold[t] =>
                     /\ hold'[t] # None /\ ~hold'[t].pending
                     /\ hold'[t].source = resync.upstream[t].source
                /\ t \in uncounted' <=>
                     t \in uncounted /\ (resync.upstream[t] = None \/ hold'[t] = None)
           /\ viewer' \in [Open -> Open \cup {None}]
           /\ \A v \in Open : viewer'[v] = FollowList(v)
  <1>1. /\ hold \in [Open -> Hold \cup {None}] /\ viewer \in [Open -> Open \cup {None}]
        /\ resync.step \in {"idle", "listed", "applied"}
        /\ resync.upstream \in [Open -> Upstream \cup {None}]
        /\ resync.watching \in [Open -> Open \cup {None}]
    BY DEF Types, TypeOK
  <1>2. /\ resync.step = "listed" /\ resync'.step = "applied"
        /\ resync' \in [step : {"idle", "listed", "applied"},
                        upstream : [Open -> Upstream \cup {None}],
                        watching : [Open -> Open \cup {None}],
                        known : SUBSET Open]
        /\ resync'.upstream = resync.upstream /\ resync'.known = {}
        /\ \A v \in Open : resync'.watching[v] = None
    BY <1>1 DEF ResyncApplies, NoList
  <1>3. viewer' \in [Open -> Open \cup {None}] /\ \A v \in Open : viewer'[v] = FollowList(v)
    BY <1>1 DEF ResyncApplies, FollowList
  <1>4. PICK skipped \in SUBSET Unheld :
              /\ hold' = [t \in Open |->
                            IF t \notin Unheld \ skipped THEN hold[t]
                            ELSE [source |-> resync.upstream[t].source,
                                  fed |-> resync.upstream[t].source,
                                  pending |-> FALSE]]
              /\ uncounted' = {t \in uncounted : resync.upstream[t] = None \/ t \in skipped}
    BY DEF ResyncApplies
  <1>5. ASSUME NEW t \in Open
        PROVE  /\ hold'[t] \in Hold \cup {None}
               /\ hold[t] # None \/ resync.upstream[t] = None => hold'[t] = hold[t]
               /\ hold'[t] # hold[t] =>
                    /\ hold'[t] # None /\ ~hold'[t].pending
                    /\ hold'[t].source = resync.upstream[t].source
               /\ t \in uncounted' <=>
                    t \in uncounted /\ (resync.upstream[t] = None \/ hold'[t] = None)
    <2>1. CASE t \notin Unheld \ skipped
      <3>1. hold'[t] = hold[t]
        BY <1>4, <2>1
      <3>2. t \in skipped => hold[t] = None
        BY <1>4 DEF Unheld
      <3>3. resync.upstream[t] # None /\ hold[t] = None => t \in skipped
        BY <2>1 DEF Unheld
      <3> QED
        BY <1>1, <1>4, <3>1, <3>2, <3>3
    <2>2. CASE t \in Unheld \ skipped
      <3>0. hold[t] = None /\ resync.upstream[t] # None
        BY <2>2 DEF Unheld
      <3>1. hold'[t] = [source |-> resync.upstream[t].source,
                        fed |-> resync.upstream[t].source, pending |-> FALSE]
        BY <1>4, <2>2
      <3>2. resync.upstream[t].source \in Source
        BY <1>1, <3>0 DEF Upstream
      <3>3. hold'[t] \in Hold
        BY <3>1, <3>2 DEF Hold
      <3>4. hold'[t].pending = FALSE /\ hold'[t].source = resync.upstream[t].source
        BY <3>1
      <3>5. hold'[t] # None /\ t \notin uncounted'
        BY <1>4, <2>2, <3>0, <3>3, NoneAssumption
      <3> QED
        BY <3>0, <3>3, <3>4, <3>5
    <2> QED
      BY <2>1, <2>2
  <1>6. hold' \in [Open -> Hold \cup {None}]
    <2>1. DOMAIN hold' = Open /\ hold' = [t \in Open |-> hold'[t]]
      BY <1>4
    <2> QED
      BY <1>5, <2>1
  <1> QED
    BY <1>2, <1>3, <1>5, <1>6

(* The end of a resync: the holds that its list misses go. *)
LEMMA ResyncEndsReturns ==
    ASSUME Types, ResyncEnds
    PROVE  LET gone == {t \in Held : resync.upstream[t] = None /\ ~hold[t].pending}
           IN  /\ resync.step = "applied" /\ resync' = NoList
               /\ hold' \in [Open -> Hold \cup {None}]
               /\ \A t \in Open : hold'[t] = IF t \in gone THEN None ELSE hold[t]
               /\ closing' \in [Source -> Nat]
               /\ strayed' = strayed \cup (gone \cap Live)
               /\ uncounted' = uncounted \cup (gone \cap Live)
               /\ stuck' = stuck \ gone
  <1> DEFINE gone == {t \in Held : resync.upstream[t] = None /\ ~hold[t].pending}
  <1>1. /\ hold \in [Open -> Hold \cup {None}] /\ closing \in [Source -> Nat]
    BY DEF Types, TypeOK
  <1>2. ASSUME NEW s \in Source PROVE Cardinality(gone \cap HoldsOn(s)) \in Nat
    <2>1. IsFiniteSet(gone \cap HoldsOn(s))
      BY TunerAssumption, FS_Subset DEF Held
    <2> QED
      BY <2>1, FS_CardinalityType
  <1>3. /\ closing' = [s \in Source |-> closing[s] + Cardinality(gone \cap HoldsOn(s))]
        /\ hold' = [t \in Open |-> IF t \in gone THEN None ELSE hold[t]]
        /\ strayed' = strayed \cup (gone \cap Live)
        /\ uncounted' = uncounted \cup (gone \cap Live)
        /\ stuck' = stuck \ gone
        /\ resync.step = "applied" /\ resync' = NoList
    BY DEF ResyncEnds, LosesHold
  <1> HIDE DEF gone
  <1>4. closing' \in [Source -> Nat] /\ hold' \in [Open -> Hold \cup {None}]
        /\ \A t \in Open : hold'[t] = IF t \in gone THEN None ELSE hold[t]
    BY <1>1, <1>2, <1>3
  <1> QED
    BY <1>3, <1>4 DEF gone


(* Every step keeps the types. *)
LEMMA StepTypes == ASSUME Types, Named, [Next]_vars PROVE Types'
  <1> USE DEF hostVars, engineVars, history
  <1>1. ASSUME NEW o \in Open, NEW c \in Channel, OpenLive(o, c), UNCHANGED limit
        PROVE  Types'
    <2>1. /\ request' \in [Open -> Request] /\ hold' \in [Open -> Hold \cup {None}]
          /\ closing' \in [Source -> Nat]
      BY <1>1, OpenLiveReturns
    <2> QED
      BY <1>1, <2>1 DEF Types, TypeOK, OpenLive
  <1>2. ASSUME NEW o \in Open, Answered(o), UNCHANGED limit PROVE Types'
    <2>1. request[o].token \in Open
      BY <1>2 DEF Answered, Named
    <2>2. hold' \in [Open -> Hold \cup {None}]
      BY <1>2, <2>1, SettleReturns DEF Answered
    <2>3. request' \in [Open -> Request]
      BY <1>2, RequestMoves DEF Answered, Types, TypeOK
    <2> QED
      BY <1>2, <2>1, <2>2, <2>3 DEF Types, TypeOK, Answered
  <1>3. ASSUME NEW o \in Open, Refused(o), UNCHANGED limit PROVE Types'
    <2>1. request' \in [Open -> Request]
      BY <1>3, RequestMoves DEF Refused, Types, TypeOK
    <2>2. hold' \in [Open -> Hold \cup {None}] /\ closing' \in [Source -> Nat]
      <3>1. CASE request[o].step = "dead"
        BY <1>3, <3>1, ReleasedTypes DEF Refused
      <3>2. CASE request[o].step # "dead"
        BY <1>3, <3>2 DEF Refused, Types, TypeOK
      <3> QED
        BY <3>1, <3>2
    <2> QED
      BY <1>3, <2>1, <2>2 DEF Types, TypeOK, Refused
  <1>4. ASSUME NEW o \in Open, Cancel(o), UNCHANGED limit PROVE Types'
    <2>1. request' = [request EXCEPT ![o].step =
                        IF request[o].step = "sent" THEN "cancelled" ELSE "done"]
      BY <1>4 DEF Cancel, Types, TypeOK
    <2>2. request' \in [Open -> Request]
      <3>1. PICK n : n = IF request[o].step = "sent" THEN "cancelled" ELSE "done"
        OBVIOUS
      <3> QED
        BY <2>1, <3>1, RequestMoves DEF Types, TypeOK
    <2> QED
      BY <1>4, <2>2 DEF Types, TypeOK, Cancel, LosesHold
  <1>5. ASSUME NEW o \in Open, NEW t \in Open, EngineJoins(o, t), UNCHANGED limit
        PROVE  Types'
    <2>1. request' \in [Open -> Request]
      BY <1>5, ReplyMoves DEF EngineJoins
    <2> QED
      BY <1>5, <2>1 DEF Types, TypeOK, EngineJoins
  <1>6. ASSUME NEW o \in Open, NEW s \in Source, EngineOpens(o, s), UNCHANGED limit
        PROVE  Types'
    <2>1. /\ Moves(o, IF request[o].step = "cancelled" THEN "done" ELSE "fed", o)
          /\ upstream' \in [Open -> Upstream \cup {None}]
          /\ failovers' \in Nat
          /\ \E es \in Seq(Event) :
                /\ \A e \in Range(es) : e.kind = "error" /\ e.of = o
                /\ Tell(es \o <<[kind |-> "ok", of |-> o, source |-> s]>>)
      BY <1>6, EngineOpensReturns
    <2>2. PICK es \in Seq(Event) : Tell(es \o <<[kind |-> "ok", of |-> o, source |-> s]>>)
      BY <2>1
    <2>3. feed' \in Seq(Event)
      <3>1. [kind |-> "ok", of |-> o, source |-> s] \in Event
        BY DEF Event
      <3>2. <<[kind |-> "ok", of |-> o, source |-> s]>> \in Seq(Event)
        BY <3>1
      <3>3. es \o <<[kind |-> "ok", of |-> o, source |-> s]>> \in Seq(Event)
        BY <3>2, ConcatProperties
      <3> QED
        BY <2>2, <3>3, TellEvents DEF Types, TypeOK
    <2> QED
      BY <1>6, <2>1, <2>3 DEF Types, TypeOK, EngineOpens, Moves, Stray
  <1>7. ASSUME NEW o \in Open, EngineRefuses(o), UNCHANGED limit PROVE Types'
    <2>1. PICK n \in {"fed", "refused", "dead"} : Reply(o, n, None)
      BY <1>7 DEF EngineRefuses
    <2>2. request' \in [Open -> Request]
      BY <2>1, ReplyMoves
    <2>3. failovers' \in Nat
      BY <1>7 DEF EngineRefuses, Types
    <2> QED
      BY <1>7, <2>2, <2>3 DEF Types, TypeOK, EngineRefuses
  <1>8. ASSUME NEW t \in Open, NEW s \in Source, FailsOver(t, s), UNCHANGED limit
        PROVE  Types'
    <2>1. upstream' \in [Open -> Upstream \cup {None}] /\ failovers' \in Nat
      BY <1>8, FailsOverReturns
    <2>2. feed' \in Seq(Event)
      BY <1>8, FailsOverReturns, TellEvents DEF Types, TypeOK
    <2> QED
      BY <1>8, <2>1, <2>2 DEF Types, TypeOK, FailsOver
  <1>9. ASSUME NEW t \in Open, Dies(t), UNCHANGED limit PROVE Types'
    <2>1. /\ upstream' \in [Open -> Upstream \cup {None}]
          /\ watching' \in [Open -> Open \cup {None}]
          /\ \E es \in Seq(Event) : Tell(es)
      BY <1>9, DiesReturns
    <2>2. feed' \in Seq(Event)
      BY <2>1, TellEvents DEF Types, TypeOK
    <2>3. failovers' \in Nat
      BY <1>9 DEF Dies, Types
    <2> QED
      BY <1>9, <2>1, <2>2, <2>3 DEF Types, TypeOK, Dies, Ends
  <1>10. ASSUME NEW t \in Open, UpstreamIdles(t), UNCHANGED limit PROVE Types'
    <2>1. [kind |-> "released", of |-> t] \in Event
      BY DEF Event
    <2>2. feed' \in Seq(Event)
      BY <1>10, <2>1, RangeOne, TellEvents DEF Types, TypeOK, UpstreamIdles
    <2>3. upstream' \in [Open -> Upstream \cup {None}]
      BY <1>10 DEF Types, TypeOK, UpstreamIdles, Ends
    <2> QED
      BY <1>10, <2>2, <2>3 DEF Types, TypeOK, UpstreamIdles, Ends
  <1>11. ASSUME NEW v \in Open, ViewerIdles(v), UNCHANGED limit PROVE Types'
    <2>1. [kind |-> "ended", of |-> v] \in Event
      BY DEF Event
    <2>2. feed' \in Seq(Event)
      BY <1>11, <2>1, RangeOne, TellEvents DEF Types, TypeOK, ViewerIdles
    <2> QED
      BY <1>11, <2>2 DEF Types, TypeOK, ViewerIdles
  <1>12. ASSUME NEW v \in Open, Leave(v), UNCHANGED limit PROVE Types'
    <2>1. [kind |-> "ended", of |-> v] \in Event
      BY DEF Event
    <2>2. PICK es : /\ es = IF v \in Watched THEN <<[kind |-> "ended", of |-> v]>> ELSE <<>>
                    /\ Tell(es)
      BY <1>12 DEF Leave
    <2>3. es \in Seq(Event)
      BY <2>1, <2>2, RangeOne
    <2>4. feed' \in Seq(Event)
      BY <2>2, <2>3, TellEvents DEF Types, TypeOK
    <2> QED
      BY <1>12, <2>4 DEF Types, TypeOK, Leave
  <1>13. ASSUME NEW v \in Open, LooksUp(v), UNCHANGED limit PROVE Types'
    BY <1>13 DEF Types, TypeOK, LooksUp
  <1>14. ASSUME NEW v \in Open, Enters(v), UNCHANGED limit PROVE Types'
    <2>1. request[v].token \in Open \cup {None}
      BY DEF Types, TypeOK, Request
    <2> QED
      BY <1>14, <2>1 DEF Types, TypeOK, Enters, Watched
  <1>15. CASE LosesFeed /\ UNCHANGED limit
    <2>1. feed' \in Seq(Event)
      BY <1>15, BrokenEvents DEF LosesFeed
    <2> QED
      BY <1>15, <2>1 DEF Types, TypeOK, LosesFeed, FeedBreaks, Mislays, Live
  <1>16. CASE EngineRestarts /\ UNCHANGED limit
    <2>1. feed' \in Seq(Event)
      BY <1>16, BrokenEvents DEF EngineRestarts
    <2>2. /\ request' \in [Open -> Request]
          /\ upstream' = [t \in Open |-> None] /\ watching' = [v \in Open |-> None]
          /\ strayed' = {} /\ uncounted' = {} /\ mislaid' = {}
      BY <1>16, EngineRestartsReturns
    <2> QED
      BY <1>16, <2>1, <2>2 DEF Types, TypeOK, EngineRestarts, FeedBreaks
  <1>17. CASE HostRestarts /\ UNCHANGED limit
    <2>1. feed' \in Seq(Event)
      BY <1>17, BrokenEvents DEF HostRestarts
    <2>2. request' \in [Open -> Request]
          /\ left' = left \cup {o \in Open : request[o].step
                                               \in {"sent", "fed", "refused", "dead"}}
      BY <1>17, HostRestartsReturns
    <2> QED
      BY <1>17, <2>1, <2>2 DEF Types, TypeOK, HostRestarts, FeedBreaks, LosesHold,
                               NoList, Live, Watched
  <1>18. CASE OnEvent /\ UNCHANGED limit
    <2>1. feed' \in Seq(Event) /\ Head(feed) \in Event
      BY <1>18, TailEvents DEF Types, TypeOK, OnEvent
    <2>2. PICK e : e = Head(feed)
      OBVIOUS
    <2>3. CASE e.kind \in {"ok", "error"} /\ Attempt(e) /\ UNCHANGED <<viewer, resync>>
      <3>1. hold' \in [Open -> Hold \cup {None}] /\ closing' \in [Source -> Nat]
        BY <2>1, <2>2, <2>3, AttemptReturns
      <3> QED
        BY <1>18, <2>1, <2>3, <3>1 DEF Types, TypeOK, OnEvent
    <2>4. CASE e.kind = "released" /\ Released(e.of) /\ UNCHANGED <<viewer, resync>>
      <3>1. e.of \in Open
        BY <2>1, <2>2, <2>4, EventFacts
      <3>2. hold' \in [Open -> Hold \cup {None}] /\ closing' \in [Source -> Nat]
        BY <2>4, <3>1, ReleasedTypes
      <3> QED
        BY <1>18, <2>1, <2>4, <3>2 DEF Types, TypeOK, OnEvent
    <2>5. CASE e.kind = "ended" /\ viewer' = [viewer EXCEPT ![e.of] = None]
               /\ UNCHANGED <<hold, closing, resync>>
      BY <1>18, <2>1, <2>5 DEF Types, TypeOK, OnEvent
    <2>6. CASE /\ resync' = [step |-> "listed", upstream |-> upstream,
                             watching |-> watching, known |-> Known \cup lookup]
               /\ UNCHANGED <<hold, viewer, closing>>
      BY <1>18, <2>1, <2>6 DEF Types, TypeOK, OnEvent, Known
    <2> QED
      BY <1>18, <2>2, <2>3, <2>4, <2>5, <2>6 DEF OnEvent
  <1>19. CASE ResyncApplies /\ UNCHANGED limit
    <2>1. /\ resync' \in [step : {"idle", "listed", "applied"},
                          upstream : [Open -> Upstream \cup {None}],
                          watching : [Open -> Open \cup {None}],
                          known : SUBSET Open]
          /\ hold' \in [Open -> Hold \cup {None}]
          /\ viewer' \in [Open -> Open \cup {None}]
      BY <1>19, ResyncAppliesReturns
    <2> QED
      BY <1>19, <2>1 DEF Types, TypeOK, ResyncApplies
  <1>20. CASE ResyncEnds /\ UNCHANGED limit
    <2>1. /\ resync' = NoList
          /\ hold' \in [Open -> Hold \cup {None}]
          /\ closing' \in [Source -> Nat]
          /\ strayed' \subseteq Open /\ uncounted' \subseteq Open /\ stuck' \subseteq Open
      BY <1>20, ResyncEndsReturns DEF Types, TypeOK, Live
    <2> QED
      BY <1>20, <2>1 DEF Types, TypeOK, ResyncEnds, NoList
  <1>21. CASE UNCHANGED vars
    BY <1>21 DEF vars, Types, TypeOK
  <1> QED
    BY <1>1, <1>2, <1>3, <1>4, <1>5, <1>6, <1>7, <1>8, <1>9, <1>10, <1>11, <1>12,
       <1>13, <1>14, <1>15, <1>16, <1>17, <1>18, <1>19, <1>20, <1>21 DEF Next


(* What the steps of the engine, and `leave`, add to the feed. *)
LEMMA OpensTells ==
    ASSUME Types, Named, NEW o \in Open, NEW s \in Source, EngineOpens(o, s)
    PROVE  /\ Events \subseteq Events'
           /\ [kind |-> "ok", of |-> o, source |-> s] \in Events'
           /\ \A e \in Events' \ Events :
                \/ e.kind = "error" /\ e.of = o
                \/ e = [kind |-> "ok", of |-> o, source |-> s]
  <1>1. PICK es \in Seq(Event) :
          /\ \A e \in Range(es) : e.kind = "error" /\ e.of = o
          /\ Tell(es \o <<[kind |-> "ok", of |-> o, source |-> s]>>)
    BY EngineOpensReturns
  <1>2. PICK ok : ok = [kind |-> "ok", of |-> o, source |-> s]
    OBVIOUS
  <1>3. ok \in Event
    BY <1>2 DEF Event
  <1>4. <<ok>> \in Seq(Event) /\ Range(<<ok>>) = {ok}
    BY <1>3, RangeOne
  <1>5. es \o <<ok>> \in Seq(Event) /\ Range(es \o <<ok>>) = Range(es) \cup Range(<<ok>>)
    BY <1>4, RangeConcat
  <1>6. Tell(es \o <<ok>>)
    BY <1>1, <1>2
  <1>7. Events' = Events \cup Range(es \o <<ok>>)
    BY <1>5, <1>6, TellEvents DEF Types, TypeOK
  <1> QED
    BY <1>1, <1>2, <1>4, <1>5, <1>7

LEMMA FailsOverTells ==
    ASSUME Types, NEW t \in Open, NEW s \in Source, FailsOver(t, s)
    PROVE  /\ Events \subseteq Events'
           /\ [kind |-> "ok", of |-> t, source |-> s] \in Events'
           /\ \A e \in Events' \ Events :
                \/ e.kind = "error" /\ e.of = t
                \/ e = [kind |-> "ok", of |-> t, source |-> s]
  <1>1. PICK r \in Source :
          /\ Tell(<<[kind |-> "error", of |-> t, source |-> r],
                    [kind |-> "ok", of |-> t, source |-> s]>>)
          /\ <<[kind |-> "error", of |-> t, source |-> r],
               [kind |-> "ok", of |-> t, source |-> s]>> \in Seq(Event)
    BY FailsOverReturns
  <1>2. PICK err, ok : /\ err = [kind |-> "error", of |-> t, source |-> r]
                       /\ ok = [kind |-> "ok", of |-> t, source |-> s]
    OBVIOUS
  <1>3. err \in Event /\ ok \in Event
    BY <1>2 DEF Event
  <1>4. Tell(<<err, ok>>)
    BY <1>1, <1>2
  <1>5. <<err, ok>> \in Seq(Event) /\ Range(<<err, ok>>) = {err, ok}
    BY <1>3, RangeTwo
  <1>6. Events' = Events \cup {err, ok}
    BY <1>4, <1>5, TellEvents DEF Types, TypeOK
  <1> QED
    BY <1>2, <1>6

LEMMA DiesTells ==
    ASSUME Types, NEW t \in Open, Dies(t)
    PROVE  /\ Events \subseteq Events'
           /\ [kind |-> "released", of |-> t] \in Events'
           /\ \A v \in Open : watching[v] = t => [kind |-> "ended", of |-> v] \in Events'
           /\ \A e \in Events' \ Events :
                \/ e.kind = "error" /\ e.of = t
                \/ e = [kind |-> "released", of |-> t]
                \/ e.kind = "ended" /\ e.of \in Open /\ watching[e.of] = t
  <1>1. PICK es \in Seq(Event) :
                /\ Tell(es)
                /\ [kind |-> "released", of |-> t] \in Range(es)
                /\ \A v \in Open : watching[v] = t => [kind |-> "ended", of |-> v] \in Range(es)
                /\ \A e \in Range(es) :
                     \/ e.kind = "error" /\ e.of = t
                     \/ e = [kind |-> "released", of |-> t]
                     \/ e.kind = "ended" /\ e.of \in Open /\ watching[e.of] = t
    BY DiesReturns
  <1>2. Events' = Events \cup Range(es)
    BY <1>1, TellEvents DEF Types, TypeOK
  <1> QED
    BY <1>1, <1>2

LEMMA UpstreamIdlesTells ==
    ASSUME Types, NEW t \in Open, UpstreamIdles(t)
    PROVE  Events' = Events \cup {[kind |-> "released", of |-> t]}
  <1>1. [kind |-> "released", of |-> t] \in Event
    BY DEF Event
  <1> QED
    BY <1>1, RangeOne, TellEvents DEF Types, TypeOK, UpstreamIdles

LEMMA ViewerIdlesTells ==
    ASSUME Types, NEW v \in Open, ViewerIdles(v)
    PROVE  Events' = Events \cup {[kind |-> "ended", of |-> v]}
  <1>1. [kind |-> "ended", of |-> v] \in Event
    BY DEF Event
  <1> QED
    BY <1>1, RangeOne, TellEvents DEF Types, TypeOK, ViewerIdles

LEMMA LeaveTells ==
    ASSUME Types, NEW v \in Open, Leave(v)
    PROVE  /\ Events \subseteq Events'
           /\ v \in Watched => [kind |-> "ended", of |-> v] \in Events'
           /\ \A e \in Events' \ Events : e = [kind |-> "ended", of |-> v]
  <1>1. [kind |-> "ended", of |-> v] \in Event
    BY DEF Event
  <1>2. PICK es : /\ es = IF v \in Watched THEN <<[kind |-> "ended", of |-> v]>> ELSE <<>>
                  /\ Tell(es)
    BY DEF Leave
  <1>3. CASE v \in Watched
    <2>1. es \in Seq(Event) /\ Range(es) = {[kind |-> "ended", of |-> v]}
      BY <1>1, <1>2, <1>3, RangeOne
    <2>2. Tell(es)
      BY <1>2
    <2>3. Events' = Events \cup Range(es)
      BY <2>1, <2>2, TellEvents DEF Types, TypeOK
    <2> QED
      BY <1>3, <2>1, <2>3
  <1>4. CASE v \notin Watched
    <2>1. es = <<>> /\ es \in Seq(Event)
      BY <1>2, <1>4
    <2>2. Range(es) = {}
      BY <2>1 DEF Range
    <2>3. Events' = Events \cup Range(es)
      BY <1>2, <2>1, TellEvents DEF Types, TypeOK
    <2> QED
      BY <1>4, <2>2, <2>3
  <1> QED
    BY <1>3, <1>4

(* What every step does to a request: one that was sent keeps its channel   *)
(* and vetoes, one that was answered its answer.                            *)
LEMMA StepRequests ==
    ASSUME Types, Named, [Next]_vars, NEW p \in Open
    PROVE  /\ request[p].step # "new" => /\ request'[p].step # "new"
                                         /\ request'[p].channel = request[p].channel
                                         /\ request'[p].vetoed = request[p].vetoed
           /\ ~Early(p) => ~Early(p)' /\ request'[p].token = request[p].token
           /\ request[p].step = "done" => request'[p].step = "done"
           /\ request[p].step = "fed" /\ ~EngineRestarts => request'[p].step \in {"fed", "done"}
           /\ request[p].step = "new" => \/ request'[p].step = "new"
                                         \/ /\ request'[p].step = "sent"
                                            /\ request'[p].channel \in Channel
           /\ request'[p].step = "fed" => request[p].step = "fed" \/ request'[p].token \in Open
  <1> DEFINE Kept == /\ request[p].step # "new" => /\ request'[p].step # "new"
                                         /\ request'[p].channel = request[p].channel
                                         /\ request'[p].vetoed = request[p].vetoed
                     /\ ~Early(p) => ~Early(p)' /\ request'[p].token = request[p].token
                     /\ request[p].step = "done" => request'[p].step = "done"
                     /\ request[p].step = "fed" /\ ~EngineRestarts
                           => request'[p].step \in {"fed", "done"}
                     /\ request[p].step = "new" =>
                          \/ request'[p].step = "new"
                          \/ request'[p].step = "sent" /\ request'[p].channel \in Channel
                     /\ request'[p].step = "fed" =>
                          request[p].step = "fed" \/ request'[p].token \in Open
  <1>1. ASSUME request'[p] = request[p] PROVE Kept
    BY <1>1 DEF Early
  <1>2. ASSUME NEW o \in Open, NEW step, NEW token, Moves(o, step, token), step # "new",
               request[o].step # "new", step = "fed" => token \in Open,
               ~Early(o) => /\ step \notin {"new", "sent", "cancelled"}
                            /\ token = request[o].token
                            /\ request[o].step \in {"fed", "done"} => step = "done"
        PROVE  Kept
    BY <1>1, <1>2 DEF Moves, Early
  <1>3. ASSUME NEW o \in Open, NEW c \in Channel, OpenLive(o, c) PROVE Kept
    <2>1. /\ request[o].step = "new" /\ \A q \in Open \ {o} : request'[q] = request[q]
          /\ request'[o].step = "sent" /\ request'[o].channel \in Channel
      BY <1>3, OpenLiveReturns DEF OpenLive, Types, TypeOK
    <2> QED
      BY <1>1, <2>1 DEF Early
  <1>4. ASSUME NEW o \in Open, Answered(o) PROVE Kept
    <2>1. Moves(o, "done", request[o].token)
      BY <1>4, RequestMoves DEF Answered, Moves, Types, TypeOK
    <2> QED
      BY <1>2, <1>4, <2>1 DEF Answered
  <1>5. ASSUME NEW o \in Open, Refused(o) PROVE Kept
    <2>1. Moves(o, "done", request[o].token)
      BY <1>5, RequestMoves DEF Refused, Moves, Types, TypeOK
    <2> QED
      BY <1>2, <1>5, <2>1 DEF Refused
  <1>6. ASSUME NEW o \in Open, Cancel(o) PROVE Kept
    <2>1. PICK n : n = IF request[o].step = "sent" THEN "cancelled" ELSE "done"
      OBVIOUS
    <2>2. request' = [request EXCEPT ![o].step = n]
      BY <1>6, <2>1 DEF Cancel, Types, TypeOK
    <2>3. Moves(o, n, request[o].token)
      BY <2>1, <2>2, RequestMoves DEF Moves, Types, TypeOK
    <2> QED
      BY <1>2, <1>6, <2>1, <2>3 DEF Early, Cancel
  <1>7. ASSUME NEW o \in Open, NEW t \in Open \cup {None}, NEW n \in {"fed", "refused", "dead"},
               n = "fed" => t \in Open,
               request[o].step \in {"sent", "cancelled"}, Reply(o, n, t)
        PROVE  Kept
    <2>1. Moves(o, IF request[o].step = "cancelled" THEN "done" ELSE n, t)
      BY <1>7, ReplyMoves DEF Moves
    <2> QED
      BY <1>2, <1>7, <2>1 DEF Early
  <1>8. ASSUME EngineRestarts PROVE Kept
    BY <1>8, EngineRestartsReturns DEF Early
  <1>9. ASSUME HostRestarts PROVE Kept
    BY <1>9, HostRestartsReturns DEF Early
  <1>10. ASSUME UNCHANGED request PROVE Kept
    BY <1>1, <1>10
  <1> QED
    <2>1. ASSUME NEW o \in Open, NEW t \in Open, EngineJoins(o, t) PROVE Kept
      BY <1>7, <2>1 DEF EngineJoins
    <2>2. ASSUME NEW o \in Open, NEW s \in Source, EngineOpens(o, s) PROVE Kept
      BY <1>7, <2>2 DEF EngineOpens
    <2>3. ASSUME NEW o \in Open, EngineRefuses(o) PROVE Kept
      BY <1>7, <2>3 DEF EngineRefuses
    <2>4. ASSUME NEW o \in Open,
                 \/ \E s \in Source : FailsOver(o, s)
                 \/ Dies(o) \/ UpstreamIdles(o) \/ ViewerIdles(o)
                 \/ Leave(o) \/ LooksUp(o) \/ Enters(o)
          PROVE  UNCHANGED request
      BY <2>4 DEF FailsOver, Dies, UpstreamIdles, ViewerIdles, Leave, LooksUp, Enters, hostVars
    <2>5. LosesFeed \/ OnEvent \/ ResyncApplies \/ ResyncEnds \/ UNCHANGED vars
             => UNCHANGED request
      BY DEF LosesFeed, OnEvent, ResyncApplies, ResyncEnds, vars, hostVars
    <2> HIDE DEF Kept
    <2>6. Kept
      BY <1>3, <1>4, <1>5, <1>6, <1>8, <1>9, <1>10, <2>1, <2>2, <2>3, <2>4, <2>5 DEF Next
    <2> QED
      BY <2>6 DEF Kept


(* Only the engine's answers start anything. *)
Shrinks ==
    \A o \in Open : /\ upstream'[o] # None => upstream[o] # None
                    /\ watching'[o] # None => watching'[o] = watching[o]

LEMMA FewStepsRun ==
    ASSUME Types, [Next]_vars
    PROVE  \/ Shrinks
           \/ \E o \in Open : \/ \E t \in Open : EngineJoins(o, t)
                              \/ \E s \in Source : EngineOpens(o, s)
  <1>1. /\ upstream \in [Open -> Upstream \cup {None}]
        /\ watching \in [Open -> Open \cup {None}]
    BY DEF Types, TypeOK
  <1>2. UNCHANGED <<upstream, watching>> => Shrinks
    BY DEF Shrinks
  <1>3. ASSUME NEW o \in Open,
               \/ \E c \in Channel : OpenLive(o, c)
               \/ Answered(o) \/ Refused(o) \/ Cancel(o) \/ EngineRefuses(o)
               \/ LooksUp(o) \/ Enters(o)
        PROVE  UNCHANGED <<upstream, watching>>
    BY <1>3 DEF OpenLive, Answered, Refused, Cancel, EngineRefuses, LooksUp, Enters, engineVars
  <1>4. LosesFeed \/ HostRestarts \/ OnEvent \/ ResyncApplies \/ ResyncEnds \/ UNCHANGED vars
          => UNCHANGED <<upstream, watching>>
    BY DEF LosesFeed, HostRestarts, OnEvent, ResyncApplies, ResyncEnds, vars, engineVars
  <1>5. ASSUME EngineRestarts PROVE Shrinks
    BY <1>5, EngineRestartsReturns DEF Shrinks
  <1>6. ASSUME NEW t \in Open, NEW s \in Source, FailsOver(t, s) PROVE Shrinks
    <2>1. t \in Live /\ UNCHANGED watching
      BY <1>6 DEF FailsOver
    <2> QED
      BY <1>6, <2>1, FailsOverReturns DEF Shrinks, Live
  <1>7. ASSUME NEW t \in Open, Dies(t) PROVE Shrinks
    BY <1>7, DiesReturns DEF Shrinks
  <1>8. ASSUME NEW t \in Open, UpstreamIdles(t) PROVE Shrinks
    BY <1>1, <1>8 DEF UpstreamIdles, Ends, Shrinks
  <1>9. ASSUME NEW v \in Open, ViewerIdles(v) \/ Leave(v) PROVE Shrinks
    BY <1>1, <1>9 DEF ViewerIdles, Leave, Shrinks
  <1> QED
    BY <1>2, <1>3, <1>4, <1>5, <1>6, <1>7, <1>8, <1>9 DEF Next

(* What runs was answered. *)
LEMMA StepRuns ==
    ASSUME Types, Named, RunsAnswered, [Next]_vars
    PROVE  RunsAnswered'
  <1>1. ASSUME Shrinks PROVE RunsAnswered'
    <2> SUFFICES ASSUME NEW o \in Open
                 PROVE  /\ upstream'[o] # None => /\ request'[o].step \in {"fed", "done"}
                                                  /\ request'[o].token = o
                        /\ watching'[o] # None => /\ request'[o].step \in {"fed", "done"}
                                                  /\ watching'[o] = request'[o].token
      BY DEF RunsAnswered, Live, Watched
    <2>1. CASE EngineRestarts
      BY <2>1, EngineRestartsReturns
    <2>2. CASE ~EngineRestarts
      BY <1>1, <2>2, StepRequests DEF RunsAnswered, Live, Watched, Shrinks, Early
    <2> QED
      BY <2>1, <2>2
  <1>2. ASSUME NEW o \in Open, NEW t \in Open, NEW n \in {"fed", "done"},
               Moves(o, n, t),
               \A u \in Open : upstream'[u] # None => upstream[u] # None \/ (u = o /\ t = o),
               \A u \in Open : watching'[u] = IF u = o THEN t ELSE watching[u],
               request[o].step \in {"sent", "cancelled"}
        PROVE  RunsAnswered'
    <2> SUFFICES ASSUME NEW u \in Open
                 PROVE  /\ upstream'[u] # None => /\ request'[u].step \in {"fed", "done"}
                                                  /\ request'[u].token = u
                        /\ watching'[u] # None => /\ request'[u].step \in {"fed", "done"}
                                                  /\ watching'[u] = request'[u].token
      BY DEF RunsAnswered, Live, Watched
    <2> QED
      BY <1>2 DEF RunsAnswered, Live, Watched, Moves
  <1>3. ASSUME NEW o \in Open, NEW t \in Open, EngineJoins(o, t) PROVE RunsAnswered'
    <2>1. PICK n \in {"fed", "done"} : Moves(o, n, t)
      BY <1>3, ReplyMoves DEF EngineJoins, Moves
    <2> QED
      BY <1>2, <1>3, <2>1 DEF EngineJoins, Types, TypeOK
  <1>4. ASSUME NEW o \in Open, NEW s \in Source, EngineOpens(o, s) PROVE RunsAnswered'
    <2>1. PICK n \in {"fed", "done"} : Moves(o, n, o)
      BY <1>4, EngineOpensReturns
    <2>2. \A u \in Open : upstream'[u] # None => upstream[u] # None \/ u = o
      <3>1. /\ upstream' = [upstream EXCEPT ![o] = [source |-> s, channel |-> request[o].channel]]
            /\ DOMAIN upstream = Open
        BY <1>4, EngineOpensReturns DEF Types, TypeOK
      <3> QED
        BY <3>1
    <2> QED
      BY <1>2, <1>4, <2>1, <2>2 DEF EngineOpens, Types, TypeOK
  <1> QED
    BY <1>1, <1>3, <1>4, FewStepsRun


(* A request that was sent names its channel, a fed one its session. *)
LEMMA StepNamed == ASSUME Types, Named, [Next]_vars PROVE Named'
  <1> SUFFICES ASSUME NEW o \in Open
               PROVE  /\ request'[o].step # "new" => request'[o].channel \in Channel
                      /\ request'[o].step = "fed" => request'[o].token \in Open
    BY DEF Named
  <1>1. request'[o].step # "new" => request'[o].channel \in Channel
    BY StepRequests DEF Named
  <1>2. request'[o].step = "fed" => request'[o].token \in Open
    BY StepRequests DEF Named, Early
  <1> QED
    BY <1>1, <1>2


(* What was answered and ended does not start again. *)
LEMMA StartsOnce ==
    ASSUME Types, Named, [Next]_vars, NEW u \in Open, ~Early(u)
    PROVE  /\ u \in Live' => u \in Live
           /\ u \in Watched' => u \in Watched /\ watching'[u] = watching[u]
  <1>1. CASE Shrinks
    BY <1>1 DEF Shrinks, Live, Watched
  <1>2. ASSUME NEW o \in Open, NEW t \in Open, EngineJoins(o, t)
        PROVE  u # o /\ upstream' = upstream /\ watching'[u] = watching[u]
    BY <1>2 DEF EngineJoins, Early, Types, TypeOK
  <1>3. ASSUME NEW o \in Open, NEW s \in Source, EngineOpens(o, s)
        PROVE  u # o /\ upstream'[u] = upstream[u] /\ watching'[u] = watching[u]
    <2>1. /\ u # o /\ upstream' = [upstream EXCEPT ![o] = [source |-> s,
                                                        channel |-> request[o].channel]]
          /\ watching' = [watching EXCEPT ![o] = o]
      BY <1>3 DEF EngineOpens, Early
    <2> QED
      BY <2>1 DEF Types, TypeOK
  <1> QED
    BY <1>1, <1>2, <1>3, FewStepsRun DEF Live, Watched

(* Only what starts, moves or ends is told. *)

LEMMA FewStepsTell ==
    ASSUME Types, Named, [Next]_vars
    PROVE  \/ Events' \subseteq Events
           \/ Events' = {[kind |-> "resync"]}
           \/ \E o \in Open : \/ \E s \in Source : EngineOpens(o, s) \/ FailsOver(o, s)
                              \/ Dies(o) \/ UpstreamIdles(o) \/ ViewerIdles(o) \/ Leave(o)
  <1>1. UNCHANGED feed => Events' \subseteq Events
    BY DEF Events
  <1>2. ASSUME NEW o \in Open,
               \/ \E c \in Channel : OpenLive(o, c)
               \/ Answered(o) \/ Refused(o) \/ Cancel(o) \/ EngineRefuses(o)
               \/ \E t \in Open : EngineJoins(o, t)
               \/ LooksUp(o) \/ Enters(o)
        PROVE  UNCHANGED feed
    BY <1>2 DEF OpenLive, Answered, Refused, Cancel, EngineRefuses, EngineJoins, LooksUp,
                Enters, engineVars
  <1>3. ResyncApplies \/ ResyncEnds \/ UNCHANGED vars => UNCHANGED feed
    BY DEF ResyncApplies, ResyncEnds, vars, engineVars
  <1>4. LosesFeed \/ EngineRestarts \/ HostRestarts => Events' = {[kind |-> "resync"]}
    BY BrokenEvents DEF LosesFeed, EngineRestarts, HostRestarts
  <1>5. OnEvent => Events' \subseteq Events
    BY TailEvents DEF OnEvent, Types, TypeOK
  <1> QED
    BY <1>1, <1>2, <1>3, <1>4, <1>5 DEF Next

(* Only four steps change the resync. *)
Lists == /\ resync.step = "idle" /\ OnEvent
         /\ resync' = [step |-> "listed", upstream |-> upstream,
                       watching |-> watching, known |-> Known \cup lookup]
         /\ Head(feed).kind = "resync"

LEMMA FewStepsList ==
    ASSUME [Next]_vars
    PROVE  UNCHANGED resync \/ Lists \/ ResyncApplies \/ ResyncEnds \/ HostRestarts
  <1>1. ASSUME NEW o \in Open,
               \/ \E c \in Channel : OpenLive(o, c)
               \/ Answered(o) \/ Refused(o) \/ Cancel(o) \/ EngineRefuses(o)
               \/ \E t \in Open : EngineJoins(o, t)
               \/ LooksUp(o) \/ Enters(o) \/ Leave(o)
        PROVE  UNCHANGED resync
    BY <1>1 DEF OpenLive, Answered, Refused, Cancel, EngineRefuses, EngineJoins, LooksUp,
                Enters, Leave
  <1>2. ASSUME NEW o \in Open,
               \/ \E s \in Source : EngineOpens(o, s) \/ FailsOver(o, s)
               \/ Dies(o) \/ UpstreamIdles(o) \/ ViewerIdles(o)
        PROVE  UNCHANGED resync
    BY <1>2 DEF EngineOpens, FailsOver, Dies, UpstreamIdles, ViewerIdles, hostVars
  <1>3. LosesFeed \/ EngineRestarts \/ UNCHANGED vars => UNCHANGED resync
    BY DEF LosesFeed, EngineRestarts, vars, hostVars
  <1>4. OnEvent => UNCHANGED resync \/ Lists
    BY DEF OnEvent, Lists
  <1> QED
    BY <1>1, <1>2, <1>3, <1>4 DEF Next

(* The feed and the list tell of what was answered, and of ends in time. *)
LEMMA StepTold ==
    ASSUME Base, [Next]_vars
    PROVE  ToldInTime'
  <1> USE DEF Base
  <1>1. Types' /\ RunsAnswered'
    BY StepTypes, StepRuns
  <1> DEFINE InTime(e) == e.kind # "resync" =>
          /\ request'[e.of].step \notin {"new", "sent", "cancelled"}
          /\ e.kind = "released" => upstream'[e.of] = None /\ watching'[e.of] = None
          /\ e.kind = "ended" => watching'[e.of] = None
  <1>2. ASSUME NEW e \in Events PROVE InTime(e)
    <2>1. CASE e.kind # "resync"
      <3>1. e \in Event
        BY LenProperties DEF Events, Range, Types, TypeOK
      <3>2. e.of \in Open
        BY <2>1, <3>1, EventFacts
      <3>3. /\ ~Early(e.of)
            /\ e.kind = "released" => e.of \notin Live /\ e.of \notin Watched
            /\ e.kind = "ended" => e.of \notin Watched
        BY <2>1 DEF ToldInTime
      <3>4. ~Early(e.of)'
        BY <3>2, <3>3, StepRequests
      <3>5. /\ e.kind = "released" => e.of \notin Live' /\ e.of \notin Watched'
            /\ e.kind = "ended" => e.of \notin Watched'
        BY <3>2, <3>3, StartsOnce
      <3> QED
        BY <3>2, <3>4, <3>5 DEF Early, Live, Watched
    <2> QED
      BY <2>1
  <1>3. ASSUME NEW o \in Open, o \in Live \/ o \in Watched \/ o \in Known
        PROVE  ~Early(o)' /\ ~Early(o)
    <2>1. ~Early(o)
      BY <1>3 DEF RunsAnswered, KnownInTime, Early
    <2> QED
      BY <2>1, StepRequests
  <1>4. ASSUME NEW e \in Events', e \notin Events PROVE InTime(e)
    <2>1. ASSUME NEW o \in Open, NEW s \in Source, EngineOpens(o, s) PROVE InTime(e)
      <3>1. e.of = o /\ e.kind \in {"ok", "error"}
        <4>1. \/ e.kind = "error" /\ e.of = o
              \/ e = [kind |-> "ok", of |-> o, source |-> s]
          BY <1>4, <2>1, OpensTells
        <4> QED
          BY <4>1
      <3>2. request'[o].step \notin {"new", "sent", "cancelled"}
        BY <2>1, EngineOpensReturns DEF Moves
      <3> QED
        BY <3>1, <3>2
    <2>2. ASSUME NEW o \in Open, NEW s \in Source, FailsOver(o, s) PROVE InTime(e)
      <3>1. e.of = o /\ e.kind \in {"ok", "error"}
        <4>1. \/ e.kind = "error" /\ e.of = o
              \/ e = [kind |-> "ok", of |-> o, source |-> s]
          BY <1>4, <2>2, FailsOverTells
        <4> QED
          BY <4>1
      <3>2. o \in Live
        BY <2>2 DEF FailsOver
      <3> QED
        BY <1>3, <3>1, <3>2 DEF Early
    <2>3. ASSUME NEW o \in Open, Dies(o) PROVE InTime(e)
      <3>1. \/ e.kind = "error" /\ e.of = o
            \/ e = [kind |-> "released", of |-> o]
            \/ e.kind = "ended" /\ e.of \in Open /\ watching[e.of] = o
        BY <1>4, <2>3, DiesTells
      <3>2. o \in Live /\ request[o].token = o
        BY <2>3 DEF Dies, RunsAnswered
      <3>3. upstream'[o] = None
            /\ \A v \in Open : watching'[v] = IF watching[v] = o THEN None ELSE watching[v]
        BY <2>3, DiesReturns
      <3>4. watching'[o] = None
        BY <3>2, <3>3 DEF RunsAnswered, Watched
      <3>5. ASSUME e.kind = "ended", e.of \in Open, watching[e.of] = o PROVE InTime(e)
        <4>1. e.of \in Watched
          BY <3>5, TunerAssumption DEF Watched
        <4> QED
          BY <1>3, <3>3, <3>5, <4>1 DEF Early
      <3> QED
        BY <1>3, <3>1, <3>2, <3>3, <3>4, <3>5 DEF Early
    <2>4. ASSUME NEW o \in Open, UpstreamIdles(o) PROVE InTime(e)
      <3>1. e = [kind |-> "released", of |-> o]
        BY <1>4, <2>4, UpstreamIdlesTells
      <3>2. /\ o \in Live /\ request[o].token = o /\ \A v \in Open : watching[v] # o
            /\ UNCHANGED watching /\ upstream'[o] = None
        BY <2>4 DEF UpstreamIdles, RunsAnswered, Ends
      <3>3. watching'[o] = None
        BY <3>2 DEF RunsAnswered, Watched
      <3> QED
        BY <1>3, <3>1, <3>2, <3>3 DEF Early
    <2>5. ASSUME NEW o \in Open, ViewerIdles(o) \/ Leave(o) PROVE InTime(e)
      <3>1. e = [kind |-> "ended", of |-> o]
        BY <1>4, <2>5, ViewerIdlesTells, LeaveTells
      <3>2. watching'[o] = None
        BY <2>5 DEF ViewerIdles, Leave, Types, TypeOK
      <3>3. ~Early(o)'
        <4>1. CASE o \in Known \/ o \in Watched
          BY <1>3, <4>1
        <4>2. CASE o \notin Known /\ o \notin Watched
          BY <2>5, <4>2 DEF ViewerIdles, Leave
        <4> QED
          BY <4>1, <4>2
      <3> QED
        BY <3>1, <3>2, <3>3 DEF Early
    <2>6. CASE Events' = {[kind |-> "resync"]}
      BY <2>6
    <2> HIDE DEF InTime
    <2> QED
      BY <1>4, <2>1, <2>2, <2>3, <2>4, <2>5, <2>6, FewStepsTell
  <1>5. \A e \in Events' : InTime(e)
    <2> HIDE DEF InTime
    <2> QED
      BY <1>2, <1>4
  <1>6. ASSUME NEW o \in Open
        PROVE  /\ resync'.upstream[o] # None => ~Early(o)'
               /\ resync'.watching[o] # None => ~Early(o)' /\ resync'.watching[o] = request'[o].token
    <2>1. /\ resync.upstream[o] # None => ~Early(o)'
          /\ resync.watching[o] # None => ~Early(o)' /\ resync.watching[o] = request'[o].token
      BY StepRequests DEF ToldInTime
    <2>2. CASE UNCHANGED resync
      BY <2>1, <2>2
    <2>3. CASE Lists
      <3>1. resync'.upstream = upstream /\ resync'.watching = watching
        BY <2>3 DEF Lists
      <3>2. watching[o] # None => ~Early(o) /\ watching[o] = request[o].token
        BY DEF RunsAnswered, Watched, Early
      <3>3. watching[o] # None => ~Early(o)' /\ watching[o] = request'[o].token
        BY <3>2, StepRequests
      <3> QED
        BY <1>3, <3>1, <3>3 DEF Live, Watched
    <2>4. CASE ResyncApplies
      BY <2>1, <2>4, ResyncAppliesReturns
    <2>5. CASE resync' = NoList
      BY <2>5 DEF NoList
    <2> QED
      BY <2>2, <2>3, <2>4, <2>5, FewStepsList, ResyncEndsReturns DEF HostRestarts
  <1> QED
    <2>1. \A e \in Events' : e.kind # "resync" =>
          /\ ~Early(e.of)'
          /\ e.kind = "released" => e.of \notin Live' /\ e.of \notin Watched'
          /\ e.kind = "ended" => e.of \notin Watched'
      BY <1>5 DEF Early, Live, Watched
    <2> QED
      BY <1>6, <2>1 DEF ToldInTime, Early


(* What the steps do to the host's viewers. *)
LEMMA FewStepsKnow ==
    ASSUME Base, [Next]_vars, NEW v \in Open
    PROVE  \/ viewer'[v] \in {None, viewer[v]}
           \/ Answered(v) /\ viewer'[v] = request[v].token
           \/ Enters(v) /\ v \notin Known /\ viewer'[v] = request[v].token
           \/ ResyncApplies /\ viewer[v] = None /\ viewer'[v] = resync.watching[v]
  <1>1. viewer \in [Open -> Open \cup {None}]
    BY DEF Base, Types, TypeOK
  <1>2. ASSUME NEW o \in Open,
               \/ \E c \in Channel : OpenLive(o, c)
               \/ Refused(o) \/ Cancel(o) \/ EngineRefuses(o) \/ LooksUp(o)
               \/ \E t \in Open : EngineJoins(o, t)
        PROVE  UNCHANGED viewer
    BY <1>2 DEF OpenLive, Refused, Cancel, EngineRefuses, EngineJoins, LooksUp
  <1>3. ASSUME NEW o \in Open,
               \/ \E s \in Source : EngineOpens(o, s) \/ FailsOver(o, s)
               \/ Dies(o) \/ UpstreamIdles(o) \/ ViewerIdles(o)
        PROVE  UNCHANGED viewer
    BY <1>3 DEF EngineOpens, FailsOver, Dies, UpstreamIdles, ViewerIdles, hostVars
  <1>4. LosesFeed \/ EngineRestarts \/ ResyncEnds \/ UNCHANGED vars => UNCHANGED viewer
    BY DEF LosesFeed, EngineRestarts, ResyncEnds, vars, hostVars
  <1>5. ASSUME OnEvent PROVE viewer'[v] \in {None, viewer[v]}
    <2>1. \/ UNCHANGED viewer
          \/ viewer' = [viewer EXCEPT ![Head(feed).of] = None]
      BY <1>5 DEF OnEvent
    <2> QED
      BY <1>1, <2>1
  <1>6. ASSUME HostRestarts PROVE viewer'[v] = None
    BY <1>6 DEF HostRestarts
  <1>7. ASSUME NEW o \in Open, Leave(o) PROVE viewer'[v] \in {None, viewer[v]}
    BY <1>1, <1>7 DEF Leave
  <1>8. ASSUME NEW o \in Open, Answered(o)
        PROVE  \/ viewer'[v] = viewer[v]
               \/ Answered(v) /\ viewer'[v] = request[v].token
    <2>1. viewer' = [viewer EXCEPT ![o] = request[o].token]
      BY <1>8 DEF Answered
    <2> QED
      BY <1>1, <1>8, <2>1
  <1>9. ASSUME NEW o \in Open, Enters(o)
        PROVE  \/ viewer'[v] = viewer[v]
               \/ Enters(v) /\ v \notin Known /\ viewer'[v] = request[v].token
    <2>1. CASE v # o
      BY <1>1, <1>9, <2>1 DEF Enters
    <2>2. CASE v = o /\ v \in Known
      BY <1>1, <1>9, <2>2 DEF Enters, Known
    <2>3. CASE v = o /\ v \notin Known
      <3>1. viewer'[v] = IF watching[v] # None THEN watching[v] ELSE request[v].token
        BY <1>1, <1>9, <2>3 DEF Enters, Known
      <3>2. viewer'[v] = request[v].token
        BY <3>1 DEF Base, RunsAnswered, Watched
      <3> QED
        BY <1>9, <2>3, <3>2
    <2> QED
      BY <2>1, <2>2, <2>3
  <1>10. ASSUME ResyncApplies
         PROVE  \/ viewer'[v] \in {None, viewer[v]}
                \/ viewer[v] = None /\ viewer'[v] = resync.watching[v]
    BY <1>10, ResyncAppliesReturns DEF FollowList, Base
  <1> QED
    BY <1>2, <1>3, <1>4, <1>5, <1>6, <1>7, <1>8, <1>9, <1>10 DEF Next

(* The host only knows, and looks up, what the engine answered. *)
LEMMA StepKnown ==
    ASSUME Base, [Next]_vars
    PROVE  KnownInTime'
  <1> SUFFICES ASSUME NEW v \in Open
               PROVE  /\ viewer'[v] # None => ~Early(v)' /\ viewer'[v] = request'[v].token
                      /\ v \in resync'.known \/ v \in lookup' => ~Early(v)'
    BY DEF KnownInTime, Known, Early
  <1> USE DEF Base
  <1>1. ~Early(v) => ~Early(v)' /\ request'[v].token = request[v].token
    BY StepRequests
  <1>2. viewer'[v] # None => ~Early(v)' /\ viewer'[v] = request'[v].token
    <2>1. CASE viewer'[v] \in {None, viewer[v]}
      BY <1>1, <2>1 DEF KnownInTime, Known
    <2>2. CASE Answered(v) /\ viewer'[v] = request[v].token
      BY <1>1, <2>2 DEF Answered, Early
    <2>3. CASE Enters(v) /\ v \notin Known /\ viewer'[v] = request[v].token
      BY <1>1, <2>3 DEF Enters, KnownInTime
    <2>4. CASE ResyncApplies /\ viewer[v] = None /\ viewer'[v] = resync.watching[v]
      BY <1>1, <2>4 DEF ToldInTime
    <2> QED
      BY <2>1, <2>2, <2>3, <2>4, FewStepsKnow
  <1>3. v \in resync'.known => ~Early(v)'
    <2>1. CASE UNCHANGED resync
      BY <1>1, <2>1 DEF KnownInTime
    <2>2. CASE Lists
      BY <1>1, <2>2 DEF Lists, KnownInTime
    <2>3. CASE ResyncApplies \/ resync' = NoList
      BY <2>3, ResyncAppliesReturns DEF NoList
    <2> QED
      BY <2>1, <2>2, <2>3, FewStepsList, ResyncEndsReturns DEF HostRestarts
  <1>4. v \in lookup' => ~Early(v)'
    <2>1. v \in lookup => ~Early(v)'
      BY <1>1 DEF KnownInTime
    <2>2. ASSUME v \in lookup', v \notin lookup PROVE ~Early(v)
      <3>1. ASSUME NEW o \in Open,
               \/ \E c \in Channel : OpenLive(o, c)
               \/ Answered(o) \/ Refused(o) \/ Cancel(o) \/ EngineRefuses(o)
               \/ Enters(o) \/ Leave(o) \/ \E t \in Open : EngineJoins(o, t)
            PROVE  FALSE
        BY <2>2, <3>1 DEF OpenLive, Answered, Refused, Cancel, EngineRefuses, EngineJoins,
                          Enters, Leave
      <3>2. ASSUME NEW o \in Open,
               \/ \E s \in Source : EngineOpens(o, s) \/ FailsOver(o, s)
               \/ Dies(o) \/ UpstreamIdles(o) \/ ViewerIdles(o)
            PROVE  FALSE
        BY <2>2, <3>2 DEF EngineOpens, FailsOver, Dies, UpstreamIdles, ViewerIdles, hostVars
      <3>3. ASSUME \/ LosesFeed \/ EngineRestarts \/ HostRestarts \/ OnEvent
                   \/ ResyncApplies \/ ResyncEnds \/ UNCHANGED vars
            PROVE  FALSE
        BY <2>2, <3>3 DEF LosesFeed, EngineRestarts, HostRestarts, OnEvent, ResyncApplies,
                          ResyncEnds, vars, hostVars
      <3>4. ASSUME NEW o \in Open, LooksUp(o) PROVE ~Early(v)
        BY <2>2, <3>4 DEF LooksUp, Answers, Early
      <3> QED
        BY <3>1, <3>2, <3>3, <3>4 DEF Next
    <2> QED
      BY <1>1, <2>1, <2>2
  <1> QED
    BY <1>2, <1>3, <1>4

LEMMA StepBase == ASSUME Base, [Next]_vars PROVE Base'
  BY StepTypes, StepNamed, StepRuns, StepTold, StepKnown DEF Base

(* Whatever the registry and the engine do, the variables are what they are *)
(* declared to be.                                                          *)
THEOREM TypeCorrect == Spec => []TypeOK
  <1>1. Base => TypeOK
    BY DEF Base, Types
  <1>2. Base /\ [Next]_vars => Base'
    BY StepBase
  <1> QED
    BY InitBase, <1>1, <1>2, PTL DEF Spec


-----------------------------------------------------------------------------
(* The second layer.                                                        *)

(* What moves a request on. *)
LEMMA FewStepsAsk ==
    ASSUME Base, [Next]_vars, NEW p \in Open
    PROVE  \/ request'[p].step = request[p].step
           \/ \E c \in Channel : OpenLive(p, c) /\ request'[p].step = "sent"
           \/ Answered(p) /\ request'[p].step = "done"
           \/ Refused(p) /\ request'[p].step = "done"
           \/ /\ Cancel(p)
              /\ request'[p].step = IF request[p].step = "sent" THEN "cancelled" ELSE "done"
           \/ HostRestarts
           \/ EngineRestarts
           \/ /\ request[p].step = "sent" /\ request'[p].step \in {"fed", "refused", "dead"}
              /\ UNCHANGED hold
           \/ /\ request[p].step = "cancelled" /\ request'[p].step = "done"
              /\ UNCHANGED hold
  <1> USE DEF Base
  <1>0. request \in [Open -> Request]
    BY DEF Types, TypeOK
  <1> DEFINE Moved ==
           \/ request'[p].step = request[p].step
           \/ \E c \in Channel : OpenLive(p, c) /\ request'[p].step = "sent"
           \/ Answered(p) /\ request'[p].step = "done"
           \/ Refused(p) /\ request'[p].step = "done"
           \/ /\ Cancel(p)
              /\ request'[p].step = IF request[p].step = "sent" THEN "cancelled" ELSE "done"
           \/ HostRestarts
           \/ EngineRestarts
           \/ /\ request[p].step = "sent" /\ request'[p].step \in {"fed", "refused", "dead"}
              /\ UNCHANGED hold
           \/ /\ request[p].step = "cancelled" /\ request'[p].step = "done"
              /\ UNCHANGED hold
  <1>1. ASSUME NEW o \in Open, NEW c \in Channel, OpenLive(o, c) PROVE Moved
    <2>1. \A q \in Open : request'[q] = IF q = o THEN request'[o] ELSE request[q]
      BY <1>0, <1>1, OpenLiveReturns
    <2>2. request'[o].step = "sent"
      BY <1>0, <1>1, OpenLiveReturns
    <2> QED
      BY <1>1, <2>1, <2>2
  <1>2. ASSUME NEW o \in Open, Answered(o) PROVE Moved
    <2>1. request'[o].step = "done" /\ \A q \in Open \ {o} : request'[q] = request[q]
      BY <1>0, <1>2, RequestMoves DEF Answered
    <2> QED
      BY <1>2, <2>1
  <1>3. ASSUME NEW o \in Open, Refused(o) PROVE Moved
    <2>1. request'[o].step = "done" /\ \A q \in Open \ {o} : request'[q] = request[q]
      BY <1>0, <1>3, RequestMoves DEF Refused
    <2> QED
      BY <1>3, <2>1
  <1>4. ASSUME NEW o \in Open, Cancel(o) PROVE Moved
    <2>1. PICK n : n = IF request[o].step = "sent" THEN "cancelled" ELSE "done"
      OBVIOUS
    <2>2. request' = [request EXCEPT ![o].step = n]
      BY <1>0, <1>4, <2>1 DEF Cancel
    <2>3. request'[o].step = n /\ \A q \in Open \ {o} : request'[q] = request[q]
      BY <1>0, <2>1, <2>2, RequestMoves
    <2> QED
      BY <1>4, <2>1, <2>3
  <1>5. ASSUME NEW o \in Open, NEW t \in Open \cup {None}, NEW n \in {"fed", "refused", "dead"},
               request[o].step \in {"sent", "cancelled"}, Reply(o, n, t), UNCHANGED hold
        PROVE  Moved
    <2>1. /\ request'[o].step = IF request[o].step = "cancelled" THEN "done" ELSE n
          /\ \A q \in Open \ {o} : request'[q] = request[q]
      BY <1>5, ReplyMoves
    <2>2. CASE p = o
      BY <1>5, <2>1, <2>2
    <2>3. CASE p # o
      BY <2>1, <2>3
    <2> QED
      BY <2>2, <2>3
  <1>6. ASSUME UNCHANGED request PROVE Moved
    BY <1>6
  <1> QED
    <2>1. ASSUME NEW o \in Open, NEW t \in Open, EngineJoins(o, t) PROVE Moved
      BY <1>5, <2>1 DEF EngineJoins
    <2>2. ASSUME NEW o \in Open, NEW s \in Source, EngineOpens(o, s) PROVE Moved
      BY <1>5, <2>2 DEF EngineOpens
    <2>3. ASSUME NEW o \in Open, EngineRefuses(o) PROVE Moved
      BY <1>5, <2>3 DEF EngineRefuses
    <2>4. ASSUME NEW o \in Open,
                 \/ \E s \in Source : FailsOver(o, s)
                 \/ Dies(o) \/ UpstreamIdles(o) \/ ViewerIdles(o)
                 \/ Leave(o) \/ LooksUp(o) \/ Enters(o)
          PROVE  UNCHANGED request
      BY <2>4 DEF FailsOver, Dies, UpstreamIdles, ViewerIdles, Leave, LooksUp, Enters, hostVars
    <2>5. LosesFeed \/ OnEvent \/ ResyncApplies \/ ResyncEnds \/ UNCHANGED vars
             => UNCHANGED request
      BY DEF LosesFeed, OnEvent, ResyncApplies, ResyncEnds, vars, hostVars
    <2>6. HostRestarts \/ EngineRestarts => Moved
      OBVIOUS
    <2> HIDE DEF Moved
    <2>7. Moved
      BY <1>1, <1>2, <1>3, <1>4, <1>6, <2>1, <2>2, <2>3, <2>4, <2>5, <2>6 DEF Next
    <2> QED
      BY <2>7 DEF Moved

(* What changes a hold. *)
LEMMA FewStepsHold ==
    ASSUME Base, [Next]_vars, NEW p \in Open
    PROVE  \/ hold'[p] = hold[p]
           \/ \E c \in Channel : OpenLive(p, c)
           \/ Answered(p) /\ hold' = Settle(p, request[p].token)
           \/ hold'[p] = None /\ (Refused(p) \/ Cancel(p) \/ HostRestarts)
           \/ /\ hold'[p] = None
              /\ \E e \in Events : e.kind = "released" /\ e.of = p
           \/ /\ hold[p] # None /\ hold'[p] # None /\ hold'[p].pending = hold[p].pending
              /\ \E e \in Events : /\ e.kind \in {"ok", "error"} /\ e.of = p
                                   /\ hold'[p].source = IF e.kind = "ok" THEN e.source
                                                                        ELSE hold[p].source
           \/ /\ ResyncApplies /\ hold[p] = None /\ resync.upstream[p] # None
              /\ hold'[p] # None /\ ~hold'[p].pending
              /\ hold'[p].source = resync.upstream[p].source
           \/ /\ ResyncEnds /\ hold'[p] = None /\ hold[p] # None
              /\ resync.upstream[p] = None /\ ~hold[p].pending
  <1> USE DEF Base
  <1>0. hold \in [Open -> Hold \cup {None}]
    BY DEF Types, TypeOK
  <1>1. ASSUME NEW o \in Open, NEW c \in Channel, OpenLive(o, c)
        PROVE  hold'[p] = hold[p] \/ OpenLive(p, c)
    <2>1. o # p => hold'[p] = hold[p]
      BY <1>0, <1>1, OpenLiveReturns
    <2> QED
      BY <1>1, <2>1
  <1>2. ASSUME NEW o \in Open, Answered(o)
        PROVE  hold'[p] = hold[p] \/ (Answered(p) /\ hold' = Settle(p, request[p].token))
    BY <1>0, <1>2, SettleReturns DEF Answered, Settle
  <1>3. ASSUME NEW o \in Open, Refused(o)
        PROVE  hold'[p] = hold[p] \/ (hold'[p] = None /\ Refused(p))
    <2>1. hold'[o] = None /\ (o # p => hold'[p] = hold[p])
      <3>1. CASE request[o].step = "dead"
        BY <1>3, <3>1, ReleasedTypes DEF Refused
      <3>2. CASE request[o].step # "dead"
        BY <1>0, <1>3, <3>2 DEF Refused
      <3> QED
        BY <3>1, <3>2
    <2> QED
      BY <1>3, <2>1
  <1>4. ASSUME NEW o \in Open, Cancel(o)
        PROVE  hold'[p] = hold[p] \/ (hold'[p] = None /\ Cancel(p))
    BY <1>0, <1>4 DEF Cancel
  <1>5. ASSUME HostRestarts PROVE hold'[p] = None
    BY <1>5 DEF HostRestarts
  <1>6. ASSUME OnEvent
        PROVE  \/ hold'[p] = hold[p]
               \/ /\ hold'[p] = None
                  /\ \E e \in Events : e.kind = "released" /\ e.of = p
               \/ /\ hold[p] # None /\ hold'[p] # None /\ hold'[p].pending = hold[p].pending
                  /\ \E e \in Events : /\ e.kind \in {"ok", "error"} /\ e.of = p
                                       /\ hold'[p].source = IF e.kind = "ok" THEN e.source
                                                                            ELSE hold[p].source
    <2>1. PICK e \in Events : e = Head(feed) /\ e \in Event
      BY <1>6, TailEvents DEF Types, TypeOK, OnEvent
    <2>2. \/ e.kind \in {"ok", "error"} /\ Attempt(e)
          \/ e.kind = "released" /\ Released(e.of)
          \/ UNCHANGED hold
      BY <1>6, <2>1 DEF OnEvent
    <2>3. CASE e.kind \in {"ok", "error"} /\ Attempt(e)
      <3>1. /\ e.of # p => hold'[p] = hold[p]
            /\ hold[e.of] = None => hold'[e.of] = hold[e.of]
            /\ hold[e.of] # None =>
                /\ hold'[e.of] # None
                /\ hold'[e.of].pending = hold[e.of].pending
                /\ hold'[e.of].source = IF e.kind = "ok" THEN e.source
                                                         ELSE hold[e.of].source
        BY <2>1, <2>3, AttemptReturns
      <3> QED
        BY <2>1, <2>3, <3>1
    <2>4. CASE e.kind = "released" /\ Released(e.of)
      <3>1. e.of \in Open
        BY <2>1, <2>4, EventFacts
      <3>2. hold'[e.of] = None /\ (e.of # p => hold'[p] = hold[p])
        BY <2>4, <3>1, ReleasedTypes
      <3> QED
        BY <2>1, <2>4, <3>2
    <2> QED
      BY <2>2, <2>3, <2>4
  <1>7. ASSUME ResyncApplies
        PROVE  \/ hold'[p] = hold[p]
               \/ /\ hold[p] = None /\ resync.upstream[p] # None
                  /\ hold'[p] # None /\ ~hold'[p].pending
                  /\ hold'[p].source = resync.upstream[p].source
    BY <1>7, ResyncAppliesReturns
  <1>8. ASSUME ResyncEnds
        PROVE  \/ hold'[p] = hold[p]
               \/ /\ hold'[p] = None /\ hold[p] # None
                  /\ resync.upstream[p] = None /\ ~hold[p].pending
    BY <1>8, ResyncEndsReturns DEF Held
  <1>9. ASSUME NEW o \in Open,
               \/ \E t \in Open : EngineJoins(o, t)
               \/ EngineRefuses(o) \/ Leave(o) \/ LooksUp(o) \/ Enters(o)
        PROVE  UNCHANGED hold
    BY <1>9 DEF EngineJoins, EngineRefuses, Leave, LooksUp, Enters
  <1>10. ASSUME NEW o \in Open,
               \/ \E s \in Source : EngineOpens(o, s) \/ FailsOver(o, s)
               \/ Dies(o) \/ UpstreamIdles(o) \/ ViewerIdles(o)
         PROVE  UNCHANGED hold
    BY <1>10 DEF EngineOpens, FailsOver, Dies, UpstreamIdles, ViewerIdles, hostVars
  <1>11. LosesFeed \/ EngineRestarts \/ UNCHANGED vars => UNCHANGED hold
    BY DEF LosesFeed, EngineRestarts, vars, hostVars
  <1> QED
    BY <1>1, <1>2, <1>3, <1>4, <1>5, <1>6, <1>7, <1>8, <1>9, <1>10, <1>11 DEF Next


(* An open that waits holds a connection, pending; otherwise it does not.   *)
LEMMA StepHoldsWhileSent ==
    ASSUME Base, HoldsWhileSent, [Next]_vars
    PROVE  HoldsWhileSent'
  <1> SUFFICES ASSUME NEW p \in Open
               PROVE  /\ request'[p].step = "sent" => hold'[p] # None /\ hold'[p].pending
                      /\ request'[p].step \in {"new", "cancelled"} => hold'[p] = None
                      /\ request'[p].step = "done" /\ hold'[p] # None => ~hold'[p].pending
    BY DEF HoldsWhileSent, Held
  <1> DEFINE Fits(step) == /\ step = "sent" => hold'[p] # None /\ hold'[p].pending
                           /\ step \in {"new", "cancelled"} => hold'[p] = None
                           /\ step = "done" /\ hold'[p] # None => ~hold'[p].pending
  <1>1. Fits(request[p].step) \/ hold'[p] # hold[p]
    BY DEF HoldsWhileSent, Held
  <1>2. ASSUME request'[p].step = request[p].step,
               ~\E c \in Channel : OpenLive(p, c)
        PROVE  Fits(request[p].step)
    <2>1. CASE Answered(p) /\ hold' = Settle(p, request[p].token)
      <3>1. request'[p].step = "done" /\ request[p].step = "fed"
        BY <2>1, RequestMoves DEF Answered, Base, Types, TypeOK
      <3> QED
        BY <1>2, <3>1
    <2>2. CASE hold'[p] = None /\ (Refused(p) \/ Cancel(p) \/ HostRestarts)
      <3>1. CASE Refused(p) \/ Cancel(p)
        <4>1. request[p].step \in {"sent", "fed", "refused", "dead"}
          BY <3>1 DEF Refused, Cancel
        <4>2. request[p].step # "sent"
          <5>1. Refused(p) => request[p].step # "sent"
            BY DEF Refused
          <5>2. Cancel(p) /\ request[p].step = "sent" => request'[p].step = "cancelled"
            BY DEF Cancel, Base, Types, TypeOK, Request
          <5> QED
            BY <1>2, <3>1, <5>1, <5>2
        <4> QED
          BY <2>2, <4>1, <4>2
      <3>2. CASE HostRestarts
        BY <1>2, <2>2, <3>2, HostRestartsReturns DEF Base
      <3> QED
        BY <2>2, <3>1, <3>2
    <2>3. CASE /\ hold'[p] = None
               /\ \E e \in Events : e.kind = "released" /\ e.of = p
      <3>1. ~Early(p)
        BY <2>3 DEF Base, ToldInTime
      <3> QED
        BY <2>3, <3>1 DEF Early
    <2>4. CASE /\ hold[p] # None /\ hold'[p] # None /\ hold'[p].pending = hold[p].pending
               /\ \E e \in Events : /\ e.kind \in {"ok", "error"} /\ e.of = p
                                    /\ hold'[p].source = IF e.kind = "ok" THEN e.source
                                                                         ELSE hold[p].source
      BY <2>4 DEF HoldsWhileSent, Held
    <2>5. CASE /\ ResyncApplies /\ hold[p] = None /\ resync.upstream[p] # None
               /\ hold'[p] # None /\ ~hold'[p].pending
               /\ hold'[p].source = resync.upstream[p].source
      <3>1. ~Early(p)
        BY <2>5 DEF Base, ToldInTime
      <3> QED
        BY <2>5, <3>1 DEF Early
    <2>6. CASE /\ ResyncEnds /\ hold'[p] = None /\ hold[p] # None
               /\ resync.upstream[p] = None /\ ~hold[p].pending
      BY <2>6 DEF HoldsWhileSent, Held
    <2> QED
      BY <1>1, <1>2, <2>1, <2>2, <2>3, <2>4, <2>5, <2>6, FewStepsHold
  <1>3. ASSUME NEW c \in Channel, OpenLive(p, c) PROVE Fits(request'[p].step)
    <2>1. /\ request'[p].step = "sent"
          /\ hold'[p] # None /\ hold'[p].pending = TRUE
      BY <1>3, OpenLiveReturns DEF Base, Types, TypeOK
    <2> QED
      BY <2>1
  <1>4. ASSUME Answered(p) PROVE Fits("done")
    <2>1. request[p].token \in Open \cup {None} /\ hold' = Settle(p, request[p].token)
      BY <1>4 DEF Answered, Base, Types, TypeOK, Request
    <2> QED
      BY <2>1, SettleReturns DEF Base
  <1>5. ASSUME Refused(p) \/ Cancel(p) PROVE hold'[p] = None
    <2>1. Cancel(p) => hold'[p] = None
      BY DEF Cancel, Base, Types, TypeOK
    <2>2. ASSUME Refused(p) PROVE hold'[p] = None
      <3>1. CASE request[p].step = "dead"
        BY <2>2, <3>1, ReleasedTypes DEF Refused, Base
      <3>2. CASE request[p].step # "dead"
        BY <2>2, <3>2 DEF Refused, Base, Types, TypeOK
      <3> QED
        BY <3>1, <3>2
    <2> QED
      BY <1>5, <2>1, <2>2
  <1>6. ASSUME HostRestarts PROVE Fits(request'[p].step)
    <2>1. hold'[p] = None /\ request'[p].step # "sent"
      BY <1>6, HostRestartsReturns DEF HostRestarts, Base
    <2> QED
      BY <2>1
  <1>7. ASSUME EngineRestarts PROVE Fits(request'[p].step)
    <2>1. /\ hold' = hold
          /\ request'[p].step = CASE request[p].step \in {"sent", "fed"} -> "refused"
                                  [] request[p].step = "cancelled" -> "done"
                                  [] OTHER -> request[p].step
      BY <1>7, EngineRestartsReturns DEF EngineRestarts, Base
    <2> QED
      BY <1>1, <2>1
  <1>8. ASSUME request[p].step = "sent", request'[p].step \in {"fed", "refused", "dead"}
        PROVE  Fits(request'[p].step)
    BY <1>8
  <1>9. ASSUME request[p].step = "cancelled", request'[p].step = "done", UNCHANGED hold
        PROVE  Fits(request'[p].step)
    BY <1>1, <1>9
  <1>10. ASSUME hold'[p] = None, request'[p].step # "sent" PROVE Fits(request'[p].step)
    BY <1>10
  <1>11. Fits(request'[p].step)
    <2> HIDE DEF Fits
    <2> QED
      BY <1>2, <1>3, <1>4, <1>5, <1>6, <1>7, <1>8, <1>9, <1>10, FewStepsAsk
  <1> QED
    BY <1>11


(* A session that did not stray ran before, from the same source, or was    *)
(* opened where it is held.                                                 *)
LEMMA FewStepsStray ==
    ASSUME Base, [Next]_vars, NEW t \in Live' \ strayed'
    PROVE  \/ /\ t \in Live \ strayed /\ upstream'[t] = upstream[t]
              /\ ~Cancel(t) /\ ~HostRestarts /\ \A s \in Source : ~FailsOver(t, s)
              /\ ResyncEnds => ~(hold[t] # None /\ resync.upstream[t] = None /\ ~hold[t].pending)
           \/ \E s \in Source : /\ EngineOpens(t, s) /\ upstream'[t].source = s
                                /\ hold[t] # None /\ hold[t].source = s
  <1> USE DEF Base
  <1>0. t \in Open /\ upstream'[t] # None /\ t \notin strayed'
        /\ upstream \in [Open -> Upstream \cup {None}]
    BY DEF Live, Types, TypeOK
  <1>1. ~Cancel(t)
    BY <1>0 DEF Cancel, LosesHold, engineVars, Live
  <1>2. ~HostRestarts
    BY <1>0 DEF HostRestarts, LosesHold, Live
  <1>3. ASSUME NEW s \in Source PROVE ~FailsOver(t, s)
    BY <1>0 DEF FailsOver
  <1>4. ResyncEnds => ~(hold[t] # None /\ resync.upstream[t] = None /\ ~hold[t].pending)
    <2> SUFFICES ASSUME ResyncEnds, hold[t] # None, resync.upstream[t] = None,
                        ~hold[t].pending
                 PROVE  FALSE
      OBVIOUS
    <2>1. UNCHANGED upstream
      BY DEF ResyncEnds, engineVars
    <2>2. t \in Live /\ t \in {u \in Held : resync.upstream[u] = None /\ ~hold[u].pending}
      BY <1>0, <2>1 DEF Live, Held
    <2>3. t \in strayed'
      BY <2>2, ResyncEndsReturns
    <2> QED
      BY <1>0, <2>3
  <1> DEFINE Same == t \in Live \ strayed /\ upstream'[t] = upstream[t]
             Opened == \E s \in Source : /\ EngineOpens(t, s) /\ upstream'[t].source = s
                                         /\ hold[t] # None /\ hold[t].source = s
  <1>5. strayed \subseteq strayed' /\ UNCHANGED upstream => Same
    BY <1>0 DEF Live
  <1>6. ASSUME NEW o \in Open,
               \/ \E c \in Channel : OpenLive(o, c)
               \/ Answered(o) \/ Refused(o) \/ Cancel(o) \/ EngineRefuses(o)
               \/ \E u \in Open : EngineJoins(o, u)
        PROVE  Same
    <2>1. strayed \subseteq strayed' /\ UNCHANGED upstream
      BY <1>6 DEF OpenLive, Answered, Refused, Cancel, EngineRefuses, EngineJoins,
                  engineVars, history, LosesHold
    <2> QED
      BY <1>5, <2>1
  <1>7. ASSUME NEW o \in Open, ViewerIdles(o) \/ Leave(o) \/ LooksUp(o) \/ Enters(o)
        PROVE  Same
    <2>1. strayed \subseteq strayed' /\ UNCHANGED upstream
      BY <1>7 DEF ViewerIdles, Leave, LooksUp, Enters, engineVars, history
    <2> QED
      BY <1>5, <2>1
  <1>8. ASSUME LosesFeed \/ OnEvent \/ ResyncApplies \/ ResyncEnds \/ UNCHANGED vars
        PROVE  Same
    <2>1. strayed \subseteq strayed' /\ UNCHANGED upstream
      BY <1>8 DEF LosesFeed, OnEvent, ResyncApplies, ResyncEnds, vars, engineVars, history,
                  LosesHold
    <2> QED
      BY <1>5, <2>1
  <1>9. ~EngineRestarts
    BY <1>0, EngineRestartsReturns
  <1>10. ASSUME NEW u \in Open, NEW s \in Source, FailsOver(u, s) PROVE Same
    <2>1. u # t
      BY <1>3, <1>10
    <2>2. upstream'[t] = upstream[t]
      BY <1>0, <1>10, <2>1, FailsOverReturns
    <2>3. t \notin strayed
      BY <1>0, <1>10 DEF FailsOver
    <2> QED
      BY <1>0, <2>2, <2>3 DEF Live
  <1>11. ASSUME NEW u \in Open, Dies(u) \/ UpstreamIdles(u) PROVE Same
    <2>1. /\ upstream' = [x \in Open |-> IF x \in {u} THEN None ELSE upstream[x]]
          /\ strayed' = strayed \ {u}
      BY <1>11 DEF Dies, UpstreamIdles, Ends
    <2> QED
      BY <1>0, <2>1 DEF Live
  <1>12. ASSUME NEW o \in Open, NEW s \in Source, EngineOpens(o, s) PROVE Same \/ Opened
    <2>1. /\ upstream' = [upstream EXCEPT ![o] = [source |-> s, channel |-> request[o].channel]]
          /\ upstream'[o].source = s
          /\ strayed' = IF hold[o] = None \/ hold[o].source # s THEN strayed \cup {o} ELSE strayed
      BY <1>12, EngineOpensReturns DEF EngineOpens, Stray
    <2>2. CASE o = t
      BY <1>0, <1>12, <2>1, <2>2
    <2>3. CASE o # t
      <3>1. upstream'[t] = upstream[t] /\ t \notin strayed
        BY <1>0, <2>1, <2>3
      <3> QED
        BY <1>0, <3>1 DEF Live
    <2> QED
      BY <2>2, <2>3
  <1>13. Same \/ Opened
    <2> HIDE DEF Same, Opened
    <2> QED
      BY <1>2, <1>6, <1>7, <1>8, <1>9, <1>10, <1>11, <1>12 DEF Next
  <1> QED
    BY <1>1, <1>2, <1>3, <1>4, <1>13

(* A session that did not stray feeds where it is held.                     *)
LEMMA StepFeedsWhereHeld ==
    ASSUME Base, HoldsWhileSent, FeedsWhereHeld, [Next]_vars
    PROVE  FeedsWhereHeld'
  <1> SUFFICES ASSUME NEW t \in Live' \ strayed'
               PROVE  /\ hold'[t] # None /\ hold'[t].source = upstream'[t].source
                      /\ upstream'[t].source \notin request'[t].vetoed
                      /\ \A e \in Events' : e.kind = "ok" /\ e.of = t
                            => e.source = upstream'[t].source
    BY DEF FeedsWhereHeld, Held, Live
  <1>0. t \in Open
    BY DEF Live
  <1>1. ASSUME t \in Live \ strayed, upstream'[t] = upstream[t],
               ~Cancel(t), ~HostRestarts, \A s \in Source : ~FailsOver(t, s),
               ResyncEnds => ~(hold[t] # None /\ resync.upstream[t] = None /\ ~hold[t].pending)
        PROVE  /\ hold'[t] # None /\ hold'[t].source = upstream'[t].source
               /\ upstream'[t].source \notin request'[t].vetoed
               /\ \A e \in Events' : e.kind = "ok" /\ e.of = t
                     => e.source = upstream'[t].source
    <2>1. /\ hold[t] # None /\ hold[t].source = upstream[t].source
          /\ upstream[t].source \notin request[t].vetoed
          /\ \A e \in Events : e.kind = "ok" /\ e.of = t => e.source = upstream[t].source
      BY <1>1 DEF FeedsWhereHeld, Held
    <2>2. request[t].step \in {"fed", "done"} /\ request[t].token = t
      BY <1>0, <1>1 DEF Base, RunsAnswered
    <2>3. upstream'[t].source \notin request'[t].vetoed
      BY <1>0, <1>1, <2>1, <2>2, StepRequests DEF Base
    <2>4. ASSUME NEW e \in Events', e.kind = "ok", e.of = t
          PROVE  e.source = upstream'[t].source
      <3>1. CASE e \in Events
        BY <1>1, <2>1, <2>4, <3>1
      <3>2. CASE e \notin Events
        <4>1. ASSUME NEW o \in Open, NEW s \in Source, EngineOpens(o, s) PROVE FALSE
          <5>1. e.of = o
            <6>1. \/ e.kind = "error" /\ e.of = o
                  \/ e = [kind |-> "ok", of |-> o, source |-> s]
              BY <3>2, <4>1, OpensTells DEF Base
            <6> QED
              BY <6>1
          <5>2. request[o].step \in {"sent", "cancelled"}
            BY <4>1 DEF EngineOpens
          <5> QED
            BY <2>2, <2>4, <5>1, <5>2
        <4>2. ASSUME NEW o \in Open, NEW s \in Source, FailsOver(o, s) PROVE FALSE
          <5>1. e.of = o
            <6>1. \/ e.kind = "error" /\ e.of = o
                  \/ e = [kind |-> "ok", of |-> o, source |-> s]
              BY <3>2, <4>2, FailsOverTells DEF Base
            <6> QED
              BY <6>1
          <5> QED
            BY <1>1, <2>4, <4>2, <5>1
        <4>3. ASSUME NEW o \in Open, Dies(o) PROVE FALSE
          <5>1. \/ e.kind = "error"
                \/ e = [kind |-> "released", of |-> o]
                \/ e.kind = "ended"
            BY <3>2, <4>3, DiesTells DEF Base
          <5> QED
            BY <2>4, <5>1
        <4>4. ASSUME NEW o \in Open, UpstreamIdles(o) \/ ViewerIdles(o) \/ Leave(o) PROVE FALSE
          <5>1. e = [kind |-> "released", of |-> o] \/ e = [kind |-> "ended", of |-> o]
            BY <3>2, <4>4, UpstreamIdlesTells, ViewerIdlesTells, LeaveTells DEF Base
          <5> QED
            BY <2>4, <5>1
        <4>5. Events' # {[kind |-> "resync"]}
          BY <2>4
        <4> QED
          BY <3>2, <4>1, <4>2, <4>3, <4>4, <4>5, FewStepsTell DEF Base
      <3> QED
        BY <3>1, <3>2
    <2>5. hold'[t] # None /\ hold'[t].source = hold[t].source
      <3>1. CASE hold'[t] = hold[t]
        BY <2>1, <3>1
      <3>2. ~Refused(t)
        BY <2>2 DEF Refused
      <3>3. ASSUME NEW c \in Channel PROVE ~OpenLive(t, c)
        BY <2>2 DEF OpenLive
      <3>4. CASE Answered(t) /\ hold' = Settle(t, request[t].token)
        BY <1>0, <2>1, <2>2, <3>4, SettleReturns DEF Base, Held
      <3>5. ~\E e \in Events : e.kind = "released" /\ e.of = t
        BY <1>1 DEF Base, ToldInTime
      <3>6. CASE /\ hold[t] # None /\ hold'[t] # None /\ hold'[t].pending = hold[t].pending
                 /\ \E e \in Events : /\ e.kind \in {"ok", "error"} /\ e.of = t
                                      /\ hold'[t].source = IF e.kind = "ok" THEN e.source
                                                                           ELSE hold[t].source
        BY <2>1, <3>6
      <3> QED
        BY <1>0, <1>1, <2>1, <3>1, <3>2, <3>3, <3>4, <3>5, <3>6, FewStepsHold
    <2> QED
      BY <1>1, <2>1, <2>3, <2>4, <2>5
  <1>2. ASSUME NEW s \in Source, EngineOpens(t, s), upstream'[t].source = s,
               hold[t] # None, hold[t].source = s
        PROVE  /\ hold'[t] # None /\ hold'[t].source = upstream'[t].source
               /\ upstream'[t].source \notin request'[t].vetoed
               /\ \A e \in Events' : e.kind = "ok" /\ e.of = t
                     => e.source = upstream'[t].source
    <2>1. /\ UNCHANGED hold
          /\ request[t].step \in {"sent", "cancelled"}
      BY <1>2 DEF EngineOpens
    <2>2. s \notin request'[t].vetoed
      BY <1>0, <1>2, EngineOpensReturns DEF Base, Moves
    <2>3. ASSUME NEW e \in Events', e.kind = "ok", e.of = t PROVE e.source = s
      <3>1. e \notin Events
        BY <2>1, <2>3 DEF Base, ToldInTime, Early
      <3>2. \/ e.kind = "error" /\ e.of = t
            \/ e = [kind |-> "ok", of |-> t, source |-> s]
        BY <1>0, <1>2, <3>1, OpensTells DEF Base
      <3> QED
        BY <2>3, <3>2
    <2> QED
      BY <1>2, <2>1, <2>2, <2>3
  <1> QED
    BY <1>1, <1>2, FewStepsStray


(* Finite sets of opens. *)
LEMMA OpensFinite ==
    ASSUME NEW X \in SUBSET Open
    PROVE  /\ IsFiniteSet(X) /\ Cardinality(X) \in Nat
           /\ \A Y \in SUBSET X : Cardinality(Y) <= Cardinality(X)
           /\ \A o \in Open : Cardinality(X \cup {o}) <= Cardinality(X) + 1
           /\ \A o \in Open \ X : Cardinality(X \cup {o}) = Cardinality(X) + 1
  <1>1. IsFiniteSet(X)
    BY TunerAssumption, FS_Subset
  <1>2. Cardinality(X) \in Nat
    BY <1>1, FS_CardinalityType
  <1>3. \A Y \in SUBSET X : Cardinality(Y) <= Cardinality(X)
    BY <1>1, FS_Subset
  <1>4. ASSUME NEW o \in Open
        PROVE  /\ Cardinality(X \cup {o}) <= Cardinality(X) + 1
               /\ o \notin X => Cardinality(X \cup {o}) = Cardinality(X) + 1
    <2>1. CASE o \in X
      <3>1. X \cup {o} = X
        BY <2>1
      <3>2. Cardinality(X \cup {o}) = Cardinality(X)
        BY <3>1, Zenon
      <3> QED
        BY <1>2, <2>1, <3>2
    <2>2. CASE o \notin X
      <3>1. Cardinality(X \cup {o}) = Cardinality(X) + 1
        BY <1>1, <2>2, FS_AddElement
      <3> QED
        BY <1>2, <3>1
    <2> QED
      BY <2>1, <2>2
  <1> QED
    BY <1>1, <1>2, <1>3, <1>4

(* Only an open adds to what a source had room for. *)
LEMMA CountedGrows ==
    ASSUME Base, HoldsWhileSent, FeedsWhereHeld, [Next]_vars, NEW s \in Source,
           NEW t \in Counted(s)'
    PROVE  \/ t \in Counted(s)
           \/ \E c \in Channel : OpenLive(t, c) /\ request'[t].step = "sent"
  <1>1. /\ t \in Open /\ hold'[t] # None /\ hold'[t].source = s
        /\ s \notin request'[t].vetoed
        /\ request'[t].step = "sent" \/ t \in Live' \ strayed'
    BY DEF Counted, Held, Live
  <1>2. CASE t \in Live' \ strayed'
    <2>1. /\ hold'[t].source = upstream'[t].source /\ upstream'[t].source \notin request'[t].vetoed
      BY <1>2, StepFeedsWhereHeld DEF FeedsWhereHeld
    <2>2. CASE t \in Live \ strayed /\ upstream'[t] = upstream[t]
      <3>1. hold[t] # None /\ hold[t].source = s /\ s \notin request[t].vetoed
        BY <1>1, <2>1, <2>2 DEF FeedsWhereHeld, Held
      <3> QED
        BY <1>1, <2>2, <3>1 DEF Counted, Held
    <2>3. CASE \E r \in Source : /\ EngineOpens(t, r) /\ upstream'[t].source = r
                                 /\ hold[t] # None /\ hold[t].source = r
      <3>1. EngineOpens(t, s) /\ hold[t] # None /\ hold[t].source = s
        BY <1>1, <2>1, <2>3
      <3>2. request[t].step \in {"sent", "cancelled"}
        BY <3>1 DEF EngineOpens
      <3>3. request[t].step = "sent"
        BY <1>1, <3>1, <3>2 DEF HoldsWhileSent, Held
      <3>4. s \notin request[t].vetoed
        BY <1>1, <3>1, EngineOpensReturns DEF Base
      <3> QED
        BY <1>1, <3>1, <3>3, <3>4 DEF Counted, Held
    <2> QED
      BY <1>2, <2>2, <2>3, FewStepsStray
  <1>3. CASE request'[t].step = "sent"
    <2>1. CASE \E c \in Channel : OpenLive(t, c)
      BY <1>3, <2>1
    <2>2. CASE ~\E c \in Channel : OpenLive(t, c)
      <3>1. request[t].step = "sent"
        <4>1. EngineRestarts => request'[t].step # "sent"
          BY <1>1, EngineRestartsReturns DEF Base
        <4>2. HostRestarts => request'[t].step # "sent"
          BY <1>1, HostRestartsReturns DEF Base
        <4> QED
          BY <1>1, <1>3, <2>2, <4>1, <4>2, FewStepsAsk
      <3>2. hold[t] # None /\ hold[t].pending
        BY <1>1, <3>1 DEF HoldsWhileSent, Held
      <3>3. hold'[t] = hold[t]
        <4>1. ~Answered(t) /\ ~Refused(t)
          BY <3>1 DEF Answered, Refused
        <4>2. ~\E e \in Events : e.kind # "resync" /\ e.of = t
          BY <3>1 DEF Base, ToldInTime, Early
        <4> QED
          BY <1>1, <2>2, <3>2, <4>1, <4>2, FewStepsHold
      <3>4. request'[t].vetoed = request[t].vetoed
        BY <1>1, <3>1, StepRequests DEF Base
      <3> QED
        BY <1>1, <3>1, <3>2, <3>3, <3>4 DEF Counted, Held
    <2> QED
      BY <2>1, <2>2
  <1> QED
    BY <1>1, <1>2, <1>3

(* The opens that a source had room for stay within its limit. *)
LEMMA StepWithinLimits ==
    ASSUME Base, Capacity, [Next]_vars
    PROVE  WithinLimits'
  <1> SUFFICES ASSUME NEW s \in Source, MaxStreams[s] # 0
               PROVE  Cardinality(Counted(s)') <= MaxStreams[s]
    BY DEF WithinLimits
  <1> USE DEF Capacity
  <1>0. /\ MaxStreams[s] \in Nat /\ Counted(s) \in SUBSET Open
        /\ HoldsOn(s) \in SUBSET Open /\ Counted(s) \subseteq HoldsOn(s)
    BY TunerAssumption DEF Counted, Held, HoldsOn
  <1>1. CASE Counted(s)' \subseteq Counted(s)
    <2>1. Cardinality(Counted(s)') <= Cardinality(Counted(s))
      BY <1>0, <1>1, OpensFinite
    <2>2. Cardinality(Counted(s)) <= MaxStreams[s]
      BY DEF WithinLimits
    <2>3. Cardinality(Counted(s)) \in Nat /\ Cardinality(Counted(s)') \in Nat
      BY <1>0, <1>1, OpensFinite
    <2> QED
      BY <1>0, <2>1, <2>2, <2>3
  <1>2. ASSUME NEW o \in Counted(s)', NEW c \in Channel, OpenLive(o, c)
        PROVE  Cardinality(Counted(s)') <= MaxStreams[s]
    <2>1. o \in Open
      BY <1>2 DEF Counted, Held
    <2>2. PICK vetoed \in SUBSET Source, r \in Source :
             /\ request' = [request EXCEPT ![o] = [step |-> "sent", channel |-> c,
                                                   vetoed |-> vetoed, token |-> None]]
             /\ hold' = [hold EXCEPT ![o] = [source |-> r, fed |-> None, pending |-> TRUE]]
             /\ closing' \in [Source -> Nat]
             /\ r \in vetoed \/ ~Full(r, closing'[r])
      BY <1>2, <2>1, OpenLiveReturns DEF Base
    <2>3. r = s /\ s \notin vetoed
      <3>1. hold'[o].source = s /\ s \notin request'[o].vetoed
        BY <1>2 DEF Counted
      <3>2. hold'[o].source = r /\ request'[o].vetoed = vetoed
        BY <2>1, <2>2 DEF Base, Types, TypeOK
      <3> QED
        BY <3>1, <3>2
    <2>4. /\ Cardinality(HoldsOn(s)) \in Nat /\ closing'[s] \in Nat
          /\ Cardinality(HoldsOn(s)) + closing'[s] < MaxStreams[s]
      BY <1>0, <2>2, <2>3, OpensFinite DEF Full
    <2>5. Counted(s)' \subseteq HoldsOn(s) \cup {o}
      <3> SUFFICES ASSUME NEW u \in Counted(s)', u # o PROVE u \in HoldsOn(s)
        OBVIOUS
      <3>1. u \in Open
        BY DEF Counted, Held
      <3>2. request[u] = request'[u]
        BY <2>2, <3>1 DEF Base, Types, TypeOK
      <3>3. \A d \in Channel : OpenLive(u, d) => request'[u].step # "sent"
        BY <3>2 DEF OpenLive
      <3>4. u \in Counted(s)
        BY <3>3, CountedGrows
      <3> QED
        BY <1>0, <3>4
    <2>6. Cardinality(Counted(s)') <= Cardinality(HoldsOn(s) \cup {o})
      <3>1. HoldsOn(s) \cup {o} \in SUBSET Open
        BY <1>0, <2>1
      <3> QED
        BY <2>5, <3>1, OpensFinite
    <2>7. Cardinality(HoldsOn(s) \cup {o}) <= Cardinality(HoldsOn(s)) + 1
      BY <1>0, <2>1, OpensFinite
    <2>8. Cardinality(HoldsOn(s) \cup {o}) \in Nat /\ Cardinality(Counted(s)') \in Nat
      <3>1. HoldsOn(s) \cup {o} \in SUBSET Open /\ Counted(s)' \in SUBSET Open
        BY <1>0, <2>1, <2>5
      <3> QED
        BY <3>1, OpensFinite
    <2> QED
      BY <1>0, <2>4, <2>6, <2>7, <2>8
  <1> QED
    BY <1>1, <1>2, CountedGrows

LEMMA StepCapacity == ASSUME Base, Capacity, [Next]_vars PROVE Capacity'
  BY StepHoldsWhileSent, StepFeedsWhereHeld, StepWithinLimits DEF Capacity

LEMMA InitCapacity == Init => Capacity
  <1> SUFFICES ASSUME Init PROVE Capacity
    OBVIOUS
  <1>1. HoldsWhileSent /\ FeedsWhereHeld
    BY DEF Init, HoldsWhileSent, FeedsWhereHeld, Held, Live
  <1>2. \A s \in Source : Counted(s) = {}
    BY DEF Init, Counted, Held
  <1>3. \A s \in Source : MaxStreams[s] \in Nat
    BY TunerAssumption
  <1>4. Cardinality({}) = 0
    BY FS_EmptySet
  <1>5. WithinLimits
    BY <1>2, <1>3, <1>4 DEF WithinLimits
  <1> QED
    BY <1>1, <1>5 DEF Capacity


-----------------------------------------------------------------------------
(* The third layer.                                                         *)

(* What was cut short or forgotten stays on record. *)
LEMMA HistoryGrows ==
    ASSUME [Next]_vars
    PROVE  left \subseteq left' /\ forgotten \subseteq forgotten'
  <1>1. ASSUME NEW o \in Open,
             \/ \E c \in Channel : OpenLive(o, c)
             \/ Answered(o) \/ Refused(o) \/ Cancel(o) \/ EngineRefuses(o)
             \/ \E t \in Open : EngineJoins(o, t)
             \/ LooksUp(o) \/ Enters(o) \/ Leave(o)
        PROVE  left \subseteq left' /\ forgotten \subseteq forgotten'
    BY <1>1 DEF OpenLive, Answered, Refused, Cancel, EngineRefuses, EngineJoins, LooksUp,
                Enters, Leave, history
  <1>2. ASSUME NEW o \in Open,
             \/ \E s \in Source : EngineOpens(o, s) \/ FailsOver(o, s)
             \/ Dies(o) \/ UpstreamIdles(o) \/ ViewerIdles(o)
        PROVE  left \subseteq left' /\ forgotten \subseteq forgotten'
    BY <1>2 DEF EngineOpens, FailsOver, Dies, UpstreamIdles, ViewerIdles, history
  <1>3. ASSUME \/ LosesFeed \/ EngineRestarts \/ HostRestarts \/ OnEvent
               \/ ResyncApplies \/ ResyncEnds \/ UNCHANGED vars
        PROVE  left \subseteq left' /\ forgotten \subseteq forgotten'
    BY <1>3 DEF LosesFeed, EngineRestarts, HostRestarts, OnEvent, ResyncApplies,
                ResyncEnds, vars, history
  <1> QED
    BY <1>1, <1>2, <1>3 DEF Next

(* A viewer that runs on is not forgotten, unless the host restarts. *)
LEMMA WatchedStaysKnown ==
    ASSUME Base, MissedIsOver, [Next]_vars, NEW v \in Open, v \in Known, v \in Watched'
    PROVE  viewer'[v] = viewer[v] \/ HostRestarts
  <1>1. v \in Watched /\ ~Early(v)
    BY StartsOnce DEF Base, KnownInTime
  <1>2. ASSUME OnEvent PROVE viewer'[v] = viewer[v]
    <2>1. \/ UNCHANGED viewer
          \/ /\ viewer' = [viewer EXCEPT ![Head(feed).of] = None]
             /\ Head(feed).kind = "ended"
      BY <1>2 DEF OnEvent
    <2>2. Head(feed) \in Events
      BY <1>2, TailEvents DEF OnEvent, Base, Types, TypeOK
    <2>3. Head(feed).kind = "ended" => Head(feed).of # v
      BY <1>1, <2>2 DEF Base, ToldInTime
    <2> QED
      BY <2>1, <2>3 DEF Base, Types, TypeOK
  <1>3. ASSUME NEW o \in Open, Leave(o) PROVE viewer'[v] = viewer[v]
    <2>1. o # v
      BY <1>3 DEF Leave, Watched, Base, Types, TypeOK
    <2> QED
      BY <1>3, <2>1 DEF Leave, Base, Types, TypeOK
  <1>4. ASSUME ResyncApplies PROVE viewer'[v] = viewer[v]
    <2>1. resync.step = "listed" /\ viewer'[v] = FollowList(v)
      BY <1>4, ResyncAppliesReturns DEF Base
    <2> QED
      BY <1>1, <2>1 DEF FollowList, MissedIsOver, Known
  <1>5. ASSUME NEW o \in Open, Answered(o) PROVE viewer'[v] = viewer[v]
    BY <1>5 DEF Answered, Known, Base, KnownInTime, Types, TypeOK
  <1>6. ASSUME NEW o \in Open, Enters(o) PROVE viewer'[v] = viewer[v]
    BY <1>6 DEF Enters, Known, Base, Types, TypeOK
  <1>7. ASSUME NEW o \in Open,
               \/ \E c \in Channel : OpenLive(o, c)
               \/ Refused(o) \/ Cancel(o) \/ EngineRefuses(o) \/ LooksUp(o)
               \/ \E t \in Open : EngineJoins(o, t)
        PROVE  viewer'[v] = viewer[v]
    BY <1>7 DEF OpenLive, Refused, Cancel, EngineRefuses, EngineJoins, LooksUp
  <1>8. ASSUME NEW o \in Open,
               \/ \E s \in Source : EngineOpens(o, s) \/ FailsOver(o, s)
               \/ Dies(o) \/ UpstreamIdles(o) \/ ViewerIdles(o)
        PROVE  viewer'[v] = viewer[v]
    BY <1>8 DEF EngineOpens, FailsOver, Dies, UpstreamIdles, ViewerIdles, hostVars
  <1>9. LosesFeed \/ EngineRestarts \/ ResyncEnds \/ UNCHANGED vars => viewer'[v] = viewer[v]
    BY DEF LosesFeed, EngineRestarts, ResyncEnds, vars, hostVars
  <1> QED
    BY <1>2, <1>3, <1>4, <1>5, <1>6, <1>7, <1>8, <1>9 DEF Next

(* A viewer that runs is known, or its open waits for the answer.           *)
LEMMA StepViewersAreTaken ==
    ASSUME Base, HoldsWhileSent, ViewersAreTaken, MissedIsOver, [Next]_vars
    PROVE  ViewersAreTaken'
  <1> SUFFICES ASSUME NEW v \in Open
               PROVE  /\ request'[v].step = "fed" /\ watching'[v] # None
                           => hold'[v] # None /\ hold'[v].pending
                      /\ request'[v].step = "done" /\ watching'[v] # None
                            /\ v \notin left' \cup forgotten' => viewer'[v] # None
                      /\ request'[v].step = "cancelled" => v \in left'
    BY DEF ViewersAreTaken, Held, Watched, Known
  <1>1. left \subseteq left' /\ forgotten \subseteq forgotten'
    BY HistoryGrows
  <1>2. HostRestarts => /\ request'[v].step # "fed"
                        /\ request'[v].step = "cancelled" => v \in left'
                        /\ watching'[v] # None => v \in forgotten'
    <2> SUFFICES ASSUME HostRestarts
                 PROVE  /\ request'[v].step # "fed"
                        /\ request'[v].step = "cancelled" => v \in left'
                        /\ watching'[v] # None => v \in forgotten'
      OBVIOUS
    <2>1. /\ request'[v].step = IF request[v].step = "sent" THEN "cancelled"
                                ELSE IF request[v].step = "new" THEN "new"
                                ELSE IF request[v].step = "cancelled" THEN "cancelled"
                                ELSE "done"
          /\ left' = left \cup {o \in Open : request[o].step
                                              \in {"sent", "fed", "refused", "dead"}}
      BY HostRestartsReturns DEF Base
    <2>2. watching' = watching /\ forgotten' = forgotten \cup Watched
      BY DEF HostRestarts
    <2> QED
      BY <2>1, <2>2 DEF ViewersAreTaken, Watched
  <1>3. request'[v].step = "cancelled" => v \in left'
    <2>1. EngineRestarts => request'[v].step # "cancelled"
      BY EngineRestartsReturns DEF Base, Types, TypeOK
    <2>2. Cancel(v) => v \in left'
      BY DEF Cancel
    <2> QED
      BY <1>1, <1>2, <2>1, <2>2, FewStepsAsk DEF ViewersAreTaken
  <1>4. ASSUME request'[v].step = "fed", watching'[v] # None
        PROVE  hold'[v] # None /\ hold'[v].pending
    <2>1. ~EngineRestarts /\ ~HostRestarts
      BY <1>2, <1>4, EngineRestartsReturns DEF Base
    <2>2. CASE request[v].step = "fed"
      <3>1. v \in Watched
        BY <1>4, <2>2, StartsOnce DEF Base, Early, Watched
      <3>2. v \in Watched /\ hold[v] # None /\ hold[v].pending
        BY <1>4, <2>2, <3>1 DEF ViewersAreTaken, Watched, Held
      <3>3. hold'[v] # None /\ hold'[v].pending = hold[v].pending
        <4>1. ~Refused(v)
          BY <2>2 DEF Refused
        <4>2. ASSUME NEW c \in Channel PROVE ~OpenLive(v, c)
          BY <2>2 DEF OpenLive
        <4>3. ~Answered(v)
          <5>1. Answered(v) => request'[v].step = "done"
            BY RequestMoves DEF Answered, Base, Types, TypeOK
          <5> QED
            BY <1>4, <5>1
        <4>4. ~Cancel(v)
          <5>1. Cancel(v) => request'[v].step \in {"cancelled", "done"}
            BY DEF Cancel, Base, Types, TypeOK, Request
          <5> QED
            BY <1>4, <5>1
        <4>5. ~\E e \in Events : e.kind = "released" /\ e.of = v
          BY <3>2 DEF Base, ToldInTime
        <4> QED
          BY <2>1, <3>2, <4>1, <4>2, <4>3, <4>4, <4>5, FewStepsHold
      <3> QED
        BY <3>2, <3>3
    <2>3. CASE request[v].step # "fed"
      <3>1. request[v].step = "sent" /\ UNCHANGED hold
        BY <1>4, <2>1, <2>3, FewStepsAsk
      <3> QED
        BY <3>1 DEF HoldsWhileSent, Held
    <2> QED
      BY <2>2, <2>3
  <1>5. ASSUME request'[v].step = "done", watching'[v] # None, v \notin left' \cup forgotten'
        PROVE  viewer'[v] # None
    <2>1. ~EngineRestarts /\ ~HostRestarts
      BY <1>2, <1>5, EngineRestartsReturns DEF Base
    <2>2. v \notin left /\ v \notin forgotten
      BY <1>1, <1>5
    <2>3. CASE request[v].step = "done"
      <3>1. v \in Watched
        BY <1>5, <2>3, StartsOnce DEF Base, Early, Watched
      <3>2. v \in Known
        BY <2>2, <2>3, <3>1 DEF ViewersAreTaken
      <3>3. viewer'[v] = viewer[v]
        BY <1>5, <2>1, <3>1, <3>2, WatchedStaysKnown DEF Watched
      <3> QED
        BY <3>2, <3>3 DEF Known
    <2>4. CASE request[v].step # "done"
      <3>1. CASE Answered(v)
        <4>1. viewer'[v] = request[v].token /\ request[v].token \in Open
          BY <3>1 DEF Answered, Base, Named, Types, TypeOK
        <4> QED
          BY <4>1, TunerAssumption
      <3>2. CASE Refused(v)
        <4>1. UNCHANGED watching /\ request[v].step \in {"refused", "dead"}
          BY <3>2 DEF Refused, engineVars
        <4> QED
          BY <1>5, <4>1 DEF Base, RunsAnswered, Watched
      <3>3. CASE Cancel(v)
        BY <1>5, <3>3 DEF Cancel
      <3>4. CASE request[v].step = "cancelled"
        BY <2>2, <3>4 DEF ViewersAreTaken
      <3> QED
        BY <1>5, <2>1, <2>4, <3>1, <3>2, <3>3, <3>4, FewStepsAsk
    <2> QED
      BY <2>3, <2>4
  <1> QED
    BY <1>3, <1>4, <1>5


(* A viewer that the list misses has ended. *)
LEMMA StepMissedIsOver ==
    ASSUME Base, MissedIsOver, [Next]_vars
    PROVE  MissedIsOver'
  <1> SUFFICES ASSUME resync'.step = "listed", NEW v \in resync'.known,
                      resync'.watching[v] = None
               PROVE  v \notin Watched'
    BY DEF MissedIsOver
  <1> USE DEF Base
  <1>1. CASE UNCHANGED resync
    <2>1. v \in Open /\ ~Early(v) /\ v \notin Watched
      BY <1>1 DEF MissedIsOver, KnownInTime, Types
    <2> QED
      BY <2>1, StartsOnce
  <1>2. CASE Lists
    <2>1. v \in Open /\ watching[v] = None /\ ~Early(v)
      BY <1>2 DEF Lists, Known, KnownInTime, Types, TypeOK
    <2> QED
      BY <2>1, StartsOnce DEF Watched
  <1>3. ~ResyncApplies /\ resync' # NoList
    BY ResyncAppliesReturns DEF NoList
  <1> QED
    BY <1>1, <1>2, <1>3, FewStepsList, ResyncEndsReturns DEF HostRestarts

(* Only an open adds to the viewers that count. *)
LEMMA WatchingGrows ==
    ASSUME Base, ViewersAreTaken, [Next]_vars, NEW v \in Watching'
    PROVE  \/ v \in Watching
           \/ \E c \in Channel : OpenLive(v, c) /\ request'[v].step = "sent"
  <1>1. v \in Open
    BY DEF Watching
  <1>2. CASE request'[v].step = "sent"
    <2>1. EngineRestarts => request'[v].step # "sent"
      BY <1>1, EngineRestartsReturns DEF Base
    <2>2. HostRestarts => request'[v].step # "sent"
      BY <1>1, HostRestartsReturns DEF Base
    <2> QED
      BY <1>1, <1>2, <2>1, <2>2, FewStepsAsk DEF Watching
  <1>3. CASE v \in Watched' \ (left' \cup forgotten')
    <2>1. v \notin left /\ v \notin forgotten
      BY <1>3, HistoryGrows
    <2>2. CASE v \in Watched
      BY <1>1, <2>1, <2>2 DEF Watching
    <2>3. CASE v \notin Watched
      <3>1. ~Shrinks
        BY <1>1, <1>3, <2>3 DEF Shrinks, Watched
      <3>2. PICK o \in Open : \/ \E t \in Open : EngineJoins(o, t)
                              \/ \E s \in Source : EngineOpens(o, s)
        BY <3>1, FewStepsRun DEF Base
      <3>3. o = v
        BY <1>1, <1>3, <2>3, <3>2 DEF EngineJoins, EngineOpens, Watched, Base, Types, TypeOK
      <3>4. request[v].step \in {"sent", "cancelled"}
        BY <3>2, <3>3 DEF EngineJoins, EngineOpens
      <3>5. request[v].step = "sent" \/ v \in left
        BY <1>1, <3>4 DEF ViewersAreTaken
      <3> QED
        BY <1>1, <2>1, <3>5 DEF Watching
    <2> QED
      BY <2>2, <2>3
  <1> QED
    BY <1>2, <1>3 DEF Watching, Watched

(* The viewers that count stay within the cap. *)
LEMMA StepWithinCap ==
    ASSUME Base, HoldsWhileSent, Viewers, [Next]_vars
    PROVE  WithinCap'
  <1> USE DEF Viewers
  <1> SUFFICES ASSUME limit' # 0
               PROVE  Cardinality(Watching') <= limit'
    BY DEF WithinCap
  <1>0. /\ limit' = limit /\ limit \in Nat
        /\ Watching \in SUBSET Open /\ Taken \in SUBSET Open
    BY DEF Next, vars, Base, Types, Watching, Taken, Known, Held
  <1>1. CASE Watching' \subseteq Watching
    <2>1. Cardinality(Watching') <= Cardinality(Watching)
      BY <1>0, <1>1, OpensFinite
    <2>2. Cardinality(Watching) <= limit
      BY <1>0 DEF WithinCap
    <2>3. Cardinality(Watching) \in Nat /\ Cardinality(Watching') \in Nat
      BY <1>0, <1>1, OpensFinite
    <2> QED
      BY <1>0, <2>1, <2>2, <2>3
  <1>2. ASSUME NEW o \in Watching', NEW c \in Channel, OpenLive(o, c)
        PROVE  Cardinality(Watching') <= limit'
    <2>1. o \in Open
      BY <1>2 DEF Watching
    <2>2. Cardinality(Taken) < limit /\ Cardinality(Taken) \in Nat
      BY <1>0, <1>2, OpensFinite DEF OpenLive
    <2>3. Watching \subseteq Taken
      <3> SUFFICES ASSUME NEW v \in Watching PROVE v \in Taken
        OBVIOUS
      <3>1. v \in Open
        BY DEF Watching
      <3>2. CASE request[v].step = "sent"
        BY <3>1, <3>2 DEF HoldsWhileSent, Taken
      <3>3. CASE v \in Watched \ (left \cup forgotten)
        <4>1. request[v].step \in {"fed", "done"}
          BY <3>1, <3>3 DEF Base, RunsAnswered
        <4> QED
          BY <3>1, <3>3, <4>1 DEF ViewersAreTaken, Taken
      <3> QED
        BY <3>2, <3>3 DEF Watching
    <2>4. Watching' \subseteq Taken \cup {o}
      <3> SUFFICES ASSUME NEW u \in Watching', u # o PROVE u \in Taken
        OBVIOUS
      <3>1. u \in Open
        BY DEF Watching
      <3>2. request[u] = request'[u]
        BY <1>2, <2>1, <3>1, OpenLiveReturns DEF Base, Types, TypeOK
      <3>3. \A d \in Channel : OpenLive(u, d) => request'[u].step # "sent"
        BY <3>2 DEF OpenLive
      <3> QED
        BY <2>3, <3>3, WatchingGrows
    <2>5. Taken \cup {o} \in SUBSET Open
      BY <1>0, <2>1
    <2>6. Cardinality(Watching') <= Cardinality(Taken \cup {o})
      BY <2>4, <2>5, OpensFinite
    <2>7. Cardinality(Taken \cup {o}) <= Cardinality(Taken) + 1
      BY <1>0, <2>1, OpensFinite
    <2>8. Cardinality(Taken \cup {o}) \in Nat /\ Cardinality(Watching') \in Nat
      <3>1. Watching' \in SUBSET Open
        BY <2>4, <2>5
      <3> QED
        BY <2>5, <3>1, OpensFinite
    <2> QED
      BY <1>0, <2>2, <2>6, <2>7, <2>8
  <1> QED
    BY <1>1, <1>2, WatchingGrows

LEMMA StepViewers == ASSUME Base, Capacity, Viewers, [Next]_vars PROVE Viewers'
  BY StepViewersAreTaken, StepMissedIsOver, StepWithinCap DEF Capacity, Viewers

LEMMA InitViewers == Init => Viewers
  <1> SUFFICES ASSUME Init PROVE Viewers
    OBVIOUS
  <1>1. ViewersAreTaken /\ MissedIsOver
    BY DEF Init, ViewersAreTaken, MissedIsOver, NoList, Held, Watched, Known
  <1>2. Watching = {} /\ limit \in Nat
    BY TunerAssumption DEF Init, Watching, Watched
  <1>3. Cardinality(Watching) = 0
    BY <1>2, FS_EmptySet
  <1>4. WithinCap
    BY <1>2, <1>3 DEF WithinCap
  <1> QED
    BY <1>1, <1>4 DEF Viewers



-----------------------------------------------------------------------------
(* The fourth layer.                                                        *)

(* An event stays on its way until the host takes it or the feed breaks. *)
LEMMA EventsStay ==
    ASSUME Types, Named, [Next]_vars, NEW e \in Events
    PROVE  \/ e \in Events'
           \/ LosesFeed \/ EngineRestarts \/ HostRestarts
           \/ OnEvent /\ e = Head(feed)
  <1>1. UNCHANGED feed => e \in Events'
    BY DEF Events
  <1>2. ASSUME NEW o \in Open,
               \/ \E c \in Channel : OpenLive(o, c)
               \/ Answered(o) \/ Refused(o) \/ Cancel(o) \/ EngineRefuses(o)
               \/ \E t \in Open : EngineJoins(o, t)
               \/ LooksUp(o) \/ Enters(o)
        PROVE  UNCHANGED feed
    BY <1>2 DEF OpenLive, Answered, Refused, Cancel, EngineRefuses, EngineJoins, LooksUp,
                Enters, engineVars
  <1>3. ResyncApplies \/ ResyncEnds \/ UNCHANGED vars => UNCHANGED feed
    BY DEF ResyncApplies, ResyncEnds, vars, engineVars
  <1>4. OnEvent => e \in Events' \/ e = Head(feed)
    BY TailEvents DEF OnEvent, Types, TypeOK
  <1>5. ASSUME NEW o \in Open, NEW s \in Source, EngineOpens(o, s) \/ FailsOver(o, s)
        PROVE  e \in Events'
    BY <1>5, OpensTells, FailsOverTells
  <1>6. ASSUME NEW o \in Open, Dies(o) \/ UpstreamIdles(o) \/ ViewerIdles(o) \/ Leave(o)
        PROVE  e \in Events'
    BY <1>6, DiesTells, UpstreamIdlesTells, ViewerIdlesTells, LeaveTells
  <1> QED
    BY <1>1, <1>2, <1>3, <1>4, <1>5, <1>6 DEF Next

(* A break, and a restart, is followed by a resync. *)
LEMMA BreaksTell == LosesFeed \/ EngineRestarts \/ HostRestarts => ResyncComes'
  <1>1. FeedBreaks => ResyncComes'
    <2>1. FeedBreaks => Events' = {[kind |-> "resync"]}
      BY BrokenEvents
    <2>2. PICK r : r = [kind |-> "resync"]
      OBVIOUS
    <2>3. r.kind = "resync" /\ (FeedBreaks => r \in Events')
      BY <2>1, <2>2
    <2> QED
      BY <2>3 DEF ResyncComes
  <1> QED
    BY <1>1 DEF LosesFeed, EngineRestarts, HostRestarts

(* A resync on its way comes, and then lists. *)
LEMMA ResyncStays ==
    ASSUME Types, Named, [Next]_vars, ResyncComes
    PROVE  ResyncComes' \/ Lists
  <1>1. PICK e \in Events : e.kind = "resync"
    BY DEF ResyncComes
  <1>2. CASE e \in Events'
    BY <1>1, <1>2 DEF ResyncComes
  <1>3. CASE OnEvent /\ e = Head(feed)
    BY <1>1, <1>3 DEF OnEvent, Lists
  <1> QED
    BY <1>2, <1>3, EventsStay, BreaksTell

(* What is told of a session or viewer is still told, or the host takes it, *)
(* or it is lost and a resync comes.                                        *)
LEMMA TellingStays ==
    ASSUME Types, Named, [Next]_vars, NEW kind, NEW o, Told(kind, o)
    PROVE  \/ Told(kind, o)'
           \/ ResyncComes'
           \/ OnEvent /\ Head(feed).kind = kind /\ Head(feed).of = o
  <1>1. PICK e \in Events : e.kind = kind /\ e.of = o
    BY DEF Told
  <1>2. CASE e \in Events'
    BY <1>1, <1>2 DEF Told
  <1>3. CASE OnEvent /\ e = Head(feed)
    BY <1>1, <1>3
  <1> QED
    BY <1>2, <1>3, EventsStay, BreaksTell

(* The model's own word for it. *)
LEMMA ComingIsTold == ASSUME NEW kind, NEW o PROVE Coming(kind, o) <=> Told(kind, o)
  BY DEF Coming, Told, Events, Range

(* A viewer that starts is answered, or its open was cut short. *)
LEMMA StartIsAnswered ==
    ASSUME Base, ViewersAreTaken, [Next]_vars,
           NEW v \in Open, v \notin Watched, v \in Watched', v \notin left'
    PROVE  request[v].step = "sent" /\ request'[v].step = "fed"
  <1> USE DEF Base
  <1>1. ~Shrinks
    BY DEF Shrinks, Watched
  <1>2. PICK o \in Open : \/ \E t \in Open : EngineJoins(o, t)
                          \/ \E s \in Source : EngineOpens(o, s)
    BY <1>1, FewStepsRun
  <1>3. o = v
    BY <1>2 DEF EngineJoins, EngineOpens, Watched, Types, TypeOK
  <1>4. request[v].step \in {"sent", "cancelled"} /\ left' = left
    BY <1>2, <1>3 DEF EngineJoins, EngineOpens, history
  <1>5. request[v].step = "sent"
    BY <1>4 DEF ViewersAreTaken
  <1>6. PICK t \in Open : Reply(v, "fed", t)
    BY <1>2, <1>3 DEF EngineJoins, EngineOpens
  <1>7. request'[v].step = "fed"
    BY <1>5, <1>6, ReplyMoves
  <1> QED
    BY <1>5, <1>7

(* A viewer that the host does not know is one it will learn of. *)
LEMMA StepUnknownComes ==
    ASSUME Base, Viewers, UnknownComes, [Next]_vars
    PROVE  UnknownComes'
  <1> USE DEF Base, Viewers
  <1> SUFFICES ASSUME NEW v \in Open, v \in Watched', v \notin left', viewer'[v] = None,
                      ~ResyncComes'
               PROVE  \/ request'[v].step = "fed"
                      \/ resync'.step = "listed" /\ resync'.watching[v] # None
    BY DEF UnknownComes, Watched, Known
  <1>0. v \notin left /\ ~HostRestarts /\ ~EngineRestarts
    BY HistoryGrows, BreaksTell
  <1>1. CASE v \notin Watched
    BY <1>1, StartIsAnswered
  <1>2. CASE v \in Watched /\ v \in Known
    BY <1>0, <1>2, WatchedStaysKnown DEF Known
  <1>3. CASE v \in Watched /\ v \notin Known
    <2>1. CASE request[v].step = "fed"
      <3>1. ~Answered(v)
        <4>1. Answered(v) => viewer'[v] = request[v].token
          BY DEF Answered, Types, TypeOK
        <4>2. request[v].token \in Open
          BY <2>1 DEF Named
        <4> QED
          BY <4>1, <4>2, TunerAssumption
      <3>2. ~Cancel(v)
        BY DEF Cancel
      <3>3. ~Refused(v) /\ \A c \in Channel : ~OpenLive(v, c)
        BY <2>1 DEF Refused, OpenLive
      <3> QED
        BY <1>0, <2>1, <3>1, <3>2, <3>3, FewStepsAsk
    <2>2. CASE ResyncComes
      <3>1. Lists
        BY <2>2, ResyncStays
      <3> QED
        BY <1>3, <3>1 DEF Lists, Watched
    <2>3. CASE resync.step = "listed" /\ resync.watching[v] # None
      <3>1. ~ResyncApplies
        <4>1. ResyncApplies => viewer'[v] = FollowList(v)
          BY ResyncAppliesReturns
        <4> QED
          BY <1>3, <2>3, <4>1 DEF FollowList, Known
      <3>2. ~ResyncEnds /\ ~Lists
        BY <2>3 DEF ResyncEnds, Lists
      <3>3. UNCHANGED resync
        BY <1>0, <3>1, <3>2, FewStepsList
      <3> QED
        BY <2>3, <3>3
    <2> QED
      BY <1>0, <1>3, <2>1, <2>2, <2>3 DEF UnknownComes
  <1> QED
    BY <1>1, <1>2, <1>3


(* A viewer that ends is told, unless the engine restarts. *)
LEMMA EndIsTold ==
    ASSUME Base, [Next]_vars, NEW v \in Open, v \in Watched, v \notin Watched'
    PROVE  Told("ended", v)' \/ EngineRestarts
  <1> USE DEF Base
  <1>0. watching \in [Open -> Open \cup {None}] /\ watching[v] # None /\ watching'[v] = None
        /\ ~Early(v)
    BY DEF Types, TypeOK, Watched, RunsAnswered, Early
  <1>1. UNCHANGED watching => FALSE
    BY <1>0
  <1>2. ASSUME NEW o \in Open,
               \/ \E c \in Channel : OpenLive(o, c)
               \/ Answered(o) \/ Refused(o) \/ Cancel(o) \/ EngineRefuses(o)
               \/ \E s \in Source : FailsOver(o, s)
               \/ UpstreamIdles(o) \/ LooksUp(o) \/ Enters(o)
        PROVE  UNCHANGED watching
    BY <1>2 DEF OpenLive, Answered, Refused, Cancel, EngineRefuses, FailsOver, UpstreamIdles,
                LooksUp, Enters, engineVars
  <1>3. LosesFeed \/ HostRestarts \/ OnEvent \/ ResyncApplies \/ ResyncEnds \/ UNCHANGED vars
            => UNCHANGED watching
    BY DEF LosesFeed, HostRestarts, OnEvent, ResyncApplies, ResyncEnds, vars, engineVars
  <1>4. ASSUME NEW o \in Open,
               \/ \E t \in Open : EngineJoins(o, t)
               \/ \E s \in Source : EngineOpens(o, s)
        PROVE  FALSE
    <2>1. o # v
      BY <1>0, <1>4 DEF EngineJoins, EngineOpens, Early
    <2>2. watching'[v] = watching[v]
      BY <1>0, <1>4, <2>1 DEF EngineJoins, EngineOpens
    <2> QED
      BY <1>0, <2>2
  <1>5. ASSUME NEW o \in Open, Dies(o) PROVE Told("ended", v)'
    <2>1. watching[v] = o
      BY <1>0, <1>5, DiesReturns
    <2>2. [kind |-> "ended", of |-> v] \in Events'
      BY <1>5, <2>1, DiesTells
    <2> QED
      BY <2>2 DEF Told
  <1>6. ASSUME NEW o \in Open, ViewerIdles(o) \/ Leave(o) PROVE Told("ended", v)'
    <2>1. o = v
      BY <1>0, <1>6 DEF ViewerIdles, Leave
    <2>2. [kind |-> "ended", of |-> v] \in Events'
      BY <1>6, <2>1, ViewerIdlesTells, LeaveTells
    <2> QED
      BY <2>2 DEF Told
  <1> QED
    BY <1>1, <1>2, <1>3, <1>4, <1>5, <1>6 DEF Next

(* A viewer entered after its end stays on record while it is known. *)
LEMMA GhostsStay ==
    ASSUME Base, [Next]_vars, NEW v \in Open, v \in ghosts, viewer'[v] # None, watching'[v] = None
    PROVE  v \in ghosts' \/ Told("ended", v)' \/ HostRestarts
  <1> USE DEF Base
  <1>1. ASSUME NEW o \in Open,
               \/ \E c \in Channel : OpenLive(o, c)
               \/ Answered(o) \/ Refused(o) \/ Cancel(o) \/ EngineRefuses(o)
               \/ \E t \in Open : EngineJoins(o, t)
               \/ \E s \in Source : EngineOpens(o, s) \/ FailsOver(o, s)
               \/ Dies(o) \/ UpstreamIdles(o) \/ ViewerIdles(o) \/ LooksUp(o) \/ Enters(o)
        PROVE  v \in ghosts'
    <2>2. Answered(o) \/ Cancel(o) \/ Enters(o) => v \in ghosts'
      BY DEF Answered, Cancel, Enters
    <2>3. (\E c \in Channel : OpenLive(o, c)) \/ Refused(o) \/ EngineRefuses(o) \/ LooksUp(o)
             \/ (\E t \in Open : EngineJoins(o, t)) => v \in ghosts'
      BY DEF OpenLive, Refused, EngineRefuses, EngineJoins, LooksUp, history
    <2>4. (\E s \in Source : EngineOpens(o, s) \/ FailsOver(o, s))
             \/ Dies(o) \/ UpstreamIdles(o) \/ ViewerIdles(o) => v \in ghosts'
      BY DEF EngineOpens, FailsOver, Dies, UpstreamIdles, ViewerIdles, history
    <2> QED
      BY <1>1, <2>2, <2>3, <2>4
  <1>2. ASSUME NEW o \in Open, Leave(o) PROVE v \in ghosts'
    <2>1. o # v
      BY <1>2 DEF Leave, Types, TypeOK
    <2> QED
      BY <1>2, <2>1 DEF Leave
  <1>3. LosesFeed \/ EngineRestarts \/ OnEvent \/ ResyncEnds \/ UNCHANGED vars => v \in ghosts'
    BY DEF LosesFeed, EngineRestarts, OnEvent, ResyncEnds, vars, history
  <1>4. ASSUME ResyncApplies PROVE v \in ghosts' \/ Told("ended", v)'
    <2>1. /\ ghosts' = {u \in Open : /\ FollowList(u) # None /\ Ghostly(u)
                                     /\ viewer[u] = None \/ u \in ghosts}
          /\ UNCHANGED <<feed, watching>>
      BY <1>4 DEF ResyncApplies, engineVars
    <2>2. FollowList(v) # None
      BY <1>4, ResyncAppliesReturns
    <2>3. v \in ghosts' \/ Coming("ended", v)
      BY <2>1, <2>2 DEF Ghostly
    <2>4. Told("ended", v) => Told("ended", v)'
      BY <2>1 DEF Told, Events
    <2> QED
      BY <2>3, <2>4, ComingIsTold
  <1> QED
    BY <1>1, <1>2, <1>3, <1>4 DEF Next

(* A viewer that the host enters after its end is on record, or its end     *)
(* comes.                                                                   *)
LEMMA EntersInTime ==
    ASSUME Base, [Next]_vars, NEW v \in Open,
           viewer'[v] # viewer[v], viewer'[v] # None, watching'[v] = None
    PROVE  v \in ghosts' \/ Told("ended", v)'
  <1> USE DEF Base
  <1>1. ASSUME UNCHANGED <<feed, watching>>, Ghostly(v) => v \in ghosts'
        PROVE  v \in ghosts' \/ Told("ended", v)'
    <2>1. Coming("ended", v) \/ v \in ghosts'
      BY <1>1 DEF Ghostly
    <2>2. Told("ended", v) => Told("ended", v)'
      BY <1>1 DEF Told, Events
    <2> QED
      BY <2>1, <2>2, ComingIsTold
  <1>2. CASE Answered(v)
    <2>1. UNCHANGED <<feed, watching>> /\ (Ghostly(v) => v \in ghosts')
      BY <1>2 DEF Answered, engineVars
    <2> QED
      BY <1>1, <2>1
  <1>3. CASE Enters(v) /\ v \notin Known
    <2>1. UNCHANGED <<feed, watching>> /\ (Ghostly(v) => v \in ghosts')
      BY <1>3 DEF Enters, engineVars
    <2> QED
      BY <1>1, <2>1
  <1>4. CASE ResyncApplies /\ viewer[v] = None
    <2>1. FollowList(v) # None
      BY <1>4, ResyncAppliesReturns
    <2>2. UNCHANGED <<feed, watching>> /\ (Ghostly(v) => v \in ghosts')
      BY <1>4, <2>1 DEF ResyncApplies, engineVars
    <2> QED
      BY <1>1, <2>2
  <1> QED
    BY <1>2, <1>3, <1>4, FewStepsKnow

(* A viewer that ended and is still known is one whose end comes. *)
LEMMA StepEndComes ==
    ASSUME Base, EndComes, [Next]_vars
    PROVE  EndComes'
  <1> USE DEF Base
  <1> SUFFICES ASSUME NEW v \in Open, viewer'[v] # None, watching'[v] = None,
                      v \notin ghosts', v \notin left',
                      ~ResyncComes', ~Told("ended", v)'
               PROVE  /\ resync'.step = "listed" /\ resync'.watching[v] = None
                      /\ v \in resync'.known
    BY DEF EndComes, Watched, Known
  <1>0. v \notin left /\ ~HostRestarts /\ ~EngineRestarts
    BY HistoryGrows, BreaksTell
  <1>1. viewer'[v] = viewer[v] /\ v \in Known
    BY EntersInTime DEF Known
  <1>2. v \notin Watched
    BY <1>0, EndIsTold DEF Watched
  <1>3. v \notin ghosts
    BY <1>0, GhostsStay
  <1>4. ~Told("ended", v)
    <2> SUFFICES ASSUME Told("ended", v) PROVE FALSE
      OBVIOUS
    <2>1. OnEvent /\ Head(feed).kind = "ended" /\ Head(feed).of = v
      BY TellingStays
    <2>2. viewer' = [viewer EXCEPT ![v] = None]
      BY <2>1 DEF OnEvent
    <2> QED
      BY <2>2 DEF Types, TypeOK
  <1>5. CASE ResyncComes
    <2>1. Lists
      BY <1>5, ResyncStays
    <2> QED
      BY <1>1, <1>2, <2>1 DEF Lists, Watched
  <1>6. CASE resync.step = "listed" /\ resync.watching[v] = None /\ v \in resync.known
    <2>1. ~ResyncApplies
      <3>1. ResyncApplies => viewer'[v] = FollowList(v)
        BY ResyncAppliesReturns
      <3> QED
        BY <1>1, <1>6, <3>1 DEF FollowList, Known
    <2>2. ~ResyncEnds /\ ~Lists
      BY <1>6 DEF ResyncEnds, Lists
    <2>3. UNCHANGED resync
      BY <1>0, <2>1, <2>2, FewStepsList
    <2> QED
      BY <1>6, <2>3
  <1> QED
    BY <1>0, <1>1, <1>2, <1>3, <1>4, <1>5, <1>6 DEF EndComes


(* A session that ends is told, unless the engine restarts. *)
LEMMA ReleaseIsTold ==
    ASSUME Base, [Next]_vars, NEW t \in Open, t \in Live, t \notin Live'
    PROVE  Told("released", t)' \/ EngineRestarts
  <1> USE DEF Base
  <1>0. upstream \in [Open -> Upstream \cup {None}] /\ upstream[t] # None /\ upstream'[t] = None
        /\ ~Early(t)
    BY DEF Types, TypeOK, Live, RunsAnswered, Early
  <1>1. UNCHANGED upstream => FALSE
    BY <1>0
  <1>2. ASSUME NEW o \in Open,
               \/ \E c \in Channel : OpenLive(o, c)
               \/ Answered(o) \/ Refused(o) \/ Cancel(o) \/ EngineRefuses(o)
               \/ \E u \in Open : EngineJoins(o, u)
               \/ ViewerIdles(o) \/ Leave(o) \/ LooksUp(o) \/ Enters(o)
        PROVE  UNCHANGED upstream
    BY <1>2 DEF OpenLive, Answered, Refused, Cancel, EngineRefuses, EngineJoins, ViewerIdles,
                Leave, LooksUp, Enters, engineVars
  <1>3. LosesFeed \/ HostRestarts \/ OnEvent \/ ResyncApplies \/ ResyncEnds \/ UNCHANGED vars
            => UNCHANGED upstream
    BY DEF LosesFeed, HostRestarts, OnEvent, ResyncApplies, ResyncEnds, vars, engineVars
  <1>4. ASSUME NEW o \in Open, NEW s \in Source, EngineOpens(o, s) PROVE FALSE
    <2>1. upstream' = [upstream EXCEPT ![o] = [source |-> s, channel |-> request[o].channel]]
          /\ upstream'[o] # None
      BY <1>4, EngineOpensReturns
    <2> QED
      BY <1>0, <2>1
  <1>5. ASSUME NEW o \in Open, NEW s \in Source, FailsOver(o, s) PROVE FALSE
    BY <1>0, <1>5, FailsOverReturns
  <1>6. ASSUME NEW o \in Open, Dies(o) PROVE Told("released", t)'
    <2>1. o = t
      <3>1. \A u \in Open \ {o} : upstream'[u] = upstream[u]
        BY <1>6, DiesReturns
      <3> QED
        BY <1>0, <3>1
    <2>2. [kind |-> "released", of |-> t] \in Events'
      BY <1>6, <2>1, DiesTells
    <2> QED
      BY <2>2 DEF Told
  <1>7. ASSUME NEW o \in Open, UpstreamIdles(o) PROVE Told("released", t)'
    <2>1. o = t
      BY <1>0, <1>7 DEF UpstreamIdles, Ends
    <2>2. [kind |-> "released", of |-> t] \in Events'
      BY <1>7, <2>1, UpstreamIdlesTells
    <2> QED
      BY <2>2 DEF Told
  <1> QED
    BY <1>1, <1>2, <1>3, <1>4, <1>5, <1>6, <1>7 DEF Next

(* A hold is stuck by the answer of an open whose session is over, until    *)
(* the host restarts or a resync ends.                                      *)
LEMMA FewStepsStick ==
    ASSUME Base, [Next]_vars, NEW t \in Open
    PROVE  /\ t \in stuck' => t \in stuck \/ (Answered(t) /\ t \notin Live /\ UNCHANGED upstream)
           /\ t \in stuck => t \in stuck' \/ HostRestarts \/ hold'[t] = None
  <1> DEFINE Sticky ==
          /\ t \in stuck' => t \in stuck \/ (Answered(t) /\ t \notin Live /\ UNCHANGED upstream)
          /\ t \in stuck => t \in stuck' \/ HostRestarts \/ hold'[t] = None
  <1>1. UNCHANGED stuck => Sticky
    OBVIOUS
  <1>2. ASSUME NEW o \in Open,
               \/ \E c \in Channel : OpenLive(o, c)
               \/ Refused(o) \/ Cancel(o) \/ EngineRefuses(o)
               \/ \E u \in Open : EngineJoins(o, u)
               \/ LooksUp(o) \/ Enters(o) \/ Leave(o)
        PROVE  UNCHANGED stuck
    BY <1>2 DEF OpenLive, Refused, Cancel, EngineRefuses, EngineJoins, LooksUp, Enters, Leave,
                history
  <1>3. ASSUME NEW o \in Open,
               \/ \E s \in Source : EngineOpens(o, s) \/ FailsOver(o, s)
               \/ Dies(o) \/ UpstreamIdles(o) \/ ViewerIdles(o)
        PROVE  UNCHANGED stuck
    BY <1>3 DEF EngineOpens, FailsOver, Dies, UpstreamIdles, ViewerIdles, history
  <1>4. LosesFeed \/ EngineRestarts \/ OnEvent \/ ResyncApplies \/ UNCHANGED vars => UNCHANGED stuck
    BY DEF LosesFeed, EngineRestarts, OnEvent, ResyncApplies, vars, history
  <1>5. HostRestarts => Sticky
    BY DEF HostRestarts
  <1>6. ASSUME ResyncEnds PROVE Sticky
    <2>1. PICK gone : /\ stuck' = stuck \ gone
                      /\ \A u \in Open : hold'[u] = IF u \in gone THEN None ELSE hold[u]
      BY <1>6, ResyncEndsReturns DEF Base
    <2> QED
      BY <2>1
  <1>7. ASSUME NEW o \in Open, Answered(o) PROVE Sticky
    <2>1. UNCHANGED upstream /\ (stuck' = stuck \/ (stuck' = stuck \cup {o} /\ Sticks(o)))
      BY <1>7 DEF Answered, engineVars
    <2> QED
      BY <1>7, <2>1 DEF Sticks, Live
  <1> HIDE DEF Sticky
  <1>8. Sticky
    BY <1>1, <1>2, <1>3, <1>4, <1>5, <1>6, <1>7 DEF Next
  <1> QED
    BY <1>8 DEF Sticky

(* A listed session that is over has its release on the way. *)
LEMMA StepListedIsReleased ==
    ASSUME Base, ListedIsReleased, [Next]_vars
    PROVE  ListedIsReleased'
  <1> USE DEF Base
  <1> SUFFICES ASSUME resync'.step = "listed", NEW t \in Open, t \notin Live',
                      resync'.upstream[t] # None, ~Told("released", t)', ~ResyncComes'
               PROVE  FALSE
    BY DEF ListedIsReleased
  <1>0. ~HostRestarts /\ ~EngineRestarts
    BY BreaksTell
  <1>1. t \notin Live
    BY <1>0, ReleaseIsTold
  <1>2. ~Lists
    BY <1>1 DEF Lists, Live
  <1>3. ~ResyncApplies /\ resync' # NoList
    BY ResyncAppliesReturns DEF NoList
  <1>4. UNCHANGED resync
    BY <1>0, <1>2, <1>3, FewStepsList, ResyncEndsReturns
  <1>5. Told("released", t) \/ ResyncComes
    BY <1>1, <1>4 DEF ListedIsReleased
  <1>6. ~OnEvent
    BY <1>4 DEF OnEvent
  <1> QED
    BY <1>2, <1>5, <1>6, TellingStays, ResyncStays

(* A hold without a session is that of an open, or its release comes. *)
LEMMA StepReleaseComes ==
    ASSUME Base, HoldsWhileSent, ReleaseComes, ListedIsReleased, [Next]_vars
    PROVE  ReleaseComes'
  <1> USE DEF Base
  <1> SUFFICES ASSUME NEW t \in Open, hold'[t] # None, t \notin Live', t \notin stuck',
                      ~Told("released", t)', ~ResyncComes'
               PROVE  \/ request'[t].step \in {"sent", "fed", "refused", "dead"}
                      \/ resync'.step \in {"listed", "applied"} /\ resync'.upstream[t] = None
    BY DEF ReleaseComes, Held
  <1>0. ~HostRestarts /\ ~EngineRestarts
    BY BreaksTell
  <1>1. t \notin Live
    BY <1>0, ReleaseIsTold
  <1>2. t \notin stuck
    BY <1>0, FewStepsStick
  <1>3. CASE hold[t] = None
    <2>1. \A c \in Channel : OpenLive(t, c) => request'[t].step = "sent"
      BY OpenLiveReturns DEF Types, TypeOK
    <2>2. ~(Answered(t) /\ hold' = Settle(t, request[t].token))
      <3>1. request[t].token \in Open \cup {None} /\ t \notin Held
        BY <1>3 DEF Held, Types, TypeOK, Request
      <3> QED
        BY <3>1, SettleReturns
    <2>3. ~(ResyncApplies /\ resync.upstream[t] # None)
      <3> SUFFICES ASSUME ResyncApplies, resync.upstream[t] # None PROVE FALSE
        OBVIOUS
      <3>1. Told("released", t) \/ ResyncComes
        BY <1>1, ResyncAppliesReturns DEF ListedIsReleased
      <3>2. UNCHANGED feed
        BY DEF ResyncApplies, engineVars
      <3> QED
        BY <3>1, <3>2 DEF Told, ResyncComes, Events
    <2> QED
      BY <1>3, <2>1, <2>2, <2>3, FewStepsHold
  <1>4. CASE hold[t] # None
    <2>1. CASE request[t].step \in {"sent", "fed", "refused", "dead"}
      <3>1. \A c \in Channel : ~OpenLive(t, c)
        BY <2>1 DEF OpenLive
      <3>2. ~Answered(t)
        <4> SUFFICES ASSUME Answered(t) PROVE FALSE
          OBVIOUS
        <4>1. UNCHANGED feed /\ hold' = Settle(t, request[t].token)
              /\ (request[t].token = t /\ t \in Held /\ Sticks(t) => t \in stuck')
          BY DEF Answered, engineVars
        <4>2. request[t].token = t
          BY <4>1, SettleReturns DEF Types, TypeOK, Request
        <4>3. Coming("released", t)
          BY <1>1, <1>4, <4>1, <4>2 DEF Sticks, Live, Held
        <4>4. Told("released", t)
          BY <4>3, ComingIsTold
        <4> QED
          BY <4>1, <4>4 DEF Told, Events
      <3>3. ~Refused(t)
        BY ReleasedTypes DEF Refused, Types, TypeOK
      <3>4. ~Cancel(t)
        BY DEF Cancel, Types, TypeOK
      <3> QED
        BY <1>0, <2>1, <3>1, <3>2, <3>3, <3>4, FewStepsAsk
    <2>2. ~Told("released", t)
      <3> SUFFICES ASSUME Told("released", t) PROVE FALSE
        OBVIOUS
      <3>1. OnEvent /\ Head(feed).kind = "released" /\ Head(feed).of = t
        BY TellingStays
      <3>2. Released(t)
        BY <3>1 DEF OnEvent
      <3> QED
        BY <3>2, ReleasedTypes
    <2>3. CASE ResyncComes
      <3>1. Lists
        BY <2>3, ResyncStays
      <3> QED
        BY <1>1, <3>1 DEF Lists, Live
    <2>4. CASE resync.step \in {"listed", "applied"} /\ resync.upstream[t] = None
      <3>1. CASE UNCHANGED resync
        BY <2>4, <3>1
      <3>2. CASE ResyncApplies
        BY <2>4, <3>2, ResyncAppliesReturns
      <3>3. CASE ResyncEnds
        <4>1. hold[t].pending
          BY <1>4, <2>4, <3>3, ResyncEndsReturns DEF Held
        <4>2. request[t].step \notin {"done", "new", "cancelled"}
          BY <1>4, <4>1 DEF HoldsWhileSent, Held
        <4>3. request'[t].step = request[t].step
          BY <3>3 DEF ResyncEnds
        <4> QED
          BY <4>2, <4>3 DEF Types, TypeOK, Request
      <3>4. ~Lists
        BY <2>4 DEF Lists
      <3> QED
        BY <1>0, <3>1, <3>2, <3>3, <3>4, FewStepsList
    <2> QED
      BY <1>0, <1>1, <1>2, <1>4, <2>1, <2>2, <2>3, <2>4 DEF ReleaseComes, Held
  <1> QED
    BY <1>3, <1>4


(* What changes the record of the sessions without a hold. *)
LEMMA FewStepsUncount ==
    ASSUME Base, [Next]_vars, NEW t \in Open
    PROVE  \/ /\ t \in uncounted' <=> t \in uncounted
              /\ t \in Live' <=> t \in Live
           \/ t \notin uncounted' /\ t \notin Live'
           \/ \E s \in Source : EngineOpens(t, s)
           \/ Cancel(t) \/ HostRestarts \/ ResyncEnds \/ ResyncApplies
  <1> USE DEF Base
  <1> DEFINE Split ==
          \/ /\ t \in uncounted' <=> t \in uncounted
             /\ t \in Live' <=> t \in Live
          \/ t \notin uncounted' /\ t \notin Live'
          \/ \E s \in Source : EngineOpens(t, s)
          \/ Cancel(t) \/ HostRestarts \/ ResyncEnds \/ ResyncApplies
  <1>1. UNCHANGED <<uncounted, upstream>> => Split
    BY DEF Live
  <1>2. ASSUME NEW o \in Open,
               \/ \E c \in Channel : OpenLive(o, c)
               \/ Answered(o) \/ Refused(o) \/ EngineRefuses(o)
               \/ \E u \in Open : EngineJoins(o, u)
               \/ LooksUp(o) \/ Enters(o) \/ Leave(o) \/ ViewerIdles(o)
        PROVE  UNCHANGED <<uncounted, upstream>>
    BY <1>2 DEF OpenLive, Answered, Refused, EngineRefuses, EngineJoins, LooksUp, Enters,
                Leave, ViewerIdles, history, engineVars
  <1>3. LosesFeed \/ OnEvent \/ UNCHANGED vars => UNCHANGED <<uncounted, upstream>>
    BY DEF LosesFeed, OnEvent, vars, history, engineVars
  <1>4. ASSUME NEW o \in Open, Cancel(o) PROVE Split
    <2>1. UNCHANGED upstream /\ uncounted' = uncounted \cup (Live \cap {o})
      BY <1>4 DEF Cancel, LosesHold, engineVars
    <2> QED
      BY <1>4, <2>1 DEF Live
  <1>5. ASSUME NEW o \in Open, NEW s \in Source, EngineOpens(o, s) PROVE Split
    <2>1. CASE o = t
      BY <1>5, <2>1
    <2>2. CASE o # t
      <3>1. upstream' = [upstream EXCEPT ![o] = [source |-> s, channel |-> request[o].channel]]
        BY <1>5, EngineOpensReturns
      <3>2. upstream'[t] = upstream[t]
        BY <2>2, <3>1 DEF Types, TypeOK
      <3>3. uncounted' = uncounted \/ uncounted' = uncounted \cup {o}
        BY <1>5 DEF EngineOpens, Stray
      <3> QED
        BY <2>2, <3>2, <3>3 DEF Live
    <2> QED
      BY <2>1, <2>2
  <1>6. ASSUME NEW o \in Open, NEW s \in Source, FailsOver(o, s) PROVE Split
    <2>1. UNCHANGED uncounted /\ o \in Live
      BY <1>6 DEF FailsOver
    <2>2. t \in Live' <=> t \in Live
      BY <1>6, <2>1, FailsOverReturns DEF Live
    <2> QED
      BY <2>1, <2>2
  <1>7. ASSUME NEW ts \in SUBSET Open, Ends(ts) PROVE Split
    BY <1>7 DEF Ends, Live
  <1>8. ASSUME NEW o \in Open, Dies(o) \/ UpstreamIdles(o) PROVE Split
    <2>1. Ends({o}) /\ {o} \in SUBSET Open
      BY <1>8 DEF Dies, UpstreamIdles
    <2> HIDE DEF Split
    <2> QED
      BY <1>7, <2>1
  <1>9. ASSUME EngineRestarts PROVE Split
    BY <1>9 DEF EngineRestarts, Ends, Live
  <1>10. HostRestarts \/ ResyncEnds \/ ResyncApplies => Split
    OBVIOUS
  <1> HIDE DEF Split
  <1>11. Split
    BY <1>1, <1>2, <1>3, <1>4, <1>5, <1>6, <1>8, <1>9, <1>10 DEF Next
  <1> QED
    BY <1>11 DEF Split

(* A session is held unless it is on record that it is not. *)
LEMMA StepSessionsAreHeld ==
    ASSUME Base, SessionsAreHeld, [Next]_vars
    PROVE  SessionsAreHeld'
  <1> USE DEF Base
  <1>0. uncounted \subseteq Open /\ stuck \subseteq Open
        /\ uncounted' \subseteq Open /\ stuck' \subseteq Open
    BY StepTypes DEF Types, TypeOK
  <1>1. ASSUME NEW t \in stuck' PROVE t \notin Live' /\ ~Early(t)'
    <2>0. t \in Open
      BY <1>0
    <2>1. CASE t \in stuck
      <3>1. ~Early(t) /\ t \notin Live
        BY <2>1 DEF SessionsAreHeld
      <3> QED
        BY <2>0, <3>1, StepRequests, StartsOnce
    <2>2. CASE Answered(t) /\ t \notin Live /\ UNCHANGED upstream
      <3>1. ~Early(t)
        BY <2>2 DEF Answered, Early
      <3>2. ~Early(t)'
        BY <2>0, <3>1, StepRequests
      <3> QED
        BY <2>2, <3>2 DEF Live
    <2> QED
      BY <2>0, <2>1, <2>2, FewStepsStick
  <1> DEFINE Fits(t) ==
          /\ t \in Live' /\ t \notin uncounted' => hold'[t] # None
          /\ t \in uncounted' => t \in Live' /\ hold'[t] = None
  <1>2. ASSUME NEW t \in Open PROVE Fits(t)
    <2>1. /\ t \in Live /\ t \notin uncounted => hold[t] # None
          /\ t \in uncounted => t \in Live /\ hold[t] = None
      BY <1>0 DEF SessionsAreHeld, Held
    <2>2. CASE Cancel(t)
      <3>1. UNCHANGED upstream /\ uncounted' = uncounted \cup (Live \cap {t}) /\ hold'[t] = None
        BY <2>2 DEF Cancel, LosesHold, engineVars, Types, TypeOK
      <3> QED
        BY <2>1, <3>1 DEF Live
    <2>3. CASE HostRestarts
      <3>1. UNCHANGED upstream /\ uncounted' = uncounted \cup Live /\ hold'[t] = None
        BY <2>3 DEF HostRestarts, LosesHold
      <3> QED
        BY <2>1, <3>1 DEF Live
    <2>4. CASE ResyncEnds
      <3>1. PICK gone : /\ hold'[t] = IF t \in gone THEN None ELSE hold[t]
                        /\ uncounted' = uncounted \cup (gone \cap Live)
        BY <2>4, ResyncEndsReturns
      <3>2. UNCHANGED upstream
        BY <2>4 DEF ResyncEnds, engineVars
      <3> QED
        BY <2>1, <3>1, <3>2 DEF Live
    <2>5. CASE ResyncApplies
      <3>1. UNCHANGED upstream
        BY <2>5 DEF ResyncApplies, engineVars
      <3>2. /\ hold[t] # None \/ resync.upstream[t] = None => hold'[t] = hold[t]
            /\ hold'[t] # hold[t] => hold'[t] # None
            /\ t \in uncounted' <=>
                 t \in uncounted /\ (resync.upstream[t] = None \/ hold'[t] = None)
        BY <2>5, ResyncAppliesReturns
      <3> QED
        BY <2>1, <3>1, <3>2 DEF Live
    <2>6. ASSUME NEW s \in Source, EngineOpens(t, s) PROVE Fits(t)
      <3>1. t \notin Live
        BY <2>6 DEF EngineOpens, RunsAnswered
      <3>2. t \in Live' /\ hold' = hold
            /\ uncounted' = IF hold[t] = None THEN uncounted \cup {t} ELSE uncounted
        BY <2>6, EngineOpensReturns DEF Live, EngineOpens, Stray
      <3> QED
        BY <2>1, <3>1, <3>2
    <2>7. CASE t \notin uncounted' /\ t \notin Live'
      BY <2>7
    <2>8. ASSUME t \in uncounted' <=> t \in uncounted, t \in Live' <=> t \in Live,
                 ~Cancel(t), ~HostRestarts, ~ResyncEnds, ~ResyncApplies
          PROVE  Fits(t)
      <3>1. CASE t \notin Live
        BY <2>1, <2>8, <3>1
      <3>2. CASE t \in Live
        <4>1. request[t].step \in {"fed", "done"} /\ request[t].token = t
          BY <3>2 DEF RunsAnswered
        <4>2. ~Refused(t) /\ \A c \in Channel : ~OpenLive(t, c)
          BY <4>1 DEF Refused, OpenLive
        <4>3. ~\E e \in Events : e.kind = "released" /\ e.of = t
          BY <3>2 DEF ToldInTime
        <4>4. hold' = Settle(t, t) => (hold'[t] # None <=> hold[t] # None)
          BY SettleReturns DEF Held
        <4>5. hold'[t] # None <=> hold[t] # None
          BY <2>8, <4>1, <4>2, <4>3, <4>4, FewStepsHold
        <4> QED
          BY <2>1, <2>8, <4>5
      <3> QED
        BY <3>1, <3>2
    <2> HIDE DEF Fits
    <2> QED
      BY <2>2, <2>3, <2>4, <2>5, <2>6, <2>7, <2>8, FewStepsUncount
  <1>3. \A t \in Open : Fits(t)
    <2> HIDE DEF Fits
    <2> QED
      BY <1>2
  <1> QED
    BY <1>0, <1>1, <1>3 DEF SessionsAreHeld, Held, Live


(* The last move among the events of two sequences. *)
LEMMA LastInConcat ==
    ASSUME NEW f \in Seq(Event), NEW g \in Seq(Event), NEW e, LastIn(f \o g, e)
    PROVE  \/ LastIn(g, e)
           \/ LastIn(f, e) /\ \A x \in Range(g) : ~(x.kind = "ok" /\ x.of = e.of)
  <1>1. /\ Len(f \o g) = Len(f) + Len(g)
        /\ Len(f) \in Nat /\ Len(g) \in Nat
        /\ DOMAIN f = 1 .. Len(f) /\ DOMAIN g = 1 .. Len(g)
        /\ DOMAIN (f \o g) = 1 .. Len(f) + Len(g)
        /\ \A i \in 1 .. Len(f) + Len(g) :
              (f \o g)[i] = IF i <= Len(f) THEN f[i] ELSE g[i - Len(f)]
    BY ConcatProperties, LenProperties
  <1>2. PICK h : h = f \o g
    OBVIOUS
  <1>3. PICK i \in DOMAIN h :
          /\ h[i] = e /\ e.kind = "ok"
          /\ \A j \in DOMAIN h : j > i => ~(h[j].kind = "ok" /\ h[j].of = e.of)
    BY <1>2 DEF LastIn
  <1>4. /\ DOMAIN h = 1 .. Len(f) + Len(g)
        /\ \A j \in 1 .. Len(f) + Len(g) : h[j] = IF j <= Len(f) THEN f[j] ELSE g[j - Len(f)]
    BY <1>1, <1>2
  <1>5. ASSUME NEW j \in DOMAIN g
        PROVE  /\ j + Len(f) \in DOMAIN h /\ h[j + Len(f)] = g[j]
    <2>1. /\ j + Len(f) \in 1 .. Len(f) + Len(g) /\ (j + Len(f)) - Len(f) = j
          /\ ~(j + Len(f) <= Len(f))
      BY <1>1
    <2> QED
      BY <1>4, <2>1
  <1>6. CASE i <= Len(f)
    <2>1. i \in DOMAIN f /\ f[i] = e
      BY <1>1, <1>3, <1>4, <1>6
    <2>2. ASSUME NEW j \in DOMAIN f, j > i PROVE ~(f[j].kind = "ok" /\ f[j].of = e.of)
      <3>1. j \in DOMAIN h /\ h[j] = f[j]
        BY <1>1, <1>4
      <3> QED
        BY <1>3, <2>2, <3>1
    <2>3. ASSUME NEW j \in DOMAIN g PROVE ~(g[j].kind = "ok" /\ g[j].of = e.of)
      <3>1. j + Len(f) > i
        BY <1>1, <1>4, <1>6
      <3> QED
        BY <1>3, <1>5, <3>1
    <2>4. \A x \in Range(g) : ~(x.kind = "ok" /\ x.of = e.of)
      BY <2>3 DEF Range
    <2> QED
      BY <1>3, <2>1, <2>2, <2>4 DEF LastIn
  <1>7. CASE ~(i <= Len(f))
    <2>1. i - Len(f) \in DOMAIN g /\ g[i - Len(f)] = e
      BY <1>1, <1>3, <1>4, <1>7
    <2>2. ASSUME NEW j \in DOMAIN g, j > i - Len(f)
          PROVE  ~(g[j].kind = "ok" /\ g[j].of = e.of)
      <3>1. j + Len(f) > i
        BY <1>1, <1>4, <2>2
      <3> QED
        BY <1>3, <1>5, <3>1
    <2> QED
      BY <1>3, <2>1, <2>2 DEF LastIn
  <1> QED
    BY <1>6, <1>7

(* The last move among the events that the host has not taken.              *)
LEMMA LastInTail ==
    ASSUME NEW f \in Seq(Event), f # <<>>
    PROVE  /\ \A e : LastIn(Tail(f), e) => LastIn(f, e)
           /\ Head(f).kind = "ok"
                /\ (\A x \in Range(Tail(f)) : ~(x.kind = "ok" /\ x.of = Head(f).of))
                => LastIn(f, Head(f))
  <1>1. PICK t : t = Tail(f)
    OBVIOUS
  <1>2. /\ Len(f) \in Nat \ {0} /\ DOMAIN f = 1 .. Len(f)
        /\ Head(f) = f[1]
    BY LenProperties, HeadTailProperties, EmptySeq
  <1>3. /\ t \in Seq(Event)
        /\ DOMAIN t = 1 .. Len(f) - 1
        /\ \A i \in 1 .. Len(f) - 1 : t[i] = f[i + 1]
    BY <1>1, HeadTailProperties, LenProperties
  <1>4. ASSUME NEW j \in DOMAIN f, j > 1
        PROVE  j - 1 \in DOMAIN t /\ t[j - 1] = f[j]
    <2>1. j - 1 \in 1 .. Len(f) - 1 /\ (j - 1) + 1 = j
      BY <1>2, <1>4
    <2> QED
      BY <1>3, <2>1
  <1>5. ASSUME NEW e, LastIn(t, e) PROVE LastIn(f, e)
    <2>1. PICK i \in DOMAIN t :
            /\ t[i] = e /\ e.kind = "ok"
            /\ \A j \in DOMAIN t : j > i => ~(t[j].kind = "ok" /\ t[j].of = e.of)
      BY <1>5 DEF LastIn
    <2>2. i + 1 \in DOMAIN f /\ f[i + 1] = e
      BY <1>2, <1>3, <2>1
    <2>3. ASSUME NEW j \in DOMAIN f, j > i + 1 PROVE ~(f[j].kind = "ok" /\ f[j].of = e.of)
      <3>1. j > 1 /\ j - 1 > i
        BY <1>2, <1>3, <2>3
      <3> QED
        BY <1>4, <2>1, <3>1
    <2> QED
      BY <2>1, <2>2, <2>3 DEF LastIn
  <1>6. ASSUME Head(f).kind = "ok",
               \A x \in Range(t) : ~(x.kind = "ok" /\ x.of = Head(f).of)
        PROVE  LastIn(f, Head(f))
    <2>1. 1 \in DOMAIN f /\ f[1] = Head(f)
      BY <1>2
    <2>2. ASSUME NEW j \in DOMAIN f, j > 1 PROVE ~(f[j].kind = "ok" /\ f[j].of = Head(f).of)
      BY <1>4, <1>6, <2>2 DEF Range
    <2> QED
      BY <1>6, <2>1, <2>2 DEF LastIn
  <1> QED
    BY <1>1, <1>5, <1>6

(* A move is told by the last of the events that tell of it. *)
LEMMA LastOfErrors ==
    ASSUME NEW es \in Seq(Event), \A x \in Range(es) : x.kind = "error",
           NEW ok \in Event, NEW e, LastIn(es \o <<ok>>, e)
    PROVE  e = ok
  <1>1. <<ok>> \in Seq(Event) /\ Range(<<ok>>) = {ok}
    BY RangeOne
  <1>2. ASSUME NEW f, LastIn(f, e) PROVE e \in Range(f) /\ e.kind = "ok"
    BY <1>2 DEF LastIn, Range
  <1>3. LastIn(<<ok>>, e) \/ LastIn(es, e)
    BY <1>1, LastInConcat
  <1> QED
    BY <1>1, <1>2, <1>3

(* What a step that moves a session tells. *)
LEMMA MovesTell ==
    ASSUME Types, Named, NEW o \in Open, NEW s \in Source, EngineOpens(o, s) \/ FailsOver(o, s)
    PROVE  \E es \in Seq(Event) :
              /\ Tell(es)
              /\ [kind |-> "ok", of |-> o, source |-> s] \in Range(es)
              /\ \A e : LastIn(es, e) => e.of = o /\ e.source = s
  <1>1. PICK ok : ok = [kind |-> "ok", of |-> o, source |-> s]
    OBVIOUS
  <1>2. ok \in Event /\ ok.of = o /\ ok.source = s
    BY <1>1 DEF Event
  <1>3. <<ok>> \in Seq(Event) /\ Range(<<ok>>) = {ok}
    BY <1>2, RangeOne
  <1>4. ASSUME NEW es \in Seq(Event), \A x \in Range(es) : x.kind = "error", Tell(es \o <<ok>>)
        PROVE  \E fs \in Seq(Event) :
                  /\ Tell(fs) /\ ok \in Range(fs)
                  /\ \A e : LastIn(fs, e) => e.of = o /\ e.source = s
    <2>1. es \o <<ok>> \in Seq(Event) /\ Range(es \o <<ok>>) = Range(es) \cup Range(<<ok>>)
      BY <1>3, RangeConcat
    <2>2. \A e : LastIn(es \o <<ok>>, e) => e = ok
      BY <1>2, <1>4, LastOfErrors
    <2> QED
      BY <1>2, <1>3, <1>4, <2>1, <2>2
  <1>5. CASE EngineOpens(o, s)
    <2>1. PICK es \in Seq(Event) :
            /\ \A e \in Range(es) : e.kind = "error" /\ e.of = o
            /\ Tell(es \o <<[kind |-> "ok", of |-> o, source |-> s]>>)
      BY <1>5, EngineOpensReturns
    <2> QED
      BY <1>1, <1>4, <2>1
  <1>6. CASE FailsOver(o, s)
    <2>1. PICK r \in Source :
            /\ Tell(<<[kind |-> "error", of |-> o, source |-> r],
                      [kind |-> "ok", of |-> o, source |-> s]>>)
      BY <1>6, FailsOverReturns
    <2>2. PICK err : err = [kind |-> "error", of |-> o, source |-> r]
      OBVIOUS
    <2>3. err \in Event /\ err.kind = "error"
      BY <2>2 DEF Event
    <2>4. <<err>> \in Seq(Event) /\ Range(<<err>>) = {err}
      BY <2>3, RangeOne
    <2>5. Tell(<<err, ok>>)
      BY <1>1, <2>1, <2>2
    <2>6. <<err>> \o <<ok>> = <<err, ok>>
      <3>1. PICK a, b, ab : a = <<err>> /\ b = <<ok>> /\ ab = <<err, ok>>
        OBVIOUS
      <3>2. /\ a \in Seq(Event) /\ b \in Seq(Event) /\ ab \in Seq(Event)
            /\ Len(a) = 1 /\ Len(b) = 1 /\ Len(ab) = 2
            /\ a[1] = err /\ b[1] = ok /\ ab[1] = err /\ ab[2] = ok
        BY <1>2, <2>3, <3>1
      <3>3. /\ a \o b \in Seq(Event) /\ Len(a \o b) = 2
            /\ (a \o b)[1] = err /\ (a \o b)[2] = ok
        BY <3>2, ConcatProperties
      <3>4. a \o b = ab
        BY <3>2, <3>3, SeqEqual
      <3> QED
        BY <3>1, <3>4
    <2>7. Tell(<<err>> \o <<ok>>)
      BY <2>5, <2>6
    <2> QED
      BY <1>1, <1>4, <2>3, <2>4, <2>7
  <1> QED
    BY <1>5, <1>6


(* What a step that moves no session tells. *)
LEMMA QuietTells ==
    ASSUME Types, NEW o \in Open, Dies(o) \/ UpstreamIdles(o) \/ ViewerIdles(o) \/ Leave(o)
    PROVE  \E es \in Seq(Event) : Tell(es) /\ \A x \in Range(es) : x.kind # "ok"
  <1>1. ASSUME NEW a \in Event, a.kind # "ok", Tell(<<a>>)
        PROVE  \E es \in Seq(Event) : Tell(es) /\ \A x \in Range(es) : x.kind # "ok"
    <2>1. PICK es : es = <<a>>
      OBVIOUS
    <2>2. es \in Seq(Event) /\ Range(es) = {a}
      BY <2>1, RangeOne
    <2> QED
      BY <1>1, <2>1, <2>2
  <1>2. PICK rel, end : rel = [kind |-> "released", of |-> o] /\ end = [kind |-> "ended", of |-> o]
    OBVIOUS
  <1>3. rel \in Event /\ rel.kind # "ok" /\ end \in Event /\ end.kind # "ok"
    BY <1>2 DEF Event
  <1>4. CASE Dies(o)
    <2>1. PICK es \in Seq(Event) :
                /\ Tell(es)
                /\ \A e \in Range(es) :
                     \/ e.kind = "error" /\ e.of = o
                     \/ e = [kind |-> "released", of |-> o]
                     \/ e.kind = "ended" /\ e.of \in Open /\ watching[e.of] = o
      BY <1>4, DiesReturns
    <2> QED
      BY <2>1
  <1>5. CASE UpstreamIdles(o)
    <2>1. Tell(<<rel>>)
      BY <1>2, <1>5 DEF UpstreamIdles
    <2> QED
      BY <1>1, <1>3, <2>1
  <1>6. CASE ViewerIdles(o) \/ (Leave(o) /\ o \in Watched)
    <2>1. Tell(<<end>>)
      BY <1>2, <1>6 DEF ViewerIdles, Leave
    <2> QED
      BY <1>1, <1>3, <2>1
  <1>7. CASE Leave(o) /\ o \notin Watched
    <2>1. PICK es : es = <<>> /\ Tell(es)
      BY <1>7 DEF Leave
    <2>2. es \in Seq(Event) /\ Range(es) = {}
      BY <2>1 DEF Range
    <2> QED
      BY <2>1, <2>2
  <1> QED
    BY <1>4, <1>5, <1>6, <1>7

(* What moves a session to another source, and what it leaves alone. *)
LEMMA FewStepsMove ==
    ASSUME Types, Named, [Next]_vars, NEW t \in Live'
    PROVE  \/ t \in Live /\ upstream'[t] = upstream[t]
                /\ \A s \in Source : ~EngineOpens(t, s) /\ ~FailsOver(t, s)
           \/ \E s \in Source : (EngineOpens(t, s) \/ FailsOver(t, s)) /\ upstream'[t].source = s
  <1>0. t \in Open /\ upstream'[t] # None /\ upstream \in [Open -> Upstream \cup {None}]
    BY DEF Live, Types, TypeOK
  <1> DEFINE Stays == t \in Live /\ upstream'[t] = upstream[t]
             Moved == \E s \in Source : /\ EngineOpens(t, s) \/ FailsOver(t, s)
                                        /\ upstream'[t].source = s
  <1>1. ASSUME NEW s \in Source, EngineOpens(t, s) \/ FailsOver(t, s) PROVE Moved
    <2>1. EngineOpens(t, s) => upstream'[t].source = s
      BY <1>0, EngineOpensReturns
    <2>2. FailsOver(t, s) => upstream'[t].source = s
      BY <1>0, FailsOverReturns
    <2> QED
      BY <1>1, <2>1, <2>2
  <1>2. UNCHANGED upstream => Stays
    BY <1>0 DEF Live
  <1>3. ASSUME NEW o \in Open,
               \/ \E c \in Channel : OpenLive(o, c)
               \/ Answered(o) \/ Refused(o) \/ Cancel(o) \/ EngineRefuses(o)
               \/ \E u \in Open : EngineJoins(o, u)
               \/ ViewerIdles(o) \/ Leave(o) \/ LooksUp(o) \/ Enters(o)
        PROVE  UNCHANGED upstream
    BY <1>3 DEF OpenLive, Answered, Refused, Cancel, EngineRefuses, EngineJoins, ViewerIdles,
                Leave, LooksUp, Enters, engineVars
  <1>4. LosesFeed \/ HostRestarts \/ OnEvent \/ ResyncApplies \/ ResyncEnds \/ UNCHANGED vars
            => UNCHANGED upstream
    BY DEF LosesFeed, HostRestarts, OnEvent, ResyncApplies, ResyncEnds, vars, engineVars
  <1>5. ASSUME NEW o \in Open, NEW s \in Source, o # t, EngineOpens(o, s) \/ FailsOver(o, s)
        PROVE  Stays
    <2>1. CASE EngineOpens(o, s)
      <3>1. upstream' = [upstream EXCEPT ![o] = [source |-> s, channel |-> request[o].channel]]
        BY <2>1, EngineOpensReturns
      <3> QED
        BY <1>0, <1>5, <3>1 DEF Live
    <2>2. CASE FailsOver(o, s)
      <3>1. \A u \in Open \ {o} : upstream'[u] = upstream[u]
        BY <2>2, FailsOverReturns
      <3> QED
        BY <1>0, <1>5, <3>1 DEF Live
    <2> QED
      BY <1>5, <2>1, <2>2
  <1>6. ASSUME NEW ts, Ends(ts) PROVE Stays
    BY <1>0, <1>6 DEF Ends, Live
  <1>7. (\E o \in Open : Dies(o) \/ UpstreamIdles(o)) \/ EngineRestarts => Stays
    <2>1. (\E o \in Open : Dies(o) \/ UpstreamIdles(o)) \/ EngineRestarts => \E ts : Ends(ts)
      BY DEF Dies, UpstreamIdles, EngineRestarts
    <2> HIDE DEF Stays
    <2> QED
      BY <1>6, <2>1
  <1> HIDE DEF Stays, Moved
  <1>8. Stays \/ Moved
    BY <1>1, <1>2, <1>3, <1>4, <1>5, <1>7 DEF Next
  <1> QED
    BY <1>1, <1>8 DEF Stays, Moved

(* The last move told of a session is to the source that feeds it.          *)
LEMMA StepLastMove ==
    ASSUME Base, LastMove, [Next]_vars
    PROVE  LastMove'
  <1> USE DEF Base
  <1> SUFFICES ASSUME NEW e \in Events', LastIn(feed', e), e.of \in Live'
               PROVE  e.source = upstream'[e.of].source
    BY DEF LastMove
  <1>0. feed \in Seq(Event) /\ upstream \in [Open -> Upstream \cup {None}]
    BY DEF Types, TypeOK
  <1>1. PICK t \in Live' : t = e.of
    OBVIOUS
  <1>2. t \in Open
    BY DEF Live
  <1>3. ASSUME NEW f, LastIn(f, e) PROVE e \in Range(f) /\ e.kind = "ok"
    BY <1>3 DEF LastIn, Range
  <1>4. ASSUME LastIn(feed, e), t \in Live, upstream'[t] = upstream[t]
        PROVE  e.source = upstream'[t].source
    BY <1>1, <1>3, <1>4 DEF LastMove, Events
  <1>5. ASSUME NEW o \in Open, NEW s \in Source, EngineOpens(o, s) \/ FailsOver(o, s)
        PROVE  e.source = upstream'[t].source
    <2>1. PICK es \in Seq(Event) :
              /\ Tell(es)
              /\ [kind |-> "ok", of |-> o, source |-> s] \in Range(es)
              /\ \A x : LastIn(es, x) => x.of = o /\ x.source = s
      BY <1>5, MovesTell
    <2>2. LastIn(feed \o es, e)
      BY <2>1 DEF Tell
    <2>3. PICK ok : ok = [kind |-> "ok", of |-> o, source |-> s]
      OBVIOUS
    <2>4. LastIn(es, e) \/ (LastIn(feed, e) /\ \A x \in Range(es) : ~(x.kind = "ok" /\ x.of = e.of))
      BY <1>0, <2>1, <2>2, LastInConcat
    <2>5. CASE LastIn(es, e)
      <3>1. o = t /\ e.source = s
        BY <1>1, <2>1, <2>5
      <3>2. upstream'[o].source = s
        BY <1>5, EngineOpensReturns, FailsOverReturns
      <3> QED
        BY <3>1, <3>2
    <2>6. CASE LastIn(feed, e) /\ \A x \in Range(es) : ~(x.kind = "ok" /\ x.of = e.of)
      <3>1. ok \in Range(es) /\ ok.kind = "ok" /\ ok.of = o
        BY <2>1, <2>3
      <3>2. t # o
        BY <1>1, <2>6, <3>1
      <3>3. upstream'[t] = upstream[t]
        <4>1. CASE EngineOpens(o, s)
          <5>1. upstream' = [upstream EXCEPT ![o] = [source |-> s, channel |-> request[o].channel]]
            BY <4>1, EngineOpensReturns
          <5> QED
            BY <1>0, <1>2, <3>2, <5>1
        <4>2. CASE FailsOver(o, s)
          <5>1. \A u \in Open \ {o} : upstream'[u] = upstream[u]
            BY <4>2, FailsOverReturns
          <5> QED
            BY <1>2, <3>2, <5>1
        <4> QED
          BY <1>5, <4>1, <4>2
      <3>4. t \in Live
        BY <1>1, <1>2, <3>3 DEF Live
      <3> QED
        BY <1>4, <2>6, <3>3, <3>4
    <2> QED
      BY <2>4, <2>5, <2>6
  <1>6. ASSUME \A o \in Open, s \in Source : ~EngineOpens(o, s) /\ ~FailsOver(o, s)
        PROVE  e.source = upstream'[t].source
    <2>1. t \in Live /\ upstream'[t] = upstream[t]
      BY <1>2, <1>6, FewStepsMove
    <2>2. LastIn(feed, e)
      <3>1. ASSUME NEW o \in Open, Dies(o) \/ UpstreamIdles(o) \/ ViewerIdles(o) \/ Leave(o)
            PROVE  LastIn(feed, e)
        <4>1. PICK es \in Seq(Event) : Tell(es) /\ \A x \in Range(es) : x.kind # "ok"
          BY <3>1, QuietTells
        <4>2. LastIn(feed \o es, e)
          BY <4>1 DEF Tell
        <4>3. ~LastIn(es, e)
          BY <1>3, <4>1
        <4> QED
          BY <1>0, <4>1, <4>2, <4>3, LastInConcat
      <3>2. CASE UNCHANGED feed
        BY <3>2
      <3>3. CASE OnEvent
        BY <1>0, <3>3, LastInTail DEF OnEvent
      <3>4. ~(LosesFeed \/ EngineRestarts \/ HostRestarts)
        <4>1. FeedBreaks => Events' = {[kind |-> "resync"]}
          BY BrokenEvents
        <4>2. e \in Range(feed') /\ e.kind = "ok"
          BY <1>3
        <4>3. ~FeedBreaks
          BY <4>1, <4>2 DEF Events
        <4> QED
          BY <4>3 DEF LosesFeed, EngineRestarts, HostRestarts
      <3>5. ASSUME NEW o \in Open,
                   \/ \E c \in Channel : OpenLive(o, c)
                   \/ Answered(o) \/ Refused(o) \/ Cancel(o) \/ EngineRefuses(o)
                   \/ \E u \in Open : EngineJoins(o, u)
                   \/ LooksUp(o) \/ Enters(o)
            PROVE  UNCHANGED feed
        BY <3>5 DEF OpenLive, Answered, Refused, Cancel, EngineRefuses, EngineJoins, LooksUp,
                    Enters, engineVars
      <3>6. ResyncApplies \/ ResyncEnds \/ UNCHANGED vars => UNCHANGED feed
        BY DEF ResyncApplies, ResyncEnds, vars, engineVars
      <3> QED
        BY <1>6, <3>1, <3>2, <3>3, <3>4, <3>5, <3>6 DEF Next
    <2> QED
      BY <1>4, <2>1, <2>2
  <1>7. e.source = upstream'[t].source
    BY <1>5, <1>6
  <1> QED
    BY <1>1, <1>7


(* A session whose move was lost stays on record while it runs, unless the  *)
(* host restarts.                                                           *)
LEMMA MislaidStays ==
    ASSUME Types, [Next]_vars, NEW t \in Live', t \in mislaid
    PROVE  t \in mislaid' \/ HostRestarts
  <1>0. t \in Open /\ upstream'[t] # None
    BY DEF Live
  <1>1. ASSUME NEW o \in Open,
               \/ \E c \in Channel : OpenLive(o, c)
               \/ Answered(o) \/ Refused(o) \/ Cancel(o) \/ EngineRefuses(o)
               \/ \E u \in Open : EngineJoins(o, u)
               \/ LooksUp(o) \/ Enters(o) \/ Leave(o)
        PROVE  UNCHANGED mislaid
    BY <1>1 DEF OpenLive, Answered, Refused, Cancel, EngineRefuses, EngineJoins, LooksUp,
                Enters, Leave, history
  <1>2. ASSUME NEW o \in Open,
               \/ \E s \in Source : EngineOpens(o, s) \/ FailsOver(o, s)
               \/ ViewerIdles(o)
        PROVE  UNCHANGED mislaid
    BY <1>2 DEF EngineOpens, FailsOver, ViewerIdles, history
  <1>3. OnEvent \/ ResyncApplies \/ ResyncEnds \/ UNCHANGED vars => UNCHANGED mislaid
    BY DEF OnEvent, ResyncApplies, ResyncEnds, vars, history
  <1>4. ASSUME NEW ts, Ends(ts) PROVE t \in mislaid'
    BY <1>0, <1>4 DEF Ends
  <1>5. (\E o \in Open : Dies(o) \/ UpstreamIdles(o)) \/ EngineRestarts => t \in mislaid'
    <2>1. (\E o \in Open : Dies(o) \/ UpstreamIdles(o)) \/ EngineRestarts => \E ts : Ends(ts)
      BY DEF Dies, UpstreamIdles, EngineRestarts
    <2> QED
      BY <1>4, <2>1
  <1>6. LosesFeed => t \in mislaid'
    BY DEF LosesFeed, Mislays
  <1> QED
    BY <1>1, <1>2, <1>3, <1>5, <1>6 DEF Next

(* A session with no move on its way is held, and listed, where it feeds.   *)
LEMMA StepMovesAreTold ==
    ASSUME Base, LastMove, MovesAreTold, [Next]_vars
    PROVE  MovesAreTold'
  <1> USE DEF Base
  <1> SUFFICES ASSUME NEW t \in Live', t \notin mislaid', ~Told("ok", t)'
               PROVE  /\ hold'[t] # None => hold'[t].source = upstream'[t].source
                      /\ resync'.step = "listed" /\ resync'.upstream[t] # None
                            => resync'.upstream[t].source = upstream'[t].source
    BY DEF MovesAreTold, Held
  <1> DEFINE InPlace ==
          /\ hold'[t] # None => hold'[t].source = upstream'[t].source
          /\ resync'.step = "listed" /\ resync'.upstream[t] # None
                => resync'.upstream[t].source = upstream'[t].source
  <1>0. t \in Open /\ feed \in Seq(Event)
    BY DEF Live, Types, TypeOK
  <1>1. t \in Live /\ upstream'[t] = upstream[t]
    <2>1. ASSUME NEW s \in Source, EngineOpens(t, s) \/ FailsOver(t, s) PROVE FALSE
      <3>1. PICK ok : ok = [kind |-> "ok", of |-> t, source |-> s]
        OBVIOUS
      <3>2. ok \in Events' /\ ok.kind = "ok" /\ ok.of = t
        BY <1>0, <2>1, <3>1, OpensTells, FailsOverTells
      <3> QED
        BY <3>2 DEF Told
    <2> QED
      BY <2>1, FewStepsMove
  <1>2. CASE HostRestarts
    <2>1. hold'[t] = None /\ resync' = NoList
      BY <1>0, <1>2 DEF HostRestarts
    <2> QED
      BY <2>1 DEF NoList
  <1>3. ASSUME ~HostRestarts, ~Told("ok", t)
        PROVE  InPlace
    <2>1. /\ hold[t] # None => hold[t].source = upstream[t].source
          /\ resync.step = "listed" /\ resync.upstream[t] # None
                => resync.upstream[t].source = upstream[t].source
      BY <1>0, <1>1, <1>3, MislaidStays DEF MovesAreTold, Held
    <2>2. hold'[t] # None => hold'[t].source = upstream[t].source
      <3>1. request[t].step \in {"fed", "done"} /\ request[t].token = t
        BY <1>0, <1>1 DEF RunsAnswered
      <3>2. \A c \in Channel : ~OpenLive(t, c)
        BY <3>1 DEF OpenLive
      <3>3. hold' = Settle(t, t) => hold'[t] = None \/ (hold[t] # None /\ hold'[t].source = hold[t].source)
        BY <1>0, SettleReturns DEF Held
      <3>4. ASSUME NEW e \in Events, e.of = t PROVE e.kind # "ok"
        BY <1>3, <3>4 DEF Told
      <3>5. ResyncApplies => resync.step = "listed"
        BY DEF ResyncApplies
      <3> QED
        BY <1>0, <1>3, <2>1, <3>1, <3>2, <3>3, <3>4, <3>5, FewStepsHold
    <2>3. resync'.step = "listed" /\ resync'.upstream[t] # None
                => resync'.upstream[t].source = upstream[t].source
      <3>1. CASE UNCHANGED resync
        BY <2>1, <3>1
      <3>2. CASE Lists
        BY <3>2 DEF Lists
      <3>3. CASE ResyncApplies \/ ResyncEnds
        BY <3>3, ResyncAppliesReturns, ResyncEndsReturns DEF NoList
      <3> QED
        BY <1>3, <3>1, <3>2, <3>3, FewStepsList
    <2> QED
      BY <1>1, <2>2, <2>3
  <1>4. ASSUME ~HostRestarts, Told("ok", t)
        PROVE  InPlace
    <2>1. PICK e \in Events : e.kind = "ok" /\ e.of = t
      BY <1>4 DEF Told
    <2>2. e \notin Events'
      BY <2>1 DEF Told
    <2>3. ~LosesFeed
      <3>1. Coming("ok", t)
        BY <1>4, ComingIsTold
      <3> QED
        BY <1>1, <3>1 DEF LosesFeed, Mislays
    <2>4. ~EngineRestarts
      BY <1>0 DEF EngineRestarts, Ends, Live
    <2>5. OnEvent /\ e = Head(feed)
      BY <1>4, <2>2, <2>3, <2>4, EventsStay
    <2>6. feed # <<>> /\ Events' = Range(Tail(feed)) /\ e \in Event
      BY <1>0, <2>5, TailEvents DEF OnEvent, Events
    <2>7. LastIn(feed, e)
      <3>1. \A x \in Range(Tail(feed)) : ~(x.kind = "ok" /\ x.of = t)
        BY <2>6 DEF Told
      <3> QED
        BY <1>0, <2>1, <2>5, <2>6, <3>1, LastInTail
    <2>8. e.source = upstream[t].source
      BY <1>1, <2>1, <2>7 DEF LastMove
    <2>9. Attempt(e) /\ resync'.step # "listed"
      BY <2>1, <2>5 DEF OnEvent
    <2>10. hold'[t] # None => hold'[t].source = e.source
      BY <2>1, <2>6, <2>9, AttemptReturns
    <2> QED
      BY <1>1, <2>8, <2>9, <2>10
  <1> HIDE DEF InPlace
  <1>5. InPlace
    BY <1>2, <1>3, <1>4 DEF InPlace
  <1> QED
    BY <1>5 DEF InPlace

LEMMA StepFollows ==
    ASSUME Base, Capacity, Viewers, Follows, [Next]_vars
    PROVE  Follows'
  BY StepUnknownComes, StepEndComes, StepReleaseComes, StepSessionsAreHeld,
     StepListedIsReleased, StepLastMove, StepMovesAreTold DEF Follows, Capacity

LEMMA InitFollows == Init => Follows
  <1> SUFFICES ASSUME Init PROVE Follows
    OBVIOUS
  <1>1. Events = {} /\ Live = {} /\ Watched = {} /\ Held = {} /\ Known = {}
    BY DEF Init, Events, Range, Live, Watched, Held, Known
  <1>2. UnknownComes /\ EndComes /\ ReleaseComes
    BY <1>1 DEF UnknownComes, EndComes, ReleaseComes
  <1>3. SessionsAreHeld
    BY <1>1 DEF Init, SessionsAreHeld
  <1>4. ListedIsReleased
    BY DEF Init, ListedIsReleased, NoList
  <1>5. LastMove /\ MovesAreTold
    BY <1>1 DEF LastMove, MovesAreTold
  <1> QED
    BY <1>2, <1>3, <1>4, <1>5 DEF Follows



-----------------------------------------------------------------------------
(* The four layers together, and what follows from them.                    *)

(* The inductive invariant: what the two sides have answered and told, what *)
(* the limits count, and that what the registry lacks or keeps too long is  *)
(* on its way.                                                              *)
THEOREM Invariant == Spec => []IInv
  <1>1. Init => IInv
    BY InitBase, InitCapacity, InitViewers, InitFollows DEF IInv
  <1>2. IInv /\ [Next]_vars => IInv'
    BY StepBase, StepCapacity, StepViewers, StepFollows DEF IInv
  <1> QED
    BY <1>1, <1>2, PTL DEF Spec

(* The sessions on a source stay within its limit of connections, for any   *)
(* number of opens and sources and any interleaving of opens, ends and late *)
(* events: `open` counts and holds in one critical section, and a session   *)
(* runs where its hold was counted.                                         *)
THEOREM SourcesStayWithinLimits == Spec => []CapacityKept
  <1>1. IInv => CapacityKept
    <2> SUFFICES ASSUME IInv, NEW s \in Source, MaxStreams[s] # 0
                 PROVE  Cardinality({t \in Live \ strayed : upstream[t].source = s})
                            <= MaxStreams[s]
      BY DEF CapacityKept
    <2> DEFINE Fed == {t \in Live \ strayed : upstream[t].source = s}
    <2>1. Fed \subseteq Counted(s)
      BY DEF IInv, Capacity, FeedsWhereHeld, Counted
    <2>2. Counted(s) \in SUBSET Open /\ Fed \in SUBSET Open
      BY DEF Counted, Held, Live
    <2> HIDE DEF Fed
    <2>3. /\ Cardinality(Fed) <= Cardinality(Counted(s))
          /\ Cardinality(Fed) \in Nat /\ Cardinality(Counted(s)) \in Nat
      BY <2>1, <2>2, OpensFinite
    <2>4. Cardinality(Counted(s)) <= MaxStreams[s] /\ MaxStreams[s] \in Nat
      BY TunerAssumption DEF IInv, Capacity, WithinLimits
    <2>5. Cardinality(Fed) <= MaxStreams[s]
      BY <2>3, <2>4
    <2> QED
      BY <2>5 DEF Fed
  <1> QED
    BY <1>1, Invariant, PTL

(* A user never watches more than the cap allows, however many opens wait   *)
(* at the same time and whatever a resync drops: what waits is counted with *)
(* what the host knows, and what it forgets too soon has ended.             *)
THEOREM ViewersStayWithinCap == Spec => []ViewerCapKept
  <1>1. IInv => ViewerCapKept
    <2> SUFFICES ASSUME IInv, limit # 0
                 PROVE  Cardinality(Watched \ (left \cup forgotten)) <= limit
      BY DEF ViewerCapKept
    <2> DEFINE Seen == Watched \ (left \cup forgotten)
    <2>1. Seen \subseteq Watching
      BY DEF Watching, Watched
    <2>2. Watching \in SUBSET Open /\ Seen \in SUBSET Open
      BY DEF Watching, Watched
    <2> HIDE DEF Seen
    <2>3. /\ Cardinality(Seen) <= Cardinality(Watching)
          /\ Cardinality(Seen) \in Nat /\ Cardinality(Watching) \in Nat
      BY <2>1, <2>2, OpensFinite
    <2>4. Cardinality(Watching) <= limit /\ limit \in Nat
      BY DEF IInv, Base, Types, Viewers, WithinCap
    <2>5. Cardinality(Seen) <= limit
      BY <2>3, <2>4
    <2> QED
      BY <2>5 DEF Seen
  <1> QED
    BY <1>1, Invariant, PTL

(* With nothing under way the host knows the engine's viewers and holds     *)
(* every session where it feeds, but for what is on record: whatever it     *)
(* lacks or keeps too long is told by an event or by a resync, and neither  *)
(* is left.                                                                 *)
THEOREM TheRegistryFollows == Spec => []RegistryFollowsEngine
  <1>1. IInv => RegistryFollowsEngine
    <2> SUFFICES ASSUME IInv, Quiet
                 PROVE  /\ \A v \in Open \ (ghosts \cup left) : viewer[v] = watching[v]
                        /\ Held \ stuck = Live \ uncounted
                        /\ \A t \in (Held \cap Live) \ mislaid :
                              hold[t].source = upstream[t].source
      BY DEF RegistryFollowsEngine
    <2> USE DEF IInv, Base, Follows
    <2>1. /\ resync.step = "idle"
          /\ \A o \in Open : request[o].step \in {"new", "done"}
      BY DEF Quiet
    <2>2. Events = {}
      BY DEF Quiet, Events, Range
    <2>3. ~ResyncComes /\ \A kind, o : ~Told(kind, o)
      BY <2>2 DEF ResyncComes, Told
    <2>4. ASSUME NEW v \in Open \ (ghosts \cup left) PROVE viewer[v] = watching[v]
      <3>1. v \in Watched => v \in Known
        BY <2>1, <2>3 DEF UnknownComes
      <3>2. v \in Known => v \in Watched
        BY <2>1, <2>3 DEF EndComes
      <3>3. CASE v \in Watched
        BY <3>1, <3>3 DEF RunsAnswered, KnownInTime
      <3>4. CASE v \notin Watched
        BY <3>2, <3>4 DEF Watched, Known
      <3> QED
        BY <3>3, <3>4
    <2>5. ASSUME NEW t \in Held \ stuck PROVE t \in Live \ uncounted
      <3>1. t \in Open
        BY DEF Held
      <3>2. t \in Live
        BY <2>1, <2>3, <3>1 DEF ReleaseComes
      <3> QED
        BY <3>2 DEF SessionsAreHeld
    <2>6. ASSUME NEW t \in Live \ uncounted PROVE t \in Held \ stuck
      BY DEF SessionsAreHeld
    <2>7. ASSUME NEW t \in (Held \cap Live) \ mislaid PROVE hold[t].source = upstream[t].source
      BY <2>3 DEF MovesAreTold
    <2> QED
      BY <2>4, <2>5, <2>6, <2>7
  <1> QED
    BY <1>1, Invariant, PTL

===============================================================================
