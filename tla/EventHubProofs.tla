---------------------------- MODULE EventHubProofs ----------------------------
(***************************************************************************)
(* What holds of the hub for every number of users, targets and streams,   *)
(* and queues of every length.                                             *)
(*                                                                         *)
(* Everything rests on what a critical section does.  The streams it       *)
(* closes are the least set that settles, so they do settle (nobody left   *)
(* has more than its queue holds), each was asked for or did overflow, and *)
(* the chain stays among the users whose list changes.  A section is then  *)
(* seen stream by stream (`Fades`) and list by list (`SectionTells`), and  *)
(* the invariants follow from these alone.                                 *)
(***************************************************************************)
EXTENDS EventHub, TLAPS, SequenceTheorems, FiniteSetTheorems

-----------------------------------------------------------------------------
(* The streams that a section closes.                                       *)

LEMMA StreamFacts ==
    ASSUME NEW s \in Stream
    PROVE  /\ s.user \in User /\ s.session \in Session \cup {None}
           /\ s.target \in Target \cup {None}
           /\ s.registered \in BOOLEAN /\ s.alive \in BOOLEAN /\ s.late \in BOOLEAN
           /\ s.queue \in Nat /\ s.queue <= ConnQueueMax
  BY HubAssumption DEF Stream

LEMMA StreamsFacts ==
    ASSUME NEW S \in Seq(Stream)
    PROVE  /\ Len(S) \in Nat /\ DOMAIN S = 1 .. Len(S)
           /\ \A c \in DOMAIN S : S[c] \in Stream
           /\ Registered(S) \subseteq DOMAIN S /\ IsFiniteSet(Registered(S))
           /\ \A c \in Registered(S) : S[c].registered
  <1>1. /\ Len(S) \in Nat /\ DOMAIN S = 1 .. Len(S)
        /\ \A c \in DOMAIN S : S[c] \in Stream
    BY LenProperties
  <1>2. IsFiniteSet(1 .. Len(S))
    BY <1>1, FS_Interval
  <1>3. Registered(S) \in SUBSET (1 .. Len(S))
    BY <1>1 DEF Registered
  <1> QED
    BY <1>1, <1>2, <1>3, FS_Subset DEF Registered

(* The more is closed, the more is announced. *)
LEMMA AnnouncedGrows ==
    ASSUME NEW S \in Seq(Stream), NEW Y \in SUBSET Registered(S),
           NEW X \in SUBSET Y, NEW c
    PROVE  /\ Announced(S, X, c) \in Nat /\ Announced(S, Y, c) \in Nat
           /\ Announced(S, X, c) <= Announced(S, Y, c)
  <1> DEFINE Of(Z) == {x \in Targets(S, Z \ {c}) : S[x].user = S[c].user}
  <1>1. /\ Of(Y) \in SUBSET Registered(S) /\ Of(X) \in SUBSET Of(Y)
    BY DEF Targets
  <1> HIDE DEF Of
  <1>2. IsFiniteSet(Of(Y))
    <2>1. IsFiniteSet(Registered(S))
      BY StreamsFacts
    <2> QED
      BY <1>1, <2>1, FS_Subset
  <1>3. IsFiniteSet(Of(X)) /\ Cardinality(Of(X)) <= Cardinality(Of(Y))
    BY <1>1, <1>2, FS_Subset
  <1> QED
    BY <1>2, <1>3, FS_CardinalityType DEF Announced, Of

(* Nothing is announced of what nobody closes. *)
LEMMA NothingAnnounced ==
    ASSUME NEW S, NEW X, NEW c,
           \A x \in X \ {c} : S[x].target # None => S[x].user # S[c].user
    PROVE  Announced(S, X, c) = 0
  <1>1. {x \in Targets(S, X \ {c}) : S[x].user = S[c].user} = {}
    BY DEF Targets
  <1> QED
    BY <1>1, FS_EmptySet DEF Announced

LEMMA FitsLess ==
    ASSUME NEW S \in Seq(Stream), NEW Y \in SUBSET Registered(S),
           NEW X \in SUBSET Y, NEW sent \in [DOMAIN S -> Nat],
           NEW c \in DOMAIN S, Fits(S, Y, sent, c)
    PROVE  Fits(S, X, sent, c)
  <1>1. S[c].queue \in Nat /\ sent[c] \in Nat
    BY StreamsFacts, StreamFacts
  <1>2. QED
    <2>1. /\ Announced(S, X, c) \in Nat /\ Announced(S, Y, c) \in Nat
          /\ Announced(S, X, c) <= Announced(S, Y, c)
      BY AnnouncedGrows
    <2>2. S[c].queue + sent[c] + Announced(S, Y, c) <= ConnQueueMax
      BY DEF Fits
    <2>3. ConnQueueMax \in Nat
      BY HubAssumption
    <2>4. S[c].queue + sent[c] + Announced(S, X, c) <= ConnQueueMax
      BY <1>1, <2>1, <2>2, <2>3
    <2> QED
      BY <2>4 DEF Fits

(* The least set that settles does settle. *)
LEMMA ClosingSettles ==
    ASSUME NEW S \in Seq(Stream), NEW K \in SUBSET Registered(S),
           NEW sent \in [DOMAIN S -> Nat]
    PROVE  /\ Closing(S, K, sent) \in SUBSET Registered(S)
           /\ Settles(S, Closing(S, K, sent), K, sent)
  <1> DEFINE gone == Closing(S, K, sent)
  <1>1. gone \in SUBSET Registered(S)
    BY DEF Closing
  <1>2. K \subseteq gone
    BY DEF Closing, Settles
  <1>3. ASSUME NEW c \in Registered(S) \ gone
        PROVE  Fits(S, gone, sent, c)
    <2>1. PICK X \in SUBSET Registered(S) : c \notin X /\ Settles(S, X, K, sent)
      BY <1>3 DEF Closing
    <2>2. gone \in SUBSET X
      BY <2>1 DEF Closing
    <2>3. Fits(S, X, sent, c)
      BY <2>1 DEF Settles
    <2> QED
      BY <2>2, <2>3, FitsLess, StreamsFacts
  <1> QED
    BY <1>1, <1>2, <1>3 DEF Settles

(* It is least: whatever settles has it. *)
LEMMA ClosingIsLeast ==
    ASSUME NEW S, NEW K, NEW sent, NEW X \in SUBSET Registered(S),
           Settles(S, X, K, sent)
    PROVE  Closing(S, K, sent) \subseteq X
  BY DEF Closing

(* A stream is closed because that was asked for, or for its queue. *)
LEMMA ClosingHasCause ==
    ASSUME NEW S \in Seq(Stream), NEW K \in SUBSET Registered(S),
           NEW sent \in [DOMAIN S -> Nat], NEW c \in Closing(S, K, sent)
    PROVE  c \in K \/ ~Fits(S, Closing(S, K, sent), sent, c)
  <1> DEFINE gone == Closing(S, K, sent)
             caused == K \cup {d \in gone : ~Fits(S, gone, sent, d)}
  <1>1. gone \in SUBSET Registered(S) /\ Settles(S, gone, K, sent)
    BY ClosingSettles
  <1>2. caused \in SUBSET gone
    BY <1>1 DEF Settles
  <1>3. ASSUME NEW d \in Registered(S) \ caused PROVE Fits(S, caused, sent, d)
    <2>1. Fits(S, gone, sent, d)
      BY <1>1, <1>3 DEF Settles
    <2> QED
      BY <1>1, <1>2, <2>1, FitsLess, StreamsFacts
  <1>4. Settles(S, caused, K, sent)
    BY <1>3 DEF Settles
  <1>5. gone \subseteq caused
    BY <1>1, <1>2, <1>4, ClosingIsLeast
  <1> QED
    BY <1>5

(* Where neither a target is closed nor a frame sent, no queue overflows:   *)
(* the chain stays among the users U.                                       *)
LEMMA ClosingStaysAmong ==
    ASSUME NEW S \in Seq(Stream), NEW K \in SUBSET Registered(S),
           NEW sent \in [DOMAIN S -> Nat], NEW U,
           \A c \in K : S[c].target # None => S[c].user \in U,
           \A c \in DOMAIN S : S[c].user \notin U => sent[c] = 0
    PROVE  \A c \in Closing(S, K, sent) \ K : S[c].user \in U
  <1> DEFINE X == K \cup OfUser(S, U)
  <1>1. X \in SUBSET Registered(S)
    BY DEF OfUser
  <1>2. ASSUME NEW c \in Registered(S) \ X PROVE Fits(S, X, sent, c)
    <2>1. c \in DOMAIN S /\ S[c].user \notin U
      BY <1>2, StreamsFacts DEF OfUser
    <2>2. \A x \in X \ {c} : S[x].target # None => S[x].user # S[c].user
      BY <2>1 DEF OfUser
    <2>3. Announced(S, X, c) = 0
      BY <2>2, NothingAnnounced
    <2>4. sent[c] = 0 /\ S[c].queue \in Nat /\ S[c].queue <= ConnQueueMax
      BY <2>1, StreamsFacts, StreamFacts
    <2> QED
      BY <2>3, <2>4, HubAssumption DEF Fits
  <1>3. Settles(S, X, K, sent)
    BY <1>2 DEF Settles
  <1>4. Closing(S, K, sent) \subseteq X
    BY <1>1, <1>3, ClosingIsLeast
  <1> QED
    BY <1>4 DEF OfUser

-----------------------------------------------------------------------------
(* What a section leaves.                                                   *)

(* A stream is at most closed, and what ends without its client knowing is  *)
(* no longer alive.                                                         *)
Fade(s, t) ==
    /\ t.user = s.user /\ t.target = s.target
    /\ t.registered => s.registered /\ t.session = s.session /\ t.late = s.late
    /\ t.alive => s.alive
    /\ s.registered /\ t.alive => t.registered

Fades(S, T) == Len(T) = Len(S) /\ \A c \in DOMAIN S : Fade(S[c], T[c])

(* The streams left open. *)
Left(S, K, sent) == Registered(S) \ Closing(S, K, sent)

(* The owners whose lists change. *)
Stale(S, K, sent, changed) ==
    changed \cup {S[c].user : c \in Targets(S, Closing(S, K, sent))}

LEMMA UnregisteredFacts ==
    ASSUME NEW s \in Stream, NEW b \in BOOLEAN
    PROVE  LET t == [Unregistered(s) EXCEPT !.alive = b]
               u == Unregistered(s)
           IN /\ t \in Stream /\ t.user = s.user /\ t.target = s.target
              /\ ~t.registered /\ t.alive = b
              /\ u \in Stream /\ u.user = s.user /\ u.target = s.target
              /\ ~u.registered /\ u.alive = s.alive
  <1>1. PICK u : u = Unregistered(s)
    OBVIOUS
  <1>2. /\ u \in Stream /\ u.user = s.user /\ u.target = s.target
        /\ ~u.registered /\ u.alive = s.alive
    <2>1. 0 \in 0 .. ConnQueueMax
      BY HubAssumption
    <2> QED
      BY <1>1, <2>1 DEF Stream, Unregistered
  <1>3. PICK t : t = [u EXCEPT !.alive = b]
    OBVIOUS
  <1>4. /\ t \in Stream /\ t.user = u.user /\ t.target = u.target
        /\ t.registered = u.registered /\ t.alive = b
    BY <1>2, <1>3 DEF Stream
  <1> QED
    BY <1>1, <1>2, <1>3, <1>4

LEMMA QueueFacts ==
    ASSUME NEW s \in Stream, NEW n \in Nat, n <= ConnQueueMax
    PROVE  LET t == [s EXCEPT !.queue = n]
           IN /\ t \in Stream /\ t.user = s.user /\ t.target = s.target
              /\ t.registered = s.registered /\ t.session = s.session
              /\ t.late = s.late /\ t.alive = s.alive
  BY HubAssumption DEF Stream

LEMMA SectionParts ==
    ASSUME NEW S, NEW K, NEW sent, NEW changed, NEW heard, NEW R,
           R = Section(S, K, sent, changed, heard)
    PROVE  R.streams = [c \in DOMAIN S |->
                 IF c \in Closing(S, K, sent)
                   THEN [Unregistered(S[c]) EXCEPT !.alive = @ /\ c \in K]
                 ELSE IF c \in Registered(S) \ Closing(S, K, sent)
                   THEN [S[c] EXCEPT !.queue =
                           @ + sent[c] + Announced(S, Closing(S, K, sent), c)]
                 ELSE S[c]]
  BY DEF Section

LEMMA SectionEvicts ==
    ASSUME NEW S, NEW K, NEW sent, NEW changed, NEW heard, NEW R,
           R = Section(S, K, sent, changed, heard)
    PROVE  R.evicted = evicted \cup Evicts(S, Closing(S, K, sent), sent)
  BY DEF Section

LEMMA SectionStreams ==
    ASSUME NEW S \in Seq(Stream), NEW K \in SUBSET Registered(S),
           NEW sent \in [DOMAIN S -> Nat], NEW changed, NEW heard, NEW R,
           R = Section(S, K, sent, changed, heard),
           \A c \in K : ~S[c].alive
    PROVE  /\ R.streams \in Seq(Stream) /\ Fades(S, R.streams)
           /\ Registered(R.streams) = Left(S, K, sent)
  <1> DEFINE gone == Closing(S, K, sent)
  <1>1. /\ gone \in SUBSET Registered(S) /\ Settles(S, gone, K, sent)
    BY ClosingSettles
  <1>2. /\ Len(S) \in Nat /\ DOMAIN S = 1 .. Len(S)
        /\ \A c \in DOMAIN S : S[c] \in Stream
        /\ Registered(S) \subseteq DOMAIN S
    BY StreamsFacts
  <1>3. R.streams = [c \in DOMAIN S |->
                 IF c \in gone THEN [Unregistered(S[c]) EXCEPT !.alive = @ /\ c \in K]
                 ELSE IF c \in Registered(S) \ gone
                   THEN [S[c] EXCEPT !.queue = @ + sent[c] + Announced(S, gone, c)]
                 ELSE S[c]]
    BY SectionParts
  <1> HIDE DEF gone
  <1>4. ASSUME NEW c \in DOMAIN S
        PROVE  /\ R.streams[c] \in Stream /\ Fade(S[c], R.streams[c])
               /\ R.streams[c].registered <=> c \in Registered(S) \ gone
    <2>1. S[c] \in Stream /\ S[c].alive \in BOOLEAN
      BY <1>2, StreamFacts
    <2>2. CASE c \in gone
      <3>1. PICK b \in BOOLEAN : b = (Unregistered(S[c]).alive /\ c \in K)
        OBVIOUS
      <3>2. R.streams[c] = [Unregistered(S[c]) EXCEPT !.alive = b]
        BY <1>3, <2>2, <3>1
      <3>3. ~b
        BY <2>1, <3>1, UnregisteredFacts
      <3>4. /\ R.streams[c] \in Stream /\ ~R.streams[c].registered
            /\ R.streams[c].user = S[c].user /\ R.streams[c].target = S[c].target
            /\ R.streams[c].alive = b
        BY <2>1, <3>2, UnregisteredFacts
      <3> QED
        BY <2>2, <3>3, <3>4 DEF Fade
    <2>3. CASE c \in Registered(S) \ gone
      <3>1. /\ S[c].queue \in Nat /\ sent[c] \in Nat /\ Announced(S, gone, c) \in Nat
        BY <1>1, <2>1, StreamFacts, AnnouncedGrows
      <3>2. S[c].queue + sent[c] + Announced(S, gone, c) <= ConnQueueMax
        BY <1>1, <2>3 DEF Settles, Fits
      <3>3. PICK n \in Nat : n = S[c].queue + sent[c] + Announced(S, gone, c)
        BY <3>1
      <3>4. R.streams[c] = [S[c] EXCEPT !.queue = n]
        BY <1>3, <2>3, <3>3
      <3>5. /\ R.streams[c] \in Stream
            /\ R.streams[c].user = S[c].user /\ R.streams[c].target = S[c].target
            /\ R.streams[c].registered = S[c].registered
            /\ R.streams[c].session = S[c].session
            /\ R.streams[c].late = S[c].late /\ R.streams[c].alive = S[c].alive
        BY <2>1, <3>2, <3>3, <3>4, QueueFacts
      <3>6. S[c].registered
        BY <2>3 DEF Registered
      <3> QED
        BY <2>3, <3>5, <3>6 DEF Fade
    <2>4. CASE c \notin Registered(S)
      <3>1. R.streams[c] = S[c] /\ ~S[c].registered
        BY <1>1, <1>3, <2>4 DEF Registered
      <3> QED
        BY <2>1, <2>4, <3>1 DEF Fade
    <2> QED
      BY <1>1, <2>2, <2>3, <2>4
  <1>5. /\ R.streams \in Seq(Stream) /\ Len(R.streams) = Len(S)
        /\ DOMAIN R.streams = DOMAIN S
    <2>1. R.streams \in [1 .. Len(S) -> Stream]
      BY <1>2, <1>3, <1>4
    <2> QED
      BY <1>2, <2>1
  <1>6. Registered(R.streams) = Registered(S) \ gone
    BY <1>2, <1>4, <1>5 DEF Registered
  <1> QED
    BY <1>4, <1>5, <1>6 DEF Fades, gone, Left

LEMMA SectionTyped ==
    ASSUME NEW S \in Seq(Stream), NEW K \in SUBSET Registered(S),
           NEW sent \in [DOMAIN S -> Nat], NEW changed, NEW heard, NEW R,
           R = Section(S, K, sent, changed, heard),
           \A c \in K : ~S[c].alive
    PROVE  R.streams \in Seq(Stream)
  BY SectionStreams, Zenon

LEMMA SectionFades ==
    ASSUME NEW S \in Seq(Stream), NEW K \in SUBSET Registered(S),
           NEW sent \in [DOMAIN S -> Nat], NEW changed, NEW heard, NEW R,
           R = Section(S, K, sent, changed, heard),
           \A c \in K : ~S[c].alive
    PROVE  Fades(S, R.streams)
  BY SectionStreams

LEMMA SectionLeaves ==
    ASSUME NEW S \in Seq(Stream), NEW K \in SUBSET Registered(S),
           NEW sent \in [DOMAIN S -> Nat], NEW changed, NEW heard, NEW R,
           R = Section(S, K, sent, changed, heard),
           \A c \in K : ~S[c].alive
    PROVE  Registered(R.streams) = Left(S, K, sent)
  BY SectionStreams

(* Who is left behind was before, or shows a list that has changed.         *)
LEMMA SectionTells ==
    ASSUME NEW S \in Seq(Stream), NEW K \in SUBSET Registered(S),
           NEW sent \in [DOMAIN S -> Nat], NEW changed \in SUBSET User, NEW heard,
           NEW R, R = Section(S, K, sent, changed, heard),
           behind \subseteq (DOMAIN S) \X User
    PROVE  /\ R.behind \subseteq (DOMAIN S) \X User
           /\ \A p \in R.behind :
                /\ p[1] \in Registered(S) \ Closing(S, K, sent)
                /\ \/ p \in behind /\ p[1] \notin heard
                   \/ /\ S[p[1]].user \in Household[p[2]]
                      /\ p[2] \in Stale(S, K, sent, changed)
  <1> DEFINE left == Registered(S) \ Closing(S, K, sent)
             stale == Stale(S, K, sent, changed)
  <1>1. stale \subseteq User
    BY ClosingSettles, StreamsFacts, StreamFacts DEF Stale, Targets
  <1>2. R.behind = {p \in behind : p[1] \in left \ (heard \cup OfUser(S, stale))}
                     \cup UNION {(left \cap Watching(S, u)) \X {u} : u \in stale}
    BY DEF Section, Stale
  <1>3. left \subseteq DOMAIN S
    BY StreamsFacts
  <1> HIDE DEF left, stale
  <1>4. ASSUME NEW p \in R.behind
        PROVE  /\ p \in (DOMAIN S) \X User /\ p[1] \in left
               /\ \/ p \in behind /\ p[1] \notin heard
                  \/ S[p[1]].user \in Household[p[2]] /\ p[2] \in stale
    <2>1. CASE p \in behind /\ p[1] \in left \ (heard \cup OfUser(S, stale))
      BY <2>1
    <2>2. CASE \E u \in stale : p \in (left \cap Watching(S, u)) \X {u}
      BY <1>1, <1>3, <2>2 DEF Watching, OfUser
    <2> QED
      BY <1>2, <2>1, <2>2
  <1> QED
    BY <1>4 DEF left, stale

(* A section that does not announce the evicted tells of what it closes     *)
(* itself.                                                                  *)
LEMMA StaleStaysAmong ==
    ASSUME NEW S \in Seq(Stream), NEW K \in SUBSET Registered(S),
           NEW sent \in [DOMAIN S -> Nat], NEW U, NEW changed \in SUBSET U,
           \A c \in K : S[c].target # None => S[c].user \in U,
           \A c \in DOMAIN S : S[c].user \notin U => sent[c] = 0
    PROVE  Stale(S, K, sent, changed) \subseteq U
  <1>1. \A c \in Closing(S, K, sent) \ K : S[c].user \in U
    BY ClosingStaysAmong
  <1> QED
    BY <1>1 DEF Stale, Targets

(* The owners of the targets that nobody asked to close are remembered.     *)
LEMMA StaleAreEvicted ==
    ASSUME NEW S \in Seq(Stream), NEW sent \in [DOMAIN S -> Nat], NEW heard,
           NEW R, R = Section(S, {}, sent, {}, heard)
    PROVE  Stale(S, {}, sent, {}) \subseteq R.evicted
  <1>1. \A c \in Closing(S, {}, sent) :
           /\ c \in Registered(S)
           /\ ~Fits(S, Closing(S, {}, sent), sent, c)
    BY ClosingSettles, ClosingHasCause
  <1>2. R.evicted = evicted \cup Evicts(S, Closing(S, {}, sent), sent)
    BY SectionEvicts
  <1> QED
    BY <1>1, <1>2 DEF Stale, Evicts, Targets

LEMMA EvictedTyped ==
    ASSUME NEW S \in Seq(Stream), NEW K, NEW sent, NEW changed, NEW heard,
           NEW R, R = Section(S, K, sent, changed, heard), evicted \subseteq User
    PROVE  R.evicted \subseteq User
  <1>1. R.evicted = evicted \cup Evicts(S, Closing(S, K, sent), sent)
    BY SectionEvicts
  <1> QED
    BY <1>1, StreamsFacts, StreamFacts DEF Evicts, Targets


-----------------------------------------------------------------------------
(* The invariant.                                                           *)

(* The requests under way fit, and what is counted is finite. *)
Counted ==
    /\ IsFiniteSet(opening) /\ Len(streams) + Cardinality(opening) <= MaxStreams
    /\ IsFiniteSet({d \in Device : polled[d].stale})

(* Who is behind is there to be told, and shows the list. *)
BehindSound ==
    \A p \in behind : /\ p[1] \in Registered(streams)
                      /\ streams[p[1]].user \in {p[2]} \cup Household[p[2]]

StreamInv ==
    streams \in Seq(Stream) /\ NewestIsRegistered /\ RevokedIsClosed /\ ShutdownIsFinal

ListInv ==
    /\ evicted \subseteq User /\ emits \subseteq User /\ fans \subseteq User
    /\ behind \subseteq (DOMAIN streams) \X User
    /\ BehindSound /\ EveryChangeIsTold

RestInv ==
    /\ polled \in [Device -> Polled]
    /\ down \in {"no", "begun", "done"} /\ opening \subseteq Asked
    /\ ended \in [revoked : SUBSET Session, dropped : SUBSET Session]
    /\ commands \subseteq [user : User, target : Target, to : 0 .. MaxStreams]
    /\ Counted /\ UnheardIsClosed

IInv == StreamInv /\ ListInv /\ RestInv

LEMMA InitHolds == Init => IInv
  <1> SUFFICES ASSUME Init PROVE IInv
    OBVIOUS
  <1> USE DEF Init
  <1>1. streams \in Seq(Stream) /\ Len(streams) = 0 /\ DOMAIN streams = {}
    OBVIOUS
  <1>2. StreamInv
    BY <1>1 DEF StreamInv, NewestIsRegistered, RevokedIsClosed, ShutdownIsFinal,
                Registered
  <1>3. ListInv
    BY DEF ListInv, BehindSound, EveryChangeIsTold
  <1>4. Absent \in Polled /\ ~Absent.stale
    BY HubAssumption DEF Absent, Polled
  <1>5. IsFiniteSet(opening) /\ Cardinality(opening) = 0
    BY FS_EmptySet
  <1>6. {d \in Device : polled[d].stale} = {}
    BY <1>4
  <1>7. MaxStreams \in Nat
    BY HubAssumption
  <1>8. Counted
    <2>1. IsFiniteSet({d \in Device : polled[d].stale})
      BY <1>6, FS_EmptySet, Zenon
    <2>2. Len(streams) + Cardinality(opening) <= MaxStreams
      BY <1>1, <1>5, <1>7
    <2> QED
      BY <1>5, <2>1, <2>2 DEF Counted
  <1>9. RestInv
    BY <1>4, <1>8 DEF RestInv, UnheardIsClosed
  <1> QED
    BY <1>2, <1>3, <1>9 DEF IInv

-----------------------------------------------------------------------------
(* What fading keeps.                                                       *)

LEMMA FadesAfter ==
    ASSUME NEW S, NEW T, NEW U, DOMAIN T = DOMAIN S, Fades(S, T), Fades(T, U),
           \A c \in DOMAIN S : T[c].registered \in BOOLEAN
    PROVE  Fades(S, U)
  BY DEF Fades, Fade

LEMMA NewestKept ==
    ASSUME streams \in Seq(Stream), streams' \in Seq(Stream),
           Fades(streams, streams'), NewestIsRegistered
    PROVE  NewestIsRegistered'
  <1>1. DOMAIN streams' = DOMAIN streams
    BY StreamsFacts DEF Fades
  <1> SUFFICES ASSUME NEW c \in DOMAIN streams, streams'[c].target # None
               PROVE  LET same == {d \in DOMAIN streams :
                                     /\ streams'[d].user = streams'[c].user
                                     /\ streams'[d].target = streams'[c].target}
                      IN IF \A d \in same : d <= c
                           THEN streams'[c].alive => streams'[c].registered
                           ELSE ~streams'[c].registered
    BY <1>1 DEF NewestIsRegistered
  <1>2. \A d \in DOMAIN streams : Fade(streams[d], streams'[d])
    BY DEF Fades
  <1> DEFINE same == {d \in DOMAIN streams : /\ streams[d].user = streams[c].user
                                             /\ streams[d].target = streams[c].target}
  <1>3. same = {d \in DOMAIN streams : /\ streams'[d].user = streams'[c].user
                                       /\ streams'[d].target = streams'[c].target}
    BY <1>2 DEF Fade
  <1>4. streams[c].target # None
    BY <1>2 DEF Fade
  <1>5. IF \A d \in same : d <= c
          THEN streams[c].alive => streams[c].registered
          ELSE ~streams[c].registered
    BY <1>4 DEF NewestIsRegistered
  <1>6. Fade(streams[c], streams'[c])
    BY <1>2
  <1> HIDE DEF same
  <1>7. IF \A d \in same : d <= c
          THEN streams'[c].alive => streams'[c].registered
          ELSE ~streams'[c].registered
    BY <1>5, <1>6 DEF Fade
  <1> QED
    BY <1>3, <1>7

LEMMA RegisteredFade ==
    ASSUME NEW S \in Seq(Stream), NEW T \in Seq(Stream), Fades(S, T)
    PROVE  /\ DOMAIN T = DOMAIN S
           /\ Registered(T) \subseteq Registered(S)
           /\ \A c \in DOMAIN S : T[c].user = S[c].user /\ T[c].target = S[c].target
           /\ \A c \in Registered(T) : T[c].session = S[c].session /\ T[c].late = S[c].late
  <1>1. DOMAIN T = DOMAIN S
    BY StreamsFacts DEF Fades
  <1> QED
    BY <1>1 DEF Fades, Fade, Registered

LEMMA RevokedKept ==
    ASSUME streams \in Seq(Stream), streams' \in Seq(Stream),
           Fades(streams, streams'), RevokedIsClosed, ended'.dropped = ended.dropped
    PROVE  RevokedIsClosed'
  <1>1. /\ Registered(streams') \subseteq Registered(streams)
        /\ \A c \in Registered(streams') : /\ streams'[c].session = streams[c].session
                                           /\ streams'[c].late = streams[c].late
    BY RegisteredFade
  <1> QED
    BY <1>1 DEF RevokedIsClosed

LEMMA ShutdownKept ==
    ASSUME streams \in Seq(Stream), streams' \in Seq(Stream),
           Fades(streams, streams'), ShutdownIsFinal, down' = down
    PROVE  ShutdownIsFinal'
  <1>1. Registered(streams') \subseteq Registered(streams)
    BY RegisteredFade
  <1> QED
    BY <1>1 DEF ShutdownIsFinal

LEMMA StreamInvKept ==
    ASSUME StreamInv, streams' \in Seq(Stream), Fades(streams, streams'),
           ended'.dropped = ended.dropped, down' = down
    PROVE  StreamInv'
  BY NewestKept, RevokedKept, ShutdownKept DEF StreamInv

LEMMA StreamInvSame ==
    ASSUME StreamInv, UNCHANGED streams, ended'.dropped = ended.dropped,
           down' = down \/ down' # "done"
    PROVE  StreamInv'
  BY DEF StreamInv, NewestIsRegistered, RevokedIsClosed, ShutdownIsFinal, Registered

-----------------------------------------------------------------------------
(* What a section keeps of the lists.                                       *)

(* A list that somebody is behind was promised, and the promise is kept.    *)
LEMMA BehindKept ==
    ASSUME StreamInv, ListInv, NEW S \in Seq(Stream),
           DOMAIN S = DOMAIN streams,
           \A c \in DOMAIN S : S[c].user = streams[c].user,
           NEW K \in SUBSET Registered(S), NEW sent \in [DOMAIN S -> Nat],
           NEW changed \in SUBSET User, NEW heard, NEW R,
           R = Section(S, K, sent, changed, heard), behind' = R.behind,
           DOMAIN S \subseteq DOMAIN streams',
           \A c \in DOMAIN S : streams'[c].user = S[c].user,
           Registered(S) \ Closing(S, K, sent) \subseteq Registered(streams'),
           Stale(S, K, sent, changed) \subseteq fans',
           \A p \in behind :
              /\ p[1] \notin heard
              /\ p[2] \in emits \/ (p[2] \in fans /\ streams[p[1]].user # p[2])
              => p[2] \in emits' \/ (p[2] \in fans' /\ streams[p[1]].user # p[2])
    PROVE  /\ behind' \subseteq (DOMAIN streams') \X User
           /\ BehindSound' /\ EveryChangeIsTold'
  <1>1. behind \subseteq (DOMAIN S) \X User
    BY DEF ListInv
  <1>2. /\ R.behind \subseteq (DOMAIN S) \X User
        /\ \A p \in R.behind :
             /\ p[1] \in Registered(S) \ Closing(S, K, sent)
             /\ \/ p \in behind /\ p[1] \notin heard
                \/ /\ S[p[1]].user \in Household[p[2]]
                   /\ p[2] \in Stale(S, K, sent, changed)
    BY <1>1, SectionTells
  <1>3. ASSUME NEW p \in behind'
        PROVE  /\ p[1] \in DOMAIN S /\ p[2] \in User
               /\ p[1] \in Registered(streams')
               /\ streams'[p[1]].user \in {p[2]} \cup Household[p[2]]
               /\ p[2] \in emits' \/ (p[2] \in fans' /\ streams'[p[1]].user # p[2])
    <2>1. p[1] \in DOMAIN S /\ p[2] \in User
      BY <1>2, <1>3
    <2>2. p[1] \in Registered(streams')
      BY <1>2, <1>3
    <2>3. streams'[p[1]].user = streams[p[1]].user
      BY <2>1
    <2>4. CASE p \in behind /\ p[1] \notin heard
      <3>1. p[2] \in emits \/ (p[2] \in fans /\ streams[p[1]].user # p[2])
        BY <2>4 DEF ListInv, EveryChangeIsTold
      <3>2. streams[p[1]].user \in {p[2]} \cup Household[p[2]]
        BY <2>4 DEF ListInv, BehindSound
      <3> QED
        BY <2>1, <2>2, <2>3, <2>4, <3>1, <3>2
    <2>5. CASE S[p[1]].user \in Household[p[2]] /\ p[2] \in Stale(S, K, sent, changed)
      <3>1. p[2] \notin Household[p[2]]
        BY <2>1, HubAssumption
      <3> QED
        BY <2>1, <2>2, <2>3, <2>5, <3>1
    <2> QED
      BY <1>2, <1>3, <2>4, <2>5
  <1>4. behind' \subseteq (DOMAIN streams') \X User
    BY <1>2
  <1>5. BehindSound'
    BY <1>3 DEF BehindSound
  <1>6. EveryChangeIsTold'
    BY <1>3 DEF EveryChangeIsTold
  <1> QED
    BY <1>4, <1>5, <1>6


(* A section that dispatches one frame, and announces the evicted. *)
LEMMA DispatchKeeps ==
    ASSUME StreamInv, ListInv, NEW C, NEW heard, NEW R, R = Dispatch(C, heard),
           Becomes(R), evicted' = {}, R.evicted \subseteq fans',
           emits' \subseteq User, fans' \subseteq User,
           ended'.dropped = ended.dropped, down' = down,
           \A p \in behind :
              /\ p[1] \notin heard
              /\ p[2] \in emits \/ (p[2] \in fans /\ streams[p[1]].user # p[2])
              => p[2] \in emits' \/ (p[2] \in fans' /\ streams[p[1]].user # p[2])
    PROVE  /\ StreamInv' /\ ListInv' /\ Len(streams') = Len(streams)
           /\ Registered(streams') =
                Registered(streams) \ Closing(streams, {}, Once(C))
  <1>1. streams \in Seq(Stream)
    BY DEF StreamInv
  <1>2. Once(C) \in [DOMAIN streams -> Nat]
    BY DEF Once
  <1>3. R = Section(streams, {}, Once(C), {}, heard)
    BY DEF Dispatch
  <1>4. streams' = R.streams /\ behind' = R.behind
    BY DEF Becomes
  <1>5. /\ streams' \in Seq(Stream) /\ Fades(streams, streams')
        /\ Registered(streams') = Registered(streams) \ Closing(streams, {}, Once(C))
    <2>1. {} \in SUBSET Registered(streams) /\ \A c \in {} : ~streams[c].alive
      OBVIOUS
    <2>2. Fades(streams, R.streams)
      BY <1>1, <1>2, <1>3, <2>1, SectionFades
    <2>3. Registered(R.streams) = Left(streams, {}, Once(C))
      BY <1>1, <1>2, <1>3, <2>1, SectionLeaves
    <2>4. R.streams \in Seq(Stream)
      BY <1>1, <1>2, <1>3, <2>1, SectionTyped, Zenon
    <2> QED
      BY <1>4, <2>2, <2>3, <2>4 DEF Left
  <1>6. StreamInv'
    BY <1>5, StreamInvKept
  <1>7. /\ DOMAIN streams' = DOMAIN streams
        /\ \A c \in DOMAIN streams : streams'[c].user = streams[c].user
    BY <1>1, <1>5, RegisteredFade
  <1>8. Stale(streams, {}, Once(C), {}) \subseteq fans'
    BY <1>1, <1>2, <1>3, StaleAreEvicted
  <1>9. /\ behind' \subseteq (DOMAIN streams') \X User
        /\ BehindSound' /\ EveryChangeIsTold'
    BY <1>1, <1>2, <1>3, <1>4, <1>5, <1>7, <1>8, BehindKept
  <1>10. ListInv'
    BY <1>9 DEF ListInv
  <1> QED
    BY <1>5, <1>6, <1>10 DEF Fades

LEMMA DispatchEvicts ==
    ASSUME StreamInv, ListInv, NEW C, NEW heard, NEW R, R = Dispatch(C, heard)
    PROVE  R.evicted \subseteq User
  BY EvictedTyped DEF StreamInv, ListInv, Dispatch

(* A section that closes K, and announces the owners. *)
LEMMA CloseKeeps ==
    ASSUME StreamInv, ListInv, NEW S \in Seq(Stream), Fades(streams, S),
           NEW K \in SUBSET Registered(S), \A c \in K : ~S[c].alive,
           NEW n \in [User -> Nat], NEW owners \in SUBSET User,
           \A u \in User : n[u] > 0 => u \in owners,
           \A c \in K : S[c].target # None => S[c].user \in owners,
           NEW R, R = CloseAll(S, K, n), Leaves(R, owners), emits' = emits
    PROVE  /\ streams' \in Seq(Stream) /\ Fades(streams, streams')
           /\ Registered(streams') \subseteq Registered(S) \ K
           /\ ListInv'
  <1> DEFINE sent == [c \in DOMAIN S |-> n[S[c].user]]
             changed == {u \in User : n[u] > 0}
  <1>1. streams \in Seq(Stream)
    BY DEF StreamInv
  <1>2. \A c \in DOMAIN S : S[c].user \in User
    BY StreamsFacts, StreamFacts
  <1>3. sent \in [DOMAIN S -> Nat]
    BY <1>2
  <1>4. R = Section(S, K, sent, changed, {})
    BY DEF CloseAll
  <1>5. /\ streams' = R.streams /\ behind' = R.behind /\ evicted' = R.evicted
        /\ fans' = fans \cup owners
    BY DEF Leaves, Becomes
  <1>6. /\ changed \in SUBSET owners /\ changed \in SUBSET User
        /\ \A c \in DOMAIN S : S[c].user \notin owners => sent[c] = 0
    BY <1>2
  <1> HIDE DEF sent, changed
  <1>7. /\ streams' \in Seq(Stream) /\ Fades(S, streams')
        /\ Registered(streams') = Registered(S) \ Closing(S, K, sent)
    <2>1. Fades(S, R.streams)
      BY <1>3, <1>4, SectionFades
    <2>2. Registered(R.streams) = Left(S, K, sent)
      BY <1>3, <1>4, SectionLeaves
    <2>3. R.streams \in Seq(Stream)
      BY <1>3, <1>4, SectionTyped, Zenon
    <2> QED
      BY <1>5, <2>1, <2>2, <2>3 DEF Left
  <1>8. K \subseteq Closing(S, K, sent)
    BY <1>3, ClosingSettles DEF Settles
  <1>9. /\ DOMAIN S = DOMAIN streams /\ DOMAIN streams' = DOMAIN S
        /\ \A c \in DOMAIN S : S[c].user = streams[c].user
        /\ \A c \in DOMAIN S : streams'[c].user = S[c].user
    BY <1>1, <1>7, RegisteredFade
  <1>10. \A c \in DOMAIN S : S[c].registered \in BOOLEAN
    BY StreamsFacts, StreamFacts
  <1>11. Fades(streams, streams')
    BY <1>7, <1>9, <1>10, FadesAfter
  <1>12. Stale(S, K, sent, changed) \subseteq fans'
    <2>1. Stale(S, K, sent, changed) \subseteq owners
      BY <1>3, <1>6, StaleStaysAmong
    <2> QED
      BY <1>5, <2>1
  <1>13. \A p \in behind :
            /\ p[1] \notin {}
            /\ p[2] \in emits \/ (p[2] \in fans /\ streams[p[1]].user # p[2])
            => p[2] \in emits' \/ (p[2] \in fans' /\ streams[p[1]].user # p[2])
    BY <1>5
  <1>14. /\ behind' \subseteq (DOMAIN streams') \X User
         /\ BehindSound' /\ EveryChangeIsTold'
    BY <1>3, <1>4, <1>5, <1>6, <1>7, <1>9, <1>12, <1>13, BehindKept
  <1>15. evicted' \subseteq User
    BY <1>4, <1>5, EvictedTyped DEF ListInv
  <1>16. ListInv'
    BY <1>5, <1>14, <1>15 DEF ListInv
  <1> QED
    BY <1>7, <1>8, <1>11, <1>16

(* Streams that are only ended by the server still settle nothing.          *)
LEMMA DroppedFades ==
    ASSUME StreamInv, NEW C
    PROVE  /\ Dropped(C) \in Seq(Stream) /\ Fades(streams, Dropped(C))
           /\ Registered(Dropped(C)) = Registered(streams)
           /\ \A c \in C \cap DOMAIN streams : ~Dropped(C)[c].alive
  <1>1. /\ Len(streams) \in Nat /\ DOMAIN streams = 1 .. Len(streams)
        /\ \A c \in DOMAIN streams : streams[c] \in Stream
    BY StreamsFacts DEF StreamInv
  <1>2. ASSUME NEW c \in DOMAIN streams
        PROVE  /\ Dropped(C)[c] \in Stream /\ Fade(streams[c], Dropped(C)[c])
               /\ Dropped(C)[c].registered = streams[c].registered
               /\ c \in C => ~Dropped(C)[c].alive
    <2>1. PICK s \in Stream : s = streams[c]
      BY <1>1
    <2>2. PICK t : t = [s EXCEPT !.alive = FALSE]
      OBVIOUS
    <2>3. /\ t \in Stream /\ ~t.alive /\ t.user = s.user /\ t.target = s.target
          /\ t.registered = s.registered /\ t.session = s.session /\ t.late = s.late
      BY <2>2 DEF Stream
    <2>4. Dropped(C)[c] = IF c \in C THEN t ELSE s
      BY <2>1, <2>2 DEF Dropped
    <2> QED
      BY <2>1, <2>3, <2>4 DEF Fade
  <1>3. Dropped(C) \in [1 .. Len(streams) -> Stream]
    BY <1>1, <1>2 DEF Dropped
  <1>4. /\ Dropped(C) \in Seq(Stream) /\ Len(Dropped(C)) = Len(streams)
        /\ DOMAIN Dropped(C) = DOMAIN streams
    BY <1>1, <1>3
  <1> QED
    BY <1>2, <1>4 DEF Fades, Registered


-----------------------------------------------------------------------------
(* The steps.                                                               *)

LEMMA RestKept ==
    ASSUME RestInv, Len(streams') = Len(streams),
           UNCHANGED <<polled, down, opening, ended, commands, unheard>>
    PROVE  RestInv'
  BY DEF RestInv, Counted, UnheardIsClosed

(* What is polled may change, while not more of it is stale. *)
LEMMA PolledKept ==
    ASSUME RestInv, Len(streams') = Len(streams), polled' \in [Device -> Polled],
           \A d \in Device : polled'[d].stale => polled[d].stale,
           UNCHANGED <<down, opening, ended, unheard>>,
           commands' \subseteq [user : User, target : Target, to : 0 .. MaxStreams]
    PROVE  RestInv'
  <1>1. {d \in Device : polled'[d].stale} \in SUBSET {d \in Device : polled[d].stale}
    OBVIOUS
  <1>2. IsFiniteSet({d \in Device : polled[d].stale})
    BY DEF RestInv, Counted
  <1>3. IsFiniteSet({d \in Device : polled'[d].stale})
    BY <1>1, <1>2, FS_Subset
  <1>4. Counted'
    BY <1>3 DEF RestInv, Counted
  <1> QED
    BY <1>4 DEF RestInv, UnheardIsClosed

LEMMA EmitsKeeps ==
    ASSUME IInv, NEW U, Emits(U)
    PROVE  IInv'
  <1>1. PICK R : R = Dispatch(OfUser(streams, U), {})
    OBVIOUS
  <1>2. /\ Becomes(R) /\ evicted' = {} /\ fans' = fans \cup R.evicted
        /\ UNCHANGED <<polled, down, opening, ended, emits, commands, unheard>>
    BY <1>1 DEF Emits, Sends
  <1>3. R.evicted \subseteq User
    BY <1>1, DispatchEvicts DEF IInv
  <1>4. emits' \subseteq User /\ fans' \subseteq User
    BY <1>2, <1>3 DEF IInv, ListInv
  <1>5. StreamInv' /\ ListInv' /\ Len(streams') = Len(streams)
    BY <1>1, <1>2, <1>4, DispatchKeeps DEF IInv
  <1> QED
    BY <1>2, <1>5, RestKept DEF IInv

(* The owner's own streams hear it, and the household is left to the hook. *)
LEMMA AnnouncesKeeps ==
    ASSUME IInv, NEW u \in User, Announces(u)
    PROVE  IInv'
  <1> DEFINE heard == OfUser(streams, {u})
  <1>1. PICK R : R = Dispatch(heard, heard)
    OBVIOUS
  <1>2. /\ Becomes(R) /\ evicted' = {} /\ fans' = fans \cup {u} \cup R.evicted
        /\ emits' = emits \ {u}
        /\ UNCHANGED <<polled, down, opening, ended, commands, unheard>>
    BY <1>1 DEF Announces, Sends
  <1>3. R.evicted \subseteq User
    BY <1>1, DispatchEvicts DEF IInv
  <1>4. emits' \subseteq User /\ fans' \subseteq User
    BY <1>2, <1>3 DEF IInv, ListInv
  <1>5. ASSUME NEW p \in behind, p[1] \notin heard,
               p[2] \in emits \/ (p[2] \in fans /\ streams[p[1]].user # p[2])
        PROVE  p[2] \in emits' \/ (p[2] \in fans' /\ streams[p[1]].user # p[2])
    <2>1. p[1] \in Registered(streams)
      BY DEF IInv, ListInv, BehindSound
    <2>2. streams[p[1]].user # u
      BY <1>5, <2>1 DEF OfUser
    <2> QED
      BY <1>2, <1>5, <2>2
  <1> HIDE DEF heard
  <1>6. StreamInv' /\ ListInv' /\ Len(streams') = Len(streams)
    BY <1>1, <1>2, <1>4, <1>5, DispatchKeeps DEF IInv
  <1> QED
    BY <1>2, <1>6, RestKept DEF IInv

LEMMA FansOutKeeps ==
    ASSUME IInv, NEW u \in User, FansOut(u)
    PROVE  IInv'
  <1>1. CASE Household[u] = {}
    <2>1. /\ fans' = fans \ {u}
          /\ UNCHANGED <<streams, evicted, behind, polled, down, opening, ended,
                         emits, commands, unheard>>
      BY <1>1 DEF FansOut
    <2>2. StreamInv'
      BY <2>1, StreamInvSame DEF IInv
    <2>3. ASSUME NEW p \in behind
          PROVE  p[2] \in emits \/ (p[2] \in fans' /\ streams[p[1]].user # p[2])
      BY <1>1, <2>1 DEF IInv, ListInv, BehindSound, EveryChangeIsTold
    <2>4. EveryChangeIsTold'
      BY <2>1, <2>3 DEF EveryChangeIsTold
    <2>5. ListInv'
      BY <2>1, <2>4 DEF IInv, ListInv, BehindSound, Registered
    <2> QED
      BY <2>1, <2>2, <2>5, RestKept DEF IInv
  <1>2. CASE Household[u] # {}
    <2> DEFINE heard == Watching(streams, u)
    <2>1. PICK R : R = Dispatch(heard, heard)
      OBVIOUS
    <2>2. /\ Becomes(R) /\ evicted' = {} /\ fans' = (fans \ {u}) \cup R.evicted
          /\ UNCHANGED <<polled, down, opening, ended, emits, commands, unheard>>
      BY <1>2, <2>1 DEF FansOut
    <2>3. R.evicted \subseteq User
      BY <2>1, DispatchEvicts DEF IInv
    <2>4. emits' \subseteq User /\ fans' \subseteq User
      BY <2>2, <2>3 DEF IInv, ListInv
    <2>5. ASSUME NEW p \in behind, p[1] \notin heard,
                 p[2] \in emits \/ (p[2] \in fans /\ streams[p[1]].user # p[2])
          PROVE  p[2] \in emits' \/ (p[2] \in fans' /\ streams[p[1]].user # p[2])
      <3>1. /\ p[1] \in Registered(streams)
            /\ streams[p[1]].user \in {p[2]} \cup Household[p[2]]
        BY DEF IInv, ListInv, BehindSound
      <3>2. CASE p[2] = u
        <4>1. streams[p[1]].user = p[2]
          BY <2>5, <3>1, <3>2 DEF Watching, OfUser
        <4> QED
          BY <2>2, <2>5, <4>1
      <3>3. CASE p[2] # u
        BY <2>2, <2>5, <3>3
      <3> QED
        BY <3>2, <3>3
    <2> HIDE DEF heard
    <2>6. StreamInv' /\ ListInv' /\ Len(streams') = Len(streams)
      BY <2>1, <2>2, <2>4, <2>5, DispatchKeeps DEF IInv
    <2> QED
      BY <2>2, <2>6, RestKept DEF IInv
  <1> QED
    BY <1>1, <1>2

LEMMA FansOutFailsKeeps ==
    ASSUME IInv, NEW u \in User, FansOutFails(u)
    PROVE  IInv'
  <1>1. /\ fans' = fans \ {u}
        /\ behind' = {p \in behind : p[2] = u => u \in emits \/ streams[p[1]].user = u}
        /\ UNCHANGED <<streams, polled, evicted, down, opening, ended, emits,
                       commands, unheard>>
    BY DEF FansOutFails, registry
  <1>2. StreamInv'
    BY <1>1, StreamInvSame DEF IInv
  <1>3. ASSUME NEW p \in behind'
        PROVE  p[2] \in emits \/ (p[2] \in fans' /\ streams[p[1]].user # p[2])
    <2>1. p \in behind /\ (p[2] = u => u \in emits \/ streams[p[1]].user = u)
      BY <1>1
    <2>2. p[2] \in emits \/ (p[2] \in fans /\ streams[p[1]].user # p[2])
      BY <2>1 DEF IInv, ListInv, BehindSound, EveryChangeIsTold
    <2> QED
      BY <1>1, <2>1, <2>2
  <1>4. EveryChangeIsTold'
    BY <1>1, <1>3 DEF EveryChangeIsTold
  <1>5. behind' \subseteq behind
    BY <1>1
  <1>6. ListInv'
    BY <1>1, <1>4, <1>5 DEF IInv, ListInv, BehindSound, Registered
  <1> QED
    BY <1>1, <1>2, <1>6, RestKept DEF IInv


(* The server ends the streams C, and announces what it closes. *)
LEMMA EndsKeeps ==
    ASSUME StreamInv, ListInv, NEW C \in SUBSET Registered(streams),
           NEW n \in [User -> Nat], NEW owners \in SUBSET User,
           \A u \in User : n[u] > 0 => u \in owners, Owners(C) \subseteq owners,
           Leaves(CloseAll(Dropped(C), C, n), owners), emits' = emits
    PROVE  /\ streams' \in Seq(Stream) /\ Fades(streams, streams')
           /\ Registered(streams') \subseteq Registered(streams) \ C
           /\ ListInv'
  <1>1. PICK S : S = Dropped(C)
    OBVIOUS
  <1>2. /\ S \in Seq(Stream) /\ Fades(streams, S)
        /\ Registered(S) = Registered(streams)
        /\ \A c \in C \cap DOMAIN streams : ~S[c].alive
    BY <1>1, DroppedFades
  <1>3. C \subseteq DOMAIN streams
    BY DEF Registered
  <1>4. \A c \in DOMAIN streams : S[c].user = streams[c].user /\ S[c].target = streams[c].target
    BY <1>2, RegisteredFade DEF StreamInv
  <1>5. \A c \in C : S[c].target # None => S[c].user \in owners
    BY <1>3, <1>4 DEF Owners, Targets
  <1>6. PICK R : R = CloseAll(S, C, n)
    OBVIOUS
  <1>7. Leaves(R, owners)
    BY <1>1, <1>6
  <1>8. C \in SUBSET Registered(S) /\ \A c \in C : ~S[c].alive
    BY <1>2, <1>3
  <1> QED
    BY <1>2, <1>5, <1>6, <1>7, <1>8, CloseKeeps

LEMMA OwnersTyped ==
    ASSUME StreamInv, NEW C \in SUBSET Registered(streams)
    PROVE  Owners(C) \in SUBSET User
  BY StreamsFacts, StreamFacts DEF Owners, Targets, StreamInv

LEMMA OneTyped ==
    ASSUME NEW U
    PROVE  One(U) \in [User -> Nat] /\ \A u \in User : One(U)[u] > 0 => u \in U
  BY DEF One

LEMMA TearsDownKeeps ==
    ASSUME IInv, NEW c \in DOMAIN streams, TearsDown(c)
    PROVE  IInv'
  <1>1. StreamInv /\ ListInv
    BY DEF IInv
  <1>2. PICK S : S = [streams EXCEPT ![c].alive = FALSE]
    OBVIOUS
  <1>3. PICK C \in SUBSET Registered(streams) : C = Own(c)
    BY DEF Own
  <1>4. /\ Leaves(CloseAll(S, C, One({})), Owners(C))
        /\ UNCHANGED <<polled, down, opening, ended, emits, commands, unheard>>
    BY <1>2, <1>3 DEF TearsDown
  <1>5. S = Dropped({c})
    BY <1>1, <1>2, StreamsFacts DEF Dropped, StreamInv
  <1>6. /\ S \in Seq(Stream) /\ Fades(streams, S)
        /\ Registered(S) = Registered(streams)
        /\ ~S[c].alive
    BY <1>1, <1>5, DroppedFades
  <1>7. \A d \in DOMAIN streams : S[d].user = streams[d].user /\ S[d].target = streams[d].target
    BY <1>1, <1>6, RegisteredFade DEF StreamInv
  <1>8. Owners(C) \in SUBSET User
    BY <1>1, OwnersTyped
  <1>9. \A d \in C : S[d].target # None => S[d].user \in Owners(C)
    BY <1>7 DEF Owners, Targets, Registered
  <1>10. C \in SUBSET Registered(S) /\ \A d \in C : ~S[d].alive
    BY <1>3, <1>6 DEF Own
  <1>11. PICK R : R = CloseAll(S, C, One({}))
    OBVIOUS
  <1>12. Leaves(R, Owners(C))
    BY <1>4, <1>11
  <1>13. /\ streams' \in Seq(Stream) /\ Fades(streams, streams') /\ ListInv'
    BY <1>1, <1>4, <1>6, <1>8, <1>9, <1>10, <1>11, <1>12, OneTyped, CloseKeeps
  <1>14. StreamInv'
    BY <1>1, <1>4, <1>13, StreamInvKept
  <1> QED
    BY <1>4, <1>13, <1>14, RestKept DEF IInv, Fades

LEMMA AbsentTyped == Absent \in Polled /\ ~Absent.stale
  BY HubAssumption DEF Absent, Polled

LEMMA DropsKeeps ==
    ASSUME IInv, NEW C \in SUBSET Registered(streams), NEW u \in User, NEW P,
           Drops(C, u, P), UNCHANGED ended
    PROVE  IInv'
  <1> DEFINE here == {d \in P : polled[d].here}
             owner == IF here = {} THEN {} ELSE {u}
  <1>1. StreamInv /\ ListInv
    BY DEF IInv
  <1>2. /\ polled' = [d \in Device |-> IF d \in here THEN Absent ELSE polled[d]]
        /\ Leaves(CloseAll(Dropped(C), C, One(owner)), Owners(C) \cup owner)
        /\ UNCHANGED <<down, opening, emits, commands, unheard, ended>>
    BY DEF Drops
  <1>3. owner \in SUBSET User
    OBVIOUS
  <1> HIDE DEF here, owner
  <1>4. PICK owners \in SUBSET User : owners = Owners(C) \cup owner
    BY <1>1, <1>3, OwnersTyped
  <1>5. PICK n \in [User -> Nat] : n = One(owner)
    BY OneTyped
  <1>6. /\ Leaves(CloseAll(Dropped(C), C, n), owners)
        /\ Owners(C) \subseteq owners /\ \A v \in User : n[v] > 0 => v \in owners
    BY <1>2, <1>4, <1>5, OneTyped
  <1>7. streams' \in Seq(Stream) /\ Fades(streams, streams') /\ ListInv'
    BY <1>1, <1>2, <1>6, EndsKeeps
  <1>8. StreamInv'
    BY <1>1, <1>2, <1>7, StreamInvKept
  <1>9. polled \in [Device -> Polled]
    BY DEF IInv, RestInv
  <1>10. /\ polled' \in [Device -> Polled]
         /\ \A d \in Device : polled'[d].stale => polled[d].stale
    BY <1>2, <1>9, AbsentTyped
  <1>11. RestInv'
    BY <1>2, <1>7, <1>10, PolledKept DEF IInv, RestInv, Fades
  <1> QED
    BY <1>7, <1>8, <1>11 DEF IInv

LEMMA DropsUserKeeps ==
    ASSUME IInv, NEW u \in User, DropsUser(u)
    PROVE  IInv'
  <1>1. OfUser(streams, {u}) \in SUBSET Registered(streams)
    BY DEF OfUser
  <1> QED
    BY <1>1, DropsKeeps DEF DropsUser

LEMMA DropsTargetKeeps ==
    ASSUME IInv, NEW u \in User, NEW t \in Target, DropsTarget(u, t)
    PROVE  IInv'
  <1>1. {c \in OfUser(streams, {u}) : streams[c].target = t} \in SUBSET Registered(streams)
    BY DEF OfUser
  <1> QED
    BY <1>1, DropsKeeps DEF DropsTarget

(* A session is dropped once it is revoked, and with it all of its streams. *)
LEMMA DropsSessionKeeps ==
    ASSUME IInv, NEW s \in Session, DropsSession(s)
    PROVE  IInv'
  <1>1. StreamInv /\ ListInv
    BY DEF IInv
  <1>2. PICK C \in SUBSET Registered(streams) : C = OfSession(s)
    BY DEF OfSession
  <1>3. /\ s \in ended.revoked \ ended.dropped
        /\ ended' = [ended EXCEPT !.dropped = @ \cup {s}]
        /\ Leaves(CloseAll(Dropped(C), C, One({})), Owners(C))
        /\ UNCHANGED <<polled, down, opening, emits, commands, unheard>>
    BY <1>2 DEF DropsSession
  <1>4. PICK n \in [User -> Nat] : n = One({})
    BY OneTyped
  <1>5. /\ Leaves(CloseAll(Dropped(C), C, n), Owners(C)) /\ Owners(C) \in SUBSET User
        /\ \A v \in User : n[v] > 0 => v \in Owners(C)
    BY <1>1, <1>3, <1>4, OneTyped, OwnersTyped
  <1>6. /\ streams' \in Seq(Stream) /\ Fades(streams, streams')
        /\ Registered(streams') \subseteq Registered(streams) \ C /\ ListInv'
    BY <1>1, <1>3, <1>5, EndsKeeps
  <1>7. /\ ended \in [revoked : SUBSET Session, dropped : SUBSET Session]
        /\ ended' \in [revoked : SUBSET Session, dropped : SUBSET Session]
        /\ ended'.dropped = ended.dropped \cup {s}
    BY <1>3 DEF IInv, RestInv
  <1>8. \A c \in Registered(streams') : /\ streams'[c].session = streams[c].session
                                        /\ streams'[c].late = streams[c].late
    BY <1>1, <1>6, RegisteredFade DEF StreamInv
  <1>9. RevokedIsClosed'
    <2> SUFFICES ASSUME NEW c \in Registered(streams'),
                        streams'[c].session \in ended'.dropped
                 PROVE  streams'[c].late
      BY DEF RevokedIsClosed
    <2>1. c \in Registered(streams) /\ streams[c].session # s
      BY <1>2, <1>6, <1>8 DEF OfSession
    <2> QED
      BY <1>1, <1>7, <1>8, <2>1 DEF StreamInv, RevokedIsClosed
  <1>10. StreamInv'
    BY <1>1, <1>3, <1>6, <1>9, NewestKept, ShutdownKept DEF StreamInv
  <1>11. RestInv'
    BY <1>3, <1>6, <1>7 DEF IInv, RestInv, Counted, UnheardIsClosed, Fades
  <1> QED
    BY <1>6, <1>10, <1>11 DEF IInv


LEMMA ReadsKeeps ==
    ASSUME IInv, NEW c \in DOMAIN streams, Reads(c)
    PROVE  IInv'
  <1>1. /\ Len(streams) \in Nat /\ DOMAIN streams = 1 .. Len(streams)
        /\ \A d \in DOMAIN streams : streams[d] \in Stream
    BY StreamsFacts DEF IInv, StreamInv
  <1>2. /\ streams' = [streams EXCEPT ![c].queue = @ - 1] /\ streams[c].queue > 0
        /\ UNCHANGED <<polled, evicted, down, opening, ended, emits, fans, commands,
                       behind, unheard>>
    BY DEF Reads
  <1>3. PICK n \in Nat : n = streams[c].queue - 1 /\ n <= ConnQueueMax
    BY <1>1, <1>2, StreamFacts, HubAssumption
  <1>4. PICK t : t = [streams[c] EXCEPT !.queue = n]
    OBVIOUS
  <1>5. /\ t \in Stream /\ t.user = streams[c].user /\ t.target = streams[c].target
        /\ t.registered = streams[c].registered /\ t.session = streams[c].session
        /\ t.late = streams[c].late /\ t.alive = streams[c].alive
    BY <1>1, <1>3, <1>4, QueueFacts
  <1>6. streams' = [streams EXCEPT ![c] = t]
    BY <1>2, <1>3, <1>4
  <1>7. /\ streams' \in Seq(Stream) /\ Len(streams') = Len(streams)
        /\ DOMAIN streams' = DOMAIN streams
    <2>1. streams' \in [1 .. Len(streams) -> Stream]
      BY <1>1, <1>5, <1>6
    <2> QED
      BY <1>1, <2>1
  <1>8. \A d \in DOMAIN streams :
           /\ Fade(streams[d], streams'[d])
           /\ streams'[d].registered = streams[d].registered
           /\ streams'[d].user = streams[d].user
    BY <1>1, <1>5, <1>6, StreamFacts DEF Fade
  <1>9. Fades(streams, streams')
    BY <1>7, <1>8 DEF Fades
  <1>10. Registered(streams') = Registered(streams)
    BY <1>7, <1>8 DEF Registered
  <1>11. StreamInv'
    BY <1>2, <1>7, <1>9, StreamInvKept DEF IInv
  <1>12. ListInv'
    <2>1. ASSUME NEW p \in behind
          PROVE  streams'[p[1]].user = streams[p[1]].user
      BY <1>8 DEF IInv, ListInv
    <2>2. BehindSound' /\ EveryChangeIsTold'
      BY <1>2, <1>10, <2>1 DEF IInv, ListInv, BehindSound, EveryChangeIsTold
    <2> QED
      BY <1>2, <1>7, <2>2 DEF IInv, ListInv
  <1> QED
    BY <1>2, <1>7, <1>11, <1>12, RestKept DEF IInv

LEMMA ListInvSame ==
    ASSUME ListInv, UNCHANGED <<streams, evicted, emits, fans, behind>>
    PROVE  ListInv'
  BY DEF ListInv, BehindSound, EveryChangeIsTold, Registered

LEMMA AuthenticatesKeeps ==
    ASSUME IInv, NEW i \in Asked, Authenticates(i)
    PROVE  IInv'
  <1>1. /\ Len(streams) + Cardinality(opening) < MaxStreams
        /\ opening' = opening \cup {i}
        /\ UNCHANGED <<streams, polled, evicted, down, ended, emits, fans, commands,
                       behind, unheard>>
    BY DEF Authenticates, registry
  <1>2. StreamInv' /\ ListInv'
    BY <1>1, StreamInvSame, ListInvSame DEF IInv
  <1>3. IsFiniteSet(opening)
    BY DEF IInv, RestInv, Counted
  <1>4. /\ IsFiniteSet(opening') /\ Cardinality(opening') \in Nat
        /\ Cardinality(opening) \in Nat
        /\ Cardinality(opening') <= Cardinality(opening) + 1
    <2>1. Cardinality(opening) \in Nat
      BY <1>3, FS_CardinalityType
    <2>2. /\ IsFiniteSet(opening \cup {i})
          /\ Cardinality(opening \cup {i}) = Cardinality(opening)
               \/ Cardinality(opening \cup {i}) = Cardinality(opening) + 1
      BY <1>3, FS_AddElement
    <2> QED
      BY <1>1, <1>3, <2>1, <2>2
  <1>5. Len(streams) \in Nat /\ MaxStreams \in Nat
    BY StreamsFacts, HubAssumption DEF IInv, StreamInv
  <1>6. Len(streams') + Cardinality(opening') <= MaxStreams
    BY <1>1, <1>4, <1>5
  <1>7. RestInv'
    BY <1>1, <1>4, <1>6 DEF IInv, RestInv, Counted, UnheardIsClosed
  <1> QED
    BY <1>2, <1>7 DEF IInv

LEMMA RevokesKeeps ==
    ASSUME IInv, NEW s \in Session, Revokes(s)
    PROVE  IInv'
  <1>1. /\ ended' = [ended EXCEPT !.revoked = @ \cup {s}]
        /\ UNCHANGED <<streams, polled, evicted, down, opening, emits, fans, commands,
                       behind, unheard>>
    BY DEF Revokes, registry
  <1>2. /\ ended \in [revoked : SUBSET Session, dropped : SUBSET Session]
        /\ ended' \in [revoked : SUBSET Session, dropped : SUBSET Session]
        /\ ended'.dropped = ended.dropped
    BY <1>1 DEF IInv, RestInv
  <1>3. StreamInv' /\ ListInv'
    BY <1>1, <1>2, StreamInvSame, ListInvSame DEF IInv
  <1>4. RestInv'
    BY <1>1, <1>2 DEF IInv, RestInv, Counted, UnheardIsClosed
  <1> QED
    BY <1>3, <1>4 DEF IInv

LEMMA ShutsDownKeeps ==
    ASSUME IInv, ShutsDown
    PROVE  IInv'
  <1>1. /\ down' = "begun"
        /\ UNCHANGED <<streams, polled, evicted, opening, ended, emits, fans, commands,
                       behind, unheard>>
    BY DEF ShutsDown, registry
  <1>2. StreamInv' /\ ListInv'
    BY <1>1, StreamInvSame, ListInvSame DEF IInv
  <1>3. RestInv'
    BY <1>1 DEF IInv, RestInv, Counted, UnheardIsClosed
  <1> QED
    BY <1>2, <1>3 DEF IInv

(* The drain leaves nobody to be told, and nobody registered. *)
LEMMA DrainsKeeps ==
    ASSUME IInv, Drains
    PROVE  IInv'
  <1>1. /\ Len(streams) \in Nat /\ DOMAIN streams = 1 .. Len(streams)
        /\ \A d \in DOMAIN streams : streams[d] \in Stream
    BY StreamsFacts DEF IInv, StreamInv
  <1>2. /\ down' = "done" /\ behind' = {}
        /\ streams' = [c \in DOMAIN streams |->
                         IF streams[c].registered
                           THEN [Unregistered(streams[c]) EXCEPT !.alive = FALSE]
                         ELSE streams[c]]
        /\ UNCHANGED <<polled, evicted, opening, ended, emits, fans, commands, unheard>>
    BY DEF Drains
  <1>3. ASSUME NEW c \in DOMAIN streams
        PROVE  /\ streams'[c] \in Stream /\ Fade(streams[c], streams'[c])
               /\ ~streams'[c].registered
    <2>1. CASE streams[c].registered
      <3>1. PICK t : t = [Unregistered(streams[c]) EXCEPT !.alive = FALSE]
        OBVIOUS
      <3>2. /\ t \in Stream /\ t.user = streams[c].user /\ t.target = streams[c].target
            /\ ~t.registered /\ t.alive = FALSE
        BY <1>1, <3>1, UnregisteredFacts
      <3>3. streams'[c] = t
        BY <1>2, <2>1, <3>1
      <3> QED
        BY <3>2, <3>3 DEF Fade
    <2>2. CASE ~streams[c].registered
      <3>1. streams'[c] = streams[c]
        BY <1>2, <2>2
      <3> QED
        BY <1>1, <2>2, <3>1 DEF Fade
    <2> QED
      BY <2>1, <2>2
  <1>4. streams' \in [1 .. Len(streams) -> Stream]
    BY <1>1, <1>2, <1>3
  <1>5. /\ streams' \in Seq(Stream) /\ Len(streams') = Len(streams)
        /\ DOMAIN streams' = DOMAIN streams
    BY <1>1, <1>4
  <1>6. Fades(streams, streams') /\ Registered(streams') = {}
    BY <1>3, <1>5 DEF Fades, Registered
  <1>7. RevokedIsClosed' /\ ShutdownIsFinal'
    BY <1>6 DEF RevokedIsClosed, ShutdownIsFinal
  <1>8. StreamInv'
    BY <1>5, <1>6, <1>7, NewestKept DEF IInv, StreamInv
  <1>9. ListInv'
    BY <1>2 DEF IInv, ListInv, BehindSound, EveryChangeIsTold
  <1>10. RestInv'
    BY <1>2, <1>5 DEF IInv, RestInv, Counted, UnheardIsClosed
  <1> QED
    BY <1>8, <1>9, <1>10 DEF IInv


(* Whoever shows the owner's list will be told of the new target. *)
LEMMA RegistersKeeps ==
    ASSUME IInv, NEW d \in Device, Registers(d)
    PROVE  IInv'
  <1>1. /\ polled' = [polled EXCEPT ![d].here = TRUE, ![d].stale = FALSE]
        /\ emits' = IF polled[d].here THEN emits ELSE emits \cup {d[1]}
        /\ behind' = IF polled[d].here THEN behind
                     ELSE behind \cup (OfUser(streams, {d[1]} \cup Household[d[1]]) \X {d[1]})
        /\ UNCHANGED <<streams, evicted, down, opening, ended, fans, commands, unheard>>
    BY DEF Registers
  <1>2. d[1] \in User
    BY HubAssumption
  <1>3. polled \in [Device -> Polled]
    BY DEF IInv, RestInv
  <1>4. PICK q : q = [polled[d] EXCEPT !.here = TRUE, !.stale = FALSE]
    OBVIOUS
  <1>5. q \in Polled /\ ~q.stale
    BY <1>3, <1>4 DEF Polled
  <1>6. polled' = [polled EXCEPT ![d] = q]
    BY <1>1, <1>3, <1>4
  <1>7. /\ polled' \in [Device -> Polled]
        /\ \A e \in Device : polled'[e].stale => polled[e].stale
    BY <1>3, <1>5, <1>6
  <1>8. RestInv'
    BY <1>1, <1>7, PolledKept DEF IInv, RestInv
  <1>9. StreamInv'
    BY <1>1, StreamInvSame DEF IInv
  <1>10. CASE polled[d].here
    BY <1>1, <1>8, <1>9, <1>10, ListInvSame DEF IInv
  <1>11. CASE ~polled[d].here
    <2> DEFINE new == OfUser(streams, {d[1]} \cup Household[d[1]]) \X {d[1]}
    <2>1. emits' = emits \cup {d[1]} /\ behind' = behind \cup new
      BY <1>1, <1>11
    <2>2. \A p \in new : /\ p[1] \in Registered(streams) /\ p[2] = d[1]
                         /\ streams[p[1]].user \in {p[2]} \cup Household[p[2]]
      BY DEF OfUser
    <2>3. new \subseteq (DOMAIN streams) \X User
      BY <1>2 DEF OfUser, Registered
    <2> HIDE DEF new
    <2>4. BehindSound'
      BY <1>1, <2>1, <2>2 DEF IInv, ListInv, BehindSound, Registered
    <2>5. EveryChangeIsTold'
      BY <1>1, <2>1, <2>2 DEF IInv, ListInv, EveryChangeIsTold
    <2>6. ListInv'
      BY <1>1, <1>2, <2>1, <2>3, <2>4, <2>5 DEF IInv, ListInv
    <2> QED
      BY <1>8, <1>9, <2>6 DEF IInv
  <1> QED
    BY <1>10, <1>11

LEMMA StopsPollingKeeps ==
    ASSUME IInv, NEW d \in Device, StopsPolling(d)
    PROVE  IInv'
  <1>1. /\ polled' = [polled EXCEPT ![d].stale = TRUE]
        /\ UNCHANGED <<streams, evicted, down, opening, ended, emits, fans, commands,
                       behind, unheard>>
    BY DEF StopsPolling
  <1>2. StreamInv' /\ ListInv'
    BY <1>1, StreamInvSame, ListInvSame DEF IInv
  <1>3. polled \in [Device -> Polled]
    BY DEF IInv, RestInv
  <1>4. PICK q : q = [polled[d] EXCEPT !.stale = TRUE]
    OBVIOUS
  <1>5. q \in Polled
    BY <1>3, <1>4 DEF Polled
  <1>6. polled' = [polled EXCEPT ![d] = q]
    BY <1>1, <1>3, <1>4
  <1>7. polled' \in [Device -> Polled]
    BY <1>3, <1>5, <1>6
  <1>8. IsFiniteSet({e \in Device : polled[e].stale} \cup {d})
    BY FS_AddElement DEF IInv, RestInv, Counted
  <1>9. {e \in Device : polled'[e].stale} \in SUBSET ({e \in Device : polled[e].stale} \cup {d})
    BY <1>3, <1>6
  <1>10. IsFiniteSet({e \in Device : polled'[e].stale})
    BY <1>8, <1>9, FS_Subset
  <1>11. RestInv'
    BY <1>1, <1>7, <1>10 DEF IInv, RestInv, Counted, UnheardIsClosed
  <1> QED
    BY <1>2, <1>11 DEF IInv

LEMMA PollsKeeps ==
    ASSUME IInv, NEW d \in Device, Polls(d)
    PROVE  IInv'
  <1>1. /\ polled' = [polled EXCEPT ![d].stale = FALSE, ![d].queue = 0]
        /\ UNCHANGED <<streams, evicted, down, opening, ended, emits, fans, commands,
                       behind, unheard>>
    BY DEF Polls
  <1>2. StreamInv' /\ ListInv'
    BY <1>1, StreamInvSame, ListInvSame DEF IInv
  <1>3. polled \in [Device -> Polled]
    BY DEF IInv, RestInv
  <1>4. PICK q : q = [polled[d] EXCEPT !.stale = FALSE, !.queue = 0]
    OBVIOUS
  <1>5. q \in Polled /\ ~q.stale
    <2>1. 0 \in 0 .. PolledQueueMax
      BY HubAssumption
    <2> QED
      BY <1>3, <1>4, <2>1 DEF Polled
  <1>6. polled' = [polled EXCEPT ![d] = q]
    BY <1>1, <1>3, <1>4
  <1>7. /\ polled' \in [Device -> Polled]
        /\ \A e \in Device : polled'[e].stale => polled[e].stale
    BY <1>3, <1>5, <1>6
  <1>8. RestInv'
    BY <1>1, <1>7, PolledKept DEF IInv, RestInv
  <1> QED
    BY <1>2, <1>8 DEF IInv

(* Whoever lists removes what stopped polling, and announces its owners. *)
LEMMA CollectsKeeps ==
    ASSUME IInv, Collects, UNCHANGED <<down, ended, emits>>
    PROVE  /\ StreamInv' /\ ListInv' /\ Len(streams') = Len(streams)
           /\ polled' \in [Device -> Polled]
           /\ \A d \in Device : polled'[d].stale => polled[d].stale
  <1> DEFINE expired == {d \in Device : polled[d].stale}
             changes == [u \in User |-> Cardinality({d \in expired : d[1] = u})]
             owners == {d[1] : d \in expired}
  <1>1. polled \in [Device -> Polled]
    BY DEF IInv, RestInv
  <1>2. CASE expired = {}
    <2>1. UNCHANGED <<streams, polled, evicted, fans, behind>>
      BY <1>2 DEF Collects, registry
    <2> QED
      BY <1>1, <2>1, StreamInvSame, ListInvSame DEF IInv
  <1>3. CASE expired # {}
    <2>1. /\ polled' = [d \in Device |-> IF d \in expired THEN Absent ELSE polled[d]]
          /\ Leaves(CloseAll(streams, {}, changes), owners)
      BY <1>3 DEF Collects
    <2>2. owners \in SUBSET User
      BY HubAssumption
    <2>3. IsFiniteSet(expired)
      BY DEF IInv, RestInv, Counted
    <2>4. ASSUME NEW u \in User
          PROVE  /\ changes[u] \in Nat
                 /\ changes[u] > 0 => u \in owners
      <3> DEFINE his == {d \in expired : d[1] = u}
      <3>1. his \in SUBSET expired
        OBVIOUS
      <3> HIDE DEF expired
      <3>2. IsFiniteSet(his)
        BY <2>3, <3>1, FS_Subset
      <3>3. Cardinality(his) \in Nat /\ (Cardinality(his) = 0 <=> his = {})
        BY <3>2, FS_CardinalityType, FS_EmptySet
      <3>4. changes[u] = Cardinality(his)
        OBVIOUS
      <3> QED
        BY <3>3, <3>4
    <2>5. PICK n \in [User -> Nat] : n = changes
      BY <2>4
    <2>6. PICK R : R = CloseAll(streams, {}, n)
      OBVIOUS
    <2>7. Leaves(R, owners) /\ \A u \in User : n[u] > 0 => u \in owners
      BY <2>1, <2>4, <2>5, <2>6
    <2>8. /\ streams \in Seq(Stream) /\ Fades(streams, streams)
      BY DEF IInv, StreamInv, Fades, Fade
    <2>9. /\ {} \in SUBSET Registered(streams) /\ \A c \in {} : ~streams[c].alive
          /\ \A c \in {} : streams[c].target # None => streams[c].user \in owners
      OBVIOUS
    <2> HIDE DEF owners
    <2>10. streams' \in Seq(Stream) /\ Fades(streams, streams') /\ ListInv'
      BY <2>2, <2>6, <2>7, <2>8, <2>9, CloseKeeps DEF IInv
    <2>11. StreamInv'
      BY <2>10, StreamInvKept DEF IInv
    <2>12. /\ polled' \in [Device -> Polled]
           /\ \A d \in Device : polled'[d].stale => polled[d].stale
      BY <1>1, <2>1, AbsentTyped
    <2> QED
      BY <2>10, <2>11, <2>12 DEF Fades
  <1> QED
    BY <1>2, <1>3

LEMMA ListsKeeps ==
    ASSUME IInv, Lists
    PROVE  IInv'
  <1>1. Collects /\ UNCHANGED <<down, opening, ended, emits, commands, unheard>>
    BY DEF Lists
  <1>2. /\ StreamInv' /\ ListInv' /\ Len(streams') = Len(streams)
        /\ polled' \in [Device -> Polled]
        /\ \A d \in Device : polled'[d].stale => polled[d].stale
    BY <1>1, CollectsKeeps
  <1>3. RestInv'
    BY <1>1, <1>2, PolledKept DEF IInv, RestInv
  <1> QED
    BY <1>2, <1>3 DEF IInv

LEMMA ResolvesKeeps ==
    ASSUME IInv, NEW u \in User, NEW t \in Target, Resolves(u, t)
    PROVE  IInv'
  <1>1. Collects /\ UNCHANGED <<down, opening, ended, emits, unheard>>
    BY DEF Resolves
  <1>2. /\ StreamInv' /\ ListInv' /\ Len(streams') = Len(streams)
        /\ polled' \in [Device -> Polled]
        /\ \A d \in Device : polled'[d].stale => polled[d].stale
    BY <1>1, CollectsKeeps
  <1>3. ASSUME NEW c \in Registered(streams)
        PROVE  c \in 0 .. MaxStreams
    <2>1. /\ Len(streams) \in Nat /\ c \in 1 .. Len(streams)
      BY StreamsFacts DEF IInv, StreamInv
    <2>2. /\ Cardinality(opening) \in Nat /\ MaxStreams \in Nat
          /\ Len(streams) + Cardinality(opening) <= MaxStreams
      BY FS_CardinalityType, HubAssumption DEF IInv, RestInv, Counted
    <2> QED
      BY <2>1, <2>2
  <1>4. 0 \in 0 .. MaxStreams
    BY HubAssumption
  <1>5. commands' \subseteq [user : User, target : Target, to : 0 .. MaxStreams]
    <2>1. \/ \E c \in OfUser(streams, {u}) : commands' = {[user |-> u, target |-> t, to |-> c]}
          \/ commands' = {[user |-> u, target |-> t, to |-> 0]}
      BY DEF Resolves
    <2> QED
      BY <1>3, <1>4, <2>1 DEF OfUser
  <1>6. RestInv'
    BY <1>1, <1>2, <1>5, PolledKept DEF IInv
  <1> QED
    BY <1>2, <1>6 DEF IInv


(* A command that does not fit closes the stream it was for. *)
LEMMA CommandsKeeps ==
    ASSUME IInv, NEW k \in commands, Commands(k)
    PROVE  IInv'
  <1> DEFINE d == <<k.user, k.target>>
  <1>1. commands' = {} /\ UNCHANGED <<down, opening, ended, emits>>
    BY DEF Commands
  <1>2. CASE /\ polled' = IF polled[d].here /\ HasRoom(polled[d])
                            THEN [polled EXCEPT ![d].queue = @ + 1] ELSE polled
             /\ UNCHANGED <<streams, evicted, fans, behind, unheard>>
    <2>1. StreamInv' /\ ListInv'
      BY <1>1, <1>2, StreamInvSame, ListInvSame DEF IInv
    <2>2. polled \in [Device -> Polled]
      BY DEF IInv, RestInv
    <2>3. /\ polled' \in [Device -> Polled]
          /\ \A e \in Device : polled'[e].stale => polled[e].stale
      <3>1. CASE d \in Device /\ polled[d].here /\ HasRoom(polled[d])
        <4>1. PICK q : q = [polled[d] EXCEPT !.queue = @ + 1]
          OBVIOUS
        <4>2. polled[d].queue + 1 \in 0 .. PolledQueueMax
          BY <2>2, <3>1, HubAssumption DEF Polled, HasRoom
        <4>3. q \in Polled /\ q.stale = polled[d].stale
          BY <2>2, <3>1, <4>1, <4>2 DEF Polled
        <4>4. polled' = [polled EXCEPT ![d] = q]
          BY <1>2, <3>1, <4>1
        <4> QED
          BY <2>2, <4>3, <4>4
      <3>2. CASE ~(d \in Device /\ polled[d].here /\ HasRoom(polled[d]))
        <4>1. polled' = polled
          BY <1>2, <2>2, <3>2
        <4> QED
          BY <2>2, <4>1
      <3> QED
        BY <3>1, <3>2
    <2>4. RestInv'
      BY <1>1, <1>2, <2>3, PolledKept DEF IInv
    <2> QED
      BY <2>1, <2>4 DEF IInv
  <1>3. CASE UNCHANGED <<streams, polled, evicted, fans, behind, unheard>>
    BY <1>1, <1>3, StreamInvSame, ListInvSame
       DEF IInv, RestInv, Counted, UnheardIsClosed
  <1>4. CASE /\ k.to \in Registered(streams)
             /\ Sends(Dispatch({k.to}, {}), {})
             /\ unheard' = IF streams[k.to].queue < ConnQueueMax THEN unheard
                           ELSE unheard \cup {c \in {k.to} : streams'[c].registered}
             /\ UNCHANGED polled
    <2>1. PICK R : R = Dispatch({k.to}, {})
      OBVIOUS
    <2>2. Becomes(R) /\ evicted' = {} /\ fans' = fans \cup R.evicted
      BY <1>4, <2>1 DEF Sends
    <2>3. R.evicted \subseteq User
      BY <2>1, DispatchEvicts DEF IInv
    <2>4. emits' \subseteq User /\ fans' \subseteq User
      BY <1>1, <2>2, <2>3 DEF IInv, ListInv
    <2>5. /\ StreamInv' /\ ListInv' /\ Len(streams') = Len(streams)
          /\ Registered(streams') =
               Registered(streams) \ Closing(streams, {}, Once({k.to}))
      BY <1>1, <2>1, <2>2, <2>4, DispatchKeeps DEF IInv
    <2>6. UnheardIsClosed'
      <3>1. CASE streams[k.to].queue < ConnQueueMax
        BY <1>4, <3>1 DEF IInv, RestInv, UnheardIsClosed
      <3>2. CASE ~(streams[k.to].queue < ConnQueueMax)
        <4>1. /\ streams \in Seq(Stream) /\ streams' \in Seq(Stream)
              /\ k.to \in DOMAIN streams /\ k.to \in DOMAIN streams'
          BY <1>4, <2>5, StreamsFacts DEF IInv, StreamInv
        <4>2. PICK sent \in [DOMAIN streams -> Nat] : sent = Once({k.to})
          BY DEF Once
        <4>3. sent[k.to] = 1
          BY <4>1, <4>2 DEF Once
        <4>4. PICK gone \in SUBSET Registered(streams) : gone = Closing(streams, {}, sent)
          BY <4>1, ClosingSettles
        <4>5. \A c \in Registered(streams) \ gone : Fits(streams, gone, sent, c)
          BY <4>1, <4>4, ClosingSettles DEF Settles
        <4>6. /\ streams[k.to].queue \in Nat /\ ConnQueueMax \in Nat
              /\ Announced(streams, gone, k.to) \in Nat
          BY <4>1, StreamsFacts, StreamFacts, AnnouncedGrows, HubAssumption
        <4>7. ~Fits(streams, gone, sent, k.to)
          BY <3>2, <4>3, <4>6 DEF Fits
        <4>8. k.to \notin Registered(streams')
          BY <1>4, <2>5, <4>2, <4>4, <4>5, <4>7
        <4>9. ~streams'[k.to].registered
          BY <4>1, <4>8 DEF Registered
        <4> QED
          BY <1>4, <3>2, <4>9 DEF IInv, RestInv, UnheardIsClosed
      <3> QED
        BY <3>1, <3>2
    <2>7. RestInv'
      BY <1>1, <1>4, <2>5, <2>6 DEF IInv, RestInv, Counted
    <2> QED
      BY <2>5, <2>7 DEF IInv
  <1> QED
    BY <1>2, <1>3, <1>4 DEF Commands, registry


(* The streams that a new one replaces leave the map, and nothing else.     *)
LEMMA ReplacedFacts ==
    ASSUME StreamInv, NEW i
    PROVE  /\ Replaced(i) \in Seq(Stream) /\ Len(Replaced(i)) = Len(streams)
           /\ DOMAIN Replaced(i) = DOMAIN streams
           /\ \A c \in DOMAIN streams :
                /\ Replaced(i)[c].user = streams[c].user
                /\ Replaced(i)[c].target = streams[c].target
                /\ Replaced(i)[c].alive = streams[c].alive
                /\ Replaced(i)[c].registered <=>
                     streams[c].registered /\ c \notin Superseded(i)
                /\ Replaced(i)[c].registered =>
                     /\ Replaced(i)[c].session = streams[c].session
                     /\ Replaced(i)[c].late = streams[c].late
  <1>1. /\ Len(streams) \in Nat /\ DOMAIN streams = 1 .. Len(streams)
        /\ \A c \in DOMAIN streams : streams[c] \in Stream
    BY StreamsFacts DEF StreamInv
  <1>2. ASSUME NEW c \in DOMAIN streams
        PROVE  /\ Replaced(i)[c] \in Stream
               /\ Replaced(i)[c].user = streams[c].user
               /\ Replaced(i)[c].target = streams[c].target
               /\ Replaced(i)[c].alive = streams[c].alive
               /\ Replaced(i)[c].registered <=>
                    streams[c].registered /\ c \notin Superseded(i)
               /\ Replaced(i)[c].registered =>
                    /\ Replaced(i)[c].session = streams[c].session
                    /\ Replaced(i)[c].late = streams[c].late
    <2>1. CASE c \in Superseded(i)
      <3>1. PICK t : t = Unregistered(streams[c])
        OBVIOUS
      <3>2. /\ t \in Stream /\ t.user = streams[c].user /\ t.target = streams[c].target
            /\ ~t.registered /\ t.alive = streams[c].alive
        BY <1>1, <3>1, UnregisteredFacts
      <3>3. Replaced(i)[c] = t
        BY <2>1, <3>1 DEF Replaced
      <3> QED
        BY <2>1, <3>2, <3>3
    <2>2. CASE c \notin Superseded(i)
      <3>1. Replaced(i)[c] = streams[c]
        BY <2>2 DEF Replaced
      <3> QED
        BY <1>1, <2>2, <3>1
    <2> QED
      BY <2>1, <2>2
  <1>3. Replaced(i) \in [1 .. Len(streams) -> Stream]
    BY <1>1, <1>2 DEF Replaced
  <1>4. /\ Replaced(i) \in Seq(Stream) /\ Len(Replaced(i)) = Len(streams)
        /\ DOMAIN Replaced(i) = DOMAIN streams
    BY <1>1, <1>3
  <1> QED
    BY <1>2, <1>4

(* The new stream takes the place of what it replaces.                      *)
LEMMA ConnectsKeeps ==
    ASSUME IInv, NEW i \in Asked, NEW replayed \in 0 .. 1, Connects(i, replayed)
    PROVE  IInv'
  <1> DEFINE owner == IF i.target = None THEN {} ELSE {i.user}
             fresh == [user |-> i.user, session |-> i.session, target |-> i.target,
                       registered |-> ~Refuses, alive |-> ~Refuses,
                       queue |-> IF Refuses THEN 0 ELSE 1 + replayed,
                       late |-> i.session \in ended.dropped]
  <1>1. StreamInv /\ ListInv /\ RestInv
    BY DEF IInv
  <1>2. PICK S : S = Replaced(i)
    OBVIOUS
  <1>3. PICK R : R = CloseAll(S, {}, One(owner))
    OBVIOUS
  <1>4. PICK new : new = fresh
    OBVIOUS
  <1>5. /\ i \in opening /\ opening' = opening \ {i} /\ 1 + replayed <= ConnQueueMax
        /\ streams' = Append(R.streams, new) /\ behind' = R.behind
        /\ evicted' = R.evicted /\ fans' = fans \cup owner
        /\ UNCHANGED <<polled, down, ended, emits, commands, unheard>>
    BY <1>2, <1>3, <1>4 DEF Connects
  <1>6. /\ i.user \in User /\ i.session \in Session \cup {None}
        /\ i.target \in Target \cup {None}
    BY HubAssumption
  <1>7. /\ new \in Stream /\ new.user = i.user /\ new.target = i.target
        /\ new.session = i.session
        /\ new.registered = ~Refuses /\ new.alive = ~Refuses
        /\ i.session \in ended.dropped => new.late
    <2>1. PICK b \in BOOLEAN : b = ~Refuses
      BY DEF Refuses
    <2>2. PICK l \in BOOLEAN : l = (i.session \in ended.dropped)
      <3>1. CASE i.session \in ended.dropped
        BY <3>1, Zenon
      <3>2. CASE i.session \notin ended.dropped
        <4>1. FALSE = (i.session \in ended.dropped)
          BY <3>2
        <4> QED
          BY <4>1, Zenon
      <3> QED
        BY <3>1, <3>2
    <2>3. PICK n \in 0 .. ConnQueueMax : n = IF Refuses THEN 0 ELSE 1 + replayed
      BY <1>5, HubAssumption
    <2>4. new = [user |-> i.user, session |-> i.session, target |-> i.target,
                 registered |-> b, alive |-> b, queue |-> n, late |-> l]
      BY <1>4, <2>1, <2>2, <2>3
    <2>5. /\ new \in Stream /\ new.user = i.user /\ new.target = i.target
          /\ new.session = i.session
          /\ new.registered = b /\ new.alive = b /\ new.late = l
      BY <1>6, <2>4 DEF Stream
    <2> QED
      BY <2>1, <2>2, <2>5
  <1> HIDE DEF fresh
  <1>8. /\ S \in Seq(Stream) /\ Len(S) = Len(streams) /\ DOMAIN S = DOMAIN streams
        /\ \A c \in DOMAIN streams :
             /\ S[c].user = streams[c].user /\ S[c].target = streams[c].target
             /\ S[c].alive = streams[c].alive
             /\ S[c].registered <=> streams[c].registered /\ c \notin Superseded(i)
             /\ S[c].registered => /\ S[c].session = streams[c].session
                                   /\ S[c].late = streams[c].late
    BY <1>1, <1>2, ReplacedFacts
  <1>9. owner \in SUBSET User
    BY <1>6
  <1>10. PICK sent : sent = [c \in DOMAIN S |-> One(owner)[S[c].user]]
    OBVIOUS
  <1>11. PICK changed : changed = {u \in User : One(owner)[u] > 0}
    OBVIOUS
  <1>12. R = Section(S, {}, sent, changed, {})
    BY <1>3, <1>10, <1>11 DEF CloseAll
  <1>13. \A c \in DOMAIN S : S[c].user \in User
    BY <1>8, StreamsFacts, StreamFacts
  <1>14. /\ sent \in [DOMAIN S -> Nat]
         /\ changed \in SUBSET owner /\ changed \in SUBSET User
         /\ \A c \in DOMAIN S : S[c].user \notin owner => sent[c] = 0
    BY <1>10, <1>11, <1>13, OneTyped DEF One
  <1> HIDE DEF owner
  <1>15. {} \in SUBSET Registered(S) /\ \A c \in {} : ~S[c].alive
    OBVIOUS
  <1>16. PICK T : T = R.streams
    OBVIOUS
  <1>17. /\ T \in Seq(Stream) /\ Fades(S, T)
         /\ Registered(T) = Left(S, {}, sent)
    <2>1. T \in Seq(Stream)
      BY <1>8, <1>12, <1>14, <1>15, <1>16, SectionTyped, Zenon
    <2>2. Fades(S, T)
      BY <1>8, <1>12, <1>14, <1>15, <1>16, SectionFades
    <2>3. Registered(T) = Left(S, {}, sent)
      BY <1>8, <1>12, <1>14, <1>15, <1>16, SectionLeaves
    <2> QED
      BY <2>1, <2>2, <2>3
  <1>18. /\ Len(streams) \in Nat /\ DOMAIN streams = 1 .. Len(streams)
         /\ Len(T) = Len(streams) /\ DOMAIN T = DOMAIN streams
    BY <1>1, <1>8, <1>17, StreamsFacts DEF StreamInv, Fades
  <1> DEFINE last == Len(streams) + 1
  <1>19. /\ streams' \in Seq(Stream) /\ Len(streams') = last
         /\ DOMAIN streams' = 1 .. last /\ streams'[last] = new
         /\ \A c \in DOMAIN streams : c \in 1 .. last /\ c < last /\ streams'[c] = T[c]
    <2>1. streams' = Append(T, new)
      BY <1>5, <1>16
    <2> QED
      BY <1>7, <1>17, <1>18, <2>1
  <1>20. \A c \in 1 .. last : c = last \/ c \in DOMAIN streams
    BY <1>18
  <1>21. \A c \in DOMAIN streams : Fade(S[c], streams'[c])
    BY <1>8, <1>17, <1>19 DEF Fades
  <1>22. last \in Nat
    BY <1>18
  <1> HIDE DEF last
  <1>23. NewestIsRegistered'
    <2> SUFFICES ASSUME NEW c \in 1 .. last, streams'[c].target # None
                 PROVE  LET same == {d \in 1 .. last :
                                       /\ streams'[d].user = streams'[c].user
                                       /\ streams'[d].target = streams'[c].target}
                        IN IF \A d \in same : d <= c
                             THEN streams'[c].alive => streams'[c].registered
                             ELSE ~streams'[c].registered
      BY <1>19 DEF NewestIsRegistered
    <2>1. CASE c = last
      BY <1>7, <1>19, <1>22, <2>1
    <2>2. CASE /\ c \in DOMAIN streams
               /\ streams[c].user = i.user /\ streams[c].target = i.target
      <3>1. /\ streams'[c].user = i.user /\ streams'[c].target = i.target
            /\ i.target # None
        BY <1>8, <1>21, <2>2 DEF Fade
      <3>2. ~S[c].registered
        BY <1>8, <2>2, <3>1 DEF Superseded, OfUser, Registered
      <3>3. ~streams'[c].registered
        BY <1>21, <2>2, <3>2 DEF Fade
      <3>4. /\ last \in 1 .. last /\ ~(last <= c)
            /\ streams'[last].user = i.user /\ streams'[last].target = i.target
        BY <1>7, <1>18, <1>19, <1>22, <2>2
      <3> QED
        BY <3>1, <3>3, <3>4
    <2>3. CASE /\ c \in DOMAIN streams
               /\ ~(streams[c].user = i.user /\ streams[c].target = i.target)
      <3> DEFINE same == {d \in DOMAIN streams : /\ streams[d].user = streams[c].user
                                                 /\ streams[d].target = streams[c].target}
      <3>1. \A d \in DOMAIN streams : /\ streams'[d].user = streams[d].user
                                      /\ streams'[d].target = streams[d].target
        BY <1>8, <1>21 DEF Fade
      <3>2. same = {d \in 1 .. last : /\ streams'[d].user = streams'[c].user
                                      /\ streams'[d].target = streams'[c].target}
        BY <1>7, <1>19, <1>20, <2>3, <3>1
      <3>3. streams[c].target # None
        BY <2>3, <3>1
      <3>4. IF \A d \in same : d <= c
              THEN streams[c].alive => streams[c].registered
              ELSE ~streams[c].registered
        BY <1>1, <2>3, <3>3 DEF StreamInv, NewestIsRegistered
      <3>5. c \notin Superseded(i)
        BY <2>3 DEF Superseded, OfUser
      <3>6. Fade(S[c], streams'[c]) /\ S[c].alive = streams[c].alive
            /\ (S[c].registered <=> streams[c].registered)
        BY <1>8, <1>21, <2>3, <3>5
      <3> HIDE DEF same
      <3>7. IF \A d \in same : d <= c
              THEN streams'[c].alive => streams'[c].registered
              ELSE ~streams'[c].registered
        BY <3>4, <3>6 DEF Fade
      <3> QED
        BY <3>2, <3>7
    <2> QED
      BY <1>20, <2>1, <2>2, <2>3
  <1>24. \A c \in Registered(streams') :
            \/ c = last /\ new.registered
            \/ /\ c \in Registered(streams)
               /\ streams'[c].session = streams[c].session
               /\ streams'[c].late = streams[c].late
    BY <1>8, <1>19, <1>20, <1>21 DEF Registered, Fade
  <1>25. RevokedIsClosed'
    <2> SUFFICES ASSUME NEW c \in Registered(streams'),
                        streams'[c].session \in ended'.dropped
                 PROVE  streams'[c].late
      BY DEF RevokedIsClosed
    <2>1. ended' = ended
      BY <1>5
    <2>2. CASE c = last
      BY <1>7, <1>19, <2>1, <2>2
    <2>3. CASE /\ c \in Registered(streams)
               /\ streams'[c].session = streams[c].session
               /\ streams'[c].late = streams[c].late
      BY <1>1, <2>1, <2>3 DEF StreamInv, RevokedIsClosed
    <2> QED
      BY <1>24, <2>2, <2>3
  <1>26. ShutdownIsFinal'
    BY <1>1, <1>5, <1>7, <1>24 DEF ShutdownIsFinal, StreamInv, Refuses
  <1>27. StreamInv'
    BY <1>19, <1>23, <1>25, <1>26 DEF StreamInv
  <1>28. Stale(S, {}, sent, changed) \subseteq fans'
    <2>1. Stale(S, {}, sent, changed) \subseteq owner
      BY <1>8, <1>14, <1>15, StaleStaysAmong
    <2> QED
      BY <1>5, <2>1
  <1>29. Registered(S) \ Closing(S, {}, sent) \subseteq Registered(streams')
    <2>1. Registered(S) \ Closing(S, {}, sent) = Registered(T)
      BY <1>17 DEF Left
    <2>2. Registered(T) \subseteq Registered(streams')
      BY <1>18, <1>19 DEF Registered
    <2> QED
      BY <2>1, <2>2
  <1>30. /\ DOMAIN S \subseteq DOMAIN streams'
         /\ \A c \in DOMAIN S : streams'[c].user = S[c].user
    BY <1>8, <1>19, <1>21 DEF Fade
  <1>31. \A p \in behind :
            /\ p[1] \notin {}
            /\ p[2] \in emits \/ (p[2] \in fans /\ streams[p[1]].user # p[2])
            => p[2] \in emits' \/ (p[2] \in fans' /\ streams[p[1]].user # p[2])
    BY <1>5
  <1>32. /\ behind' \subseteq (DOMAIN streams') \X User
         /\ BehindSound' /\ EveryChangeIsTold'
    <2>1. S \in Seq(Stream) /\ DOMAIN S = DOMAIN streams
      BY <1>8
    <2>2. \A c \in DOMAIN S : S[c].user = streams[c].user
      BY <1>8
    <2>3. behind' = R.behind
      BY <1>5
    <2> QED
      BY <1>1, <1>12, <1>14, <1>15, <1>28, <1>29, <1>30, <1>31, <2>1, <2>2, <2>3, BehindKept
  <1>33. evicted' \subseteq User
    BY <1>1, <1>5, <1>8, <1>12, EvictedTyped DEF ListInv
  <1>34. ListInv'
    BY <1>1, <1>5, <1>9, <1>32, <1>33 DEF ListInv
  <1>35. /\ IsFiniteSet(opening') /\ Len(streams') + Cardinality(opening') <= MaxStreams
    <2>1. IsFiniteSet(opening) /\ Len(streams) + Cardinality(opening) <= MaxStreams
      BY <1>1 DEF RestInv, Counted
    <2>2. /\ IsFiniteSet(opening \ {i})
          /\ Cardinality(opening \ {i}) = Cardinality(opening) - 1
      BY <1>5, <2>1, FS_RemoveElement
    <2>3. Cardinality(opening) \in Nat /\ MaxStreams \in Nat
      BY <2>1, FS_CardinalityType, HubAssumption
    <2> QED
      BY <1>5, <1>18, <1>19, <2>1, <2>2, <2>3 DEF last
  <1>36. RestInv'
    BY <1>1, <1>5, <1>35 DEF RestInv, Counted, UnheardIsClosed
  <1> QED
    BY <1>27, <1>34, <1>36 DEF IInv


-----------------------------------------------------------------------------
(* The theorems.                                                            *)

LEMMA NextKeeps == IInv /\ [Next]_vars => IInv'
  <1> SUFFICES ASSUME IInv, [Next]_vars PROVE IInv'
    OBVIOUS
  <1>1. ASSUME NEW i \in Asked, Authenticates(i) PROVE IInv'
    BY <1>1, AuthenticatesKeeps
  <1>2. ASSUME NEW i \in Asked, NEW replayed \in 0 .. 1, Connects(i, replayed)
        PROVE  IInv'
    BY <1>2, ConnectsKeeps
  <1>3. ASSUME NEW c \in DOMAIN streams, TearsDown(c) PROVE IInv'
    BY <1>3, TearsDownKeeps
  <1>4. ASSUME NEW c \in DOMAIN streams, Reads(c) PROVE IInv'
    BY <1>4, ReadsKeeps
  <1>5. ASSUME NEW U, Emits(U) PROVE IInv'
    BY <1>5, EmitsKeeps
  <1>6. ASSUME NEW u \in User, Announces(u) PROVE IInv'
    BY <1>6, AnnouncesKeeps
  <1>7. ASSUME NEW u \in User, FansOut(u) PROVE IInv'
    BY <1>7, FansOutKeeps
  <1>21. ASSUME NEW u \in User, FansOutFails(u) PROVE IInv'
    BY <1>21, FansOutFailsKeeps
  <1>8. ASSUME NEW u \in User, DropsUser(u) PROVE IInv'
    BY <1>8, DropsUserKeeps
  <1>9. ASSUME NEW u \in User, NEW t \in Target, DropsTarget(u, t) PROVE IInv'
    BY <1>9, DropsTargetKeeps
  <1>10. ASSUME NEW u \in User, NEW t \in Target, Resolves(u, t) PROVE IInv'
    BY <1>10, ResolvesKeeps
  <1>11. ASSUME NEW d \in Device, Registers(d) PROVE IInv'
    BY <1>11, RegistersKeeps
  <1>12. ASSUME NEW d \in Device, StopsPolling(d) PROVE IInv'
    BY <1>12, StopsPollingKeeps
  <1>13. ASSUME NEW d \in Device, Polls(d) PROVE IInv'
    BY <1>13, PollsKeeps
  <1>14. ASSUME NEW s \in Session, Revokes(s) PROVE IInv'
    BY <1>14, RevokesKeeps
  <1>15. ASSUME NEW s \in Session, DropsSession(s) PROVE IInv'
    BY <1>15, DropsSessionKeeps
  <1>16. ASSUME NEW k \in commands, Commands(k) PROVE IInv'
    BY <1>16, CommandsKeeps
  <1>17. CASE Lists
    BY <1>17, ListsKeeps
  <1>18. CASE ShutsDown
    BY <1>18, ShutsDownKeeps
  <1>19. CASE Drains
    BY <1>19, DrainsKeeps
  <1>20. CASE UNCHANGED vars
    <2>1. UNCHANGED <<streams, polled, evicted, down, opening, ended, emits, fans,
                      commands, behind, unheard>>
      BY <1>20 DEF vars, registry
    <2> QED
      BY <2>1, StreamInvSame, ListInvSame DEF IInv, RestInv, Counted, UnheardIsClosed
  <1> QED
    BY <1>1, <1>2, <1>3, <1>4, <1>5, <1>6, <1>7, <1>8, <1>9, <1>10, <1>11, <1>12,
       <1>13, <1>14, <1>15, <1>16, <1>17, <1>18, <1>19, <1>20, <1>21 DEF Next

LEMMA IInvHolds == Spec => []IInv
  <1>1. Init => IInv
    BY InitHolds
  <1>2. IInv /\ [Next]_vars => IInv'
    BY NextKeeps
  <1> QED
    BY <1>1, <1>2, PTL DEF Spec

(* Every variable holds what its declaration says: in particular no         *)
(* announcement, however long the chain of closes it sets off, leaves a     *)
(* queue over CONN_QUEUE_MAX (`Stream`), and no command a polled one over   *)
(* POLLED_QUEUE_MAX (`Polled`).                                             *)
THEOREM TypeCorrect == Spec => []TypeOK
  <1>1. IInv => TypeOK
    <2> SUFFICES ASSUME IInv PROVE TypeOK
      OBVIOUS
    <2>1. Len(streams) <= MaxStreams
      <3>1. /\ Len(streams) \in Nat /\ Cardinality(opening) \in Nat /\ MaxStreams \in Nat
            /\ Len(streams) + Cardinality(opening) <= MaxStreams
        BY StreamsFacts, FS_CardinalityType, HubAssumption
           DEF IInv, StreamInv, RestInv, Counted
      <3> QED
        BY <3>1
    <2>2. evicted \cup emits \cup fans \subseteq User
      BY DEF IInv, ListInv
    <2>3. unheard \subseteq DOMAIN streams
      BY DEF IInv, RestInv, UnheardIsClosed
    <2> QED
      BY <2>1, <2>2, <2>3 DEF TypeOK, IInv, StreamInv, ListInv, RestInv
  <1> QED
    BY <1>1, IInvHolds, PTL

(* Whatever makes or ends a target, and whatever the announcement of that   *)
(* closes in its turn, every stream that shows the list is told or will be  *)
(* by an announcement under way.  A fan-out the database fails gives up the *)
(* household's streams until the next change, and none of the owner's.      *)
THEOREM NobodyStaysBehind == Spec => []EveryChangeIsTold
  <1>1. IInv => EveryChangeIsTold
    BY DEF IInv, ListInv
  <1> QED
    BY <1>1, IInvHolds, PTL

(* Of the streams of one device only the last is registered, and it is for  *)
(* as long as it is read: the teardown of one it replaced does not touch it.*)
THEOREM TheNewestStays == Spec => []NewestIsRegistered
  <1>1. IInv => NewestIsRegistered
    BY DEF IInv, StreamInv
  <1> QED
    BY <1>1, IInvHolds, PTL

(* Once the streams of a revoked session are dropped, those of it that are  *)
(* registered are of requests authenticated before.                         *)
THEOREM RevokedStaysClosed == Spec => []RevokedIsClosed
  <1>1. IInv => RevokedIsClosed
    BY DEF IInv, StreamInv
  <1> QED
    BY <1>1, IInvHolds, PTL

(* A shutdown leaves no stream open, and none is opened after it by the     *)
(* requests that it overlaps.                                               *)
THEOREM ShutdownIsComplete == Spec => []ShutdownIsFinal
  <1>1. IInv => ShutdownIsFinal
    BY DEF IInv, StreamInv
  <1> QED
    BY <1>1, IInvHolds, PTL

(* A command accepted for a stream is in its queue, or the stream is closed *)
(* so that the device comes back.                                           *)
THEOREM CommandsAreHeard == Spec => []UnheardIsClosed
  <1>1. IInv => UnheardIsClosed
    BY DEF IInv, RestInv
  <1> QED
    BY <1>1, IInvHolds, PTL


===============================================================================
