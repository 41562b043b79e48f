--------------------------- MODULE RunActorProofs ---------------------------
(***************************************************************************)
(* Proofs about the run projection and the run workflow, for any set of    *)
(* deliveries, children and event types and any threshold.                 *)
(***************************************************************************)
EXTENDS RunActor, InductionLemmas

(* The lifecycle decides the two flags the dispatcher and the recovery     *)
(* gate read (_STATIC_EVENT_TRANSITIONS never sets one without the other). *)
FlagsMatch(p) ==
  /\ p.waiting <=> p.lifecycle = "waiting_external"
  /\ p.ready <=> p.lifecycle \in {"ready", "dispatching"}

(* What one event does to a well formed projection: the result is well     *)
(* formed.                                                                 *)
LEMMA ApplyType ==
  ASSUME NEW p \in Projection, NEW e \in Event, NEW n \in Nat
  PROVE  Apply(p, e, n) \in Projection
<1>1. TargetOf(e.type) \in Lifecycles \cup {"unchanged"}
  BY DEF TargetOf, Lifecycles
<1>2. ModeOf(TargetOf(e.type)) \in Modes
  BY DEF ModeOf, Modes
<1>3. ReasonAfter(p, e) \in Reasons
  BY DEF ReasonAfter, Reasons, Projection, Event
<1>4. ChildrenAfter(p, e) \in SUBSET Children
  BY DEF ChildrenAfter, Projection, Event
<1>5. CASE Blocked(p, e.type) \/ TargetOf(e.type) = "unchanged"
  BY <1>4, <1>5, Zenon DEF Apply, Projection
<1>6. CASE ~(Blocked(p, e.type) \/ TargetOf(e.type) = "unchanged")
  BY <1>1, <1>2, <1>3, <1>4, <1>6 DEF Apply, Projection
<1> QED
  BY <1>5, <1>6

(* No event moves a completed or aborted run                               *)
(* (_resolve_projection_transition): a cancel request finds an aborted run *)
(* aborted.                                                                *)
THEOREM TerminalStays ==
  ASSUME NEW p \in Projection, NEW e \in Event, NEW n \in Nat,
         p.lifecycle \in Terminal
  PROVE  Apply(p, e, n).lifecycle = p.lifecycle
<1>1. CASE p.lifecycle = "completed"
  BY <1>1 DEF Apply, Blocked, Projection
<1>2. CASE p.lifecycle = "aborted" /\ e.type # "run.cancel_requested"
  BY <1>2 DEF Apply, Blocked, Projection
<1>3. CASE p.lifecycle = "aborted" /\ e.type = "run.cancel_requested"
  <2>1. TargetOf(e.type) = "aborted"
    BY <1>3 DEF TargetOf, SignalTypesOfNoChild, CallbackTypes
  <2>2. CASE Blocked(p, e.type)
    BY <2>2 DEF Apply, Projection
  <2>3. CASE ~Blocked(p, e.type)
    BY <1>3, <2>1, <2>3 DEF Apply
  <2> QED
    BY <2>2, <2>3
<1> QED
  BY <1>1, <1>2, <1>3 DEF Terminal

(* Every event keeps the flags in line with the lifecycle.                 *)
THEOREM FlagsStayMatched ==
  ASSUME NEW p \in Projection, NEW e \in Event, NEW n \in Nat, FlagsMatch(p)
  PROVE  FlagsMatch(Apply(p, e, n))
  BY Zenon DEF FlagsMatch, Apply, Projection

(* The operational precedence: a run waiting for a timeout or an           *)
(* escalation is not resumed by a plain external callback.                 *)
THEOREM CallbackLosesToTimeout ==
  ASSUME NEW p \in Projection, NEW e \in Event, NEW n \in Nat,
         p.lifecycle = "waiting_external", e.type \in CallbackTypes
  PROVE  Apply(p, e, n).lifecycle = "waiting_external"
<1>1. EventRank(e.type) = 1 /\ ProjectionRank(p) = 2
  BY DEF EventRank, ProjectionRank, CallbackTypes
<1>2. Blocked(p, e.type)
  BY <1>1 DEF Blocked, LowerPriority
<1> QED
  BY <1>2 DEF Apply, Projection
-----------------------------------------------------------------------------
(***************************************************************************)
(* Replay.  Reached is a recursive function; what it computes is proved    *)
(* by induction over the offsets of the log.                               *)
(***************************************************************************)

(* An applied event leaves its own offset in the projection.               *)
LEMMA ApplyOffset ==
  ASSUME NEW p \in Projection, NEW e \in Event, NEW n \in Nat
  PROVE  Apply(p, e, n).offset = n
  BY DEF Apply, Projection

(* The replay of the unseen events exists, consists of projections, and    *)
(* each is the one before it with one event applied, or unchanged by a     *)
(* diagnostic event (catch_up's loop).                                     *)
LEMMA ReachedStep ==
  ASSUME NEW p \in Projection, NEW l \in Seq(Event)
  PROVE  /\ Reached(p, l) \in [0..Len(l) -> Projection]
         /\ \A n \in 0..Len(l) :
              Reached(p, l)[n] =
                IF n <= p.offset THEN p
                ELSE IF l[n].diagnostic THEN Reached(p, l)[n - 1]
                ELSE Apply(Reached(p, l)[n - 1], l[n], n)
<1> DEFINE N == Len(l)
           R == Reached(p, l)
           After(q, n) == IF n <= p.offset THEN p
                          ELSE IF l[n].diagnostic THEN q ELSE Apply(q, l[n], n)
           step == [x \in Projection \X (1..N) |-> After(x[1], x[2])]
<1>1. N \in Nat /\ \A n \in 1..N : l[n] \in Event
  OBVIOUS
<1>2. \A q \in Projection, n \in 1..N : After(q, n) \in Projection
  BY <1>1, ApplyType
<1>3. step \in [Projection \X (1..N) -> Projection]
  BY <1>2
<1>4. PICK g \in [0..N -> Projection] :
        g[0] = p /\ \A n \in 1..N : g[n] = step[<<g[n - 1], n>>]
  <2>1. N \in Nat
    BY <1>1
  <2>2. step \in StepsOf(Projection, N)
    BY <1>3 DEF StepsOf
  <2> HIDE DEF step, N
  <2>3. \E g : Follows(g, Projection, p, N, step)
    BY <2>1, <2>2, BoundedRecursion
  <2> QED
    BY <2>3, Zenon DEF Follows
<1>5. \A n \in 1..N : g[n] = After(g[n - 1], n)
  <2> SUFFICES ASSUME NEW n \in 1..N PROVE g[n] = After(g[n - 1], n)
    OBVIOUS
  <2>1. n - 1 \in 0..N
    BY <1>1
  <2>2. g[n - 1] \in Projection
    BY <2>1
  <2> QED
    BY <1>4, <2>2, Zenon
<1>6. g = [n \in 0..N |-> After(g[n - 1], n)]
  <2>1. 0 <= p.offset
    BY DEF Projection
  <2>2. \A n \in 0..N : g[n] = After(g[n - 1], n)
    BY <1>1, <1>4, <1>5, <2>1
  <2> QED
    BY <2>2
<1>7. R = [n \in 0..N |-> After(R[n - 1], n)]
  <2>1. R = CHOOSE f : f = [n \in 0..N |-> After(f[n - 1], n)]
    BY DEF Reached
  <2> HIDE DEF R, After, N
  <2> QED
    BY <1>6, <2>1, Zenon
<1>8. \A n \in 0..N : R[n] = After(R[n - 1], n)
  <2> HIDE DEF R, After, N
  <2> QED
    BY <1>7
<1>9. \A n \in 0..N : R[n] \in Projection
  <2> DEFINE S == {n \in 0..N : R[n] \in Projection}
  <2>1. 0 \in S
    <3>1. 0 <= p.offset /\ 0 \in 0..N
      BY <1>1 DEF Projection
    <3> HIDE DEF R, N
    <3> QED
      BY <1>8, <3>1
  <2>2. ASSUME NEW n \in 0..(N - 1), n \in S PROVE n + 1 \in S
    <3>1. n + 1 \in 1..N /\ n + 1 \in 0..N /\ (n + 1) - 1 = n
      BY <1>1
    <3> HIDE DEF R, N, After
    <3>2. R[n + 1] = After(R[n], n + 1)
      BY <1>8, <3>1
    <3> QED
      BY <1>2, <2>2, <3>1, <3>2
  <2>3. 0..N \subseteq S
    <3> HIDE DEF S, N
    <3> QED
      BY <1>1, <2>1, <2>2, BoundedInduction, Zenon
  <2> QED
    BY <2>3
<1>10. R \in [0..N -> Projection]
  <2> HIDE DEF R, After, N
  <2> QED
    BY <1>7, <1>9
<1> QED
  BY <1>8, <1>10

(* The replay of a longer log agrees with that of the log on its events.   *)
LEMMA ReachedPrefix ==
  ASSUME NEW p \in Projection, NEW l \in Seq(Event), NEW s \in Seq(Event)
  PROVE  \A n \in 0..Len(l) : Reached(p, l \o s)[n] = Reached(p, l)[n]
<1> DEFINE N == Len(l)
           R == Reached(p, l)
           Q == Reached(p, l \o s)
           S == {n \in 0..N : Q[n] = R[n]}
<1>1. l \o s \in Seq(Event) /\ N \in Nat /\ Len(l \o s) = N + Len(s)
  OBVIOUS
<1>2. \A n \in 1..N : (l \o s)[n] = l[n]
  OBVIOUS
<1>3. /\ \A n \in 0..N : R[n] = IF n <= p.offset THEN p
                                ELSE IF l[n].diagnostic THEN R[n - 1]
                                ELSE Apply(R[n - 1], l[n], n)
      /\ \A n \in 0..N : Q[n] = IF n <= p.offset THEN p
                                ELSE IF (l \o s)[n].diagnostic THEN Q[n - 1]
                                ELSE Apply(Q[n - 1], (l \o s)[n], n)
  <2>1. 0..N \subseteq 0..Len(l \o s)
    BY <1>1
  <2> QED
    BY <1>1, <2>1, ReachedStep, Zenon
<1>4. p.offset \in Nat
  BY DEF Projection
<1> HIDE DEF R, Q, N
<1>5. 0 \in S
  BY <1>1, <1>3, <1>4
<1>6. ASSUME NEW n \in 0..(N - 1), n \in S PROVE n + 1 \in S
  <2>1. n + 1 \in 1..N /\ n + 1 \in 0..N /\ (n + 1) - 1 = n
    BY <1>1
  <2> QED
    BY <1>2, <1>3, <1>6, <2>1, Zenon
<1>7. 0..N \subseteq S
  <2> HIDE DEF S
  <2> QED
    BY <1>1, <1>5, <1>6, BoundedInduction, Zenon
<1> QED
  BY <1>7 DEF R, Q, N

(* The replay of a log from the beginning, and the projections that are    *)
(* its values.                                                             *)
Replayed(l) == Reached(DefaultProjection, l)

IsReplay(p, l) ==
  /\ p \in Projection
  /\ p.offset \in 0..Len(l)
  /\ p = Replayed(l)[p.offset]

(* The replay step by step: it begins with the default projection.         *)
LEMMA ReplayedStep ==
  ASSUME NEW l \in Seq(Event)
  PROVE  /\ Replayed(l) \in [0..Len(l) -> Projection]
         /\ Replayed(l)[0] = DefaultProjection
         /\ \A n \in 0..(Len(l) - 1) :
              Replayed(l)[n + 1] =
                IF l[n + 1].diagnostic THEN Replayed(l)[n]
                ELSE Apply(Replayed(l)[n], l[n + 1], n + 1)
<1>1. DefaultProjection \in Projection /\ DefaultProjection.offset = 0
  BY DEF DefaultProjection, Projection, Lifecycles, Modes, Reasons
<1>2. Len(l) \in Nat
  OBVIOUS
<1>3. \A n \in 0..(Len(l) - 1) :
        n + 1 \in 0..Len(l) /\ (n + 1) - 1 = n /\ ~(n + 1 <= 0)
  BY <1>2
<1> QED
  BY <1>1, <1>2, <1>3, ReachedStep DEF Replayed

(* Every value of the replay is the one at its own offset: the events      *)
(* between that offset and the one it was reached at are diagnostic.       *)
LEMMA ReplayedIsReplay ==
  ASSUME NEW l \in Seq(Event), NEW k \in 0..Len(l)
  PROVE  IsReplay(Replayed(l)[k], l)
<1> DEFINE N == Len(l)
           R == Replayed(l)
           S == {n \in 0..N : R[n].offset \in 0..n /\ R[R[n].offset] = R[n]}
<1>1. /\ R \in [0..N -> Projection]
      /\ R[0] = DefaultProjection
      /\ \A n \in 0..(N - 1) : R[n + 1] = IF l[n + 1].diagnostic THEN R[n]
                                          ELSE Apply(R[n], l[n + 1], n + 1)
  BY ReplayedStep
<1>2. N \in Nat /\ \A n \in 0..(N - 1) : n + 1 \in 0..N /\ n \in 0..N /\ l[n + 1] \in Event
  OBVIOUS
<1> HIDE DEF R, N
<1>3. 0 \in S
  BY <1>1, <1>2 DEF DefaultProjection
<1>4. ASSUME NEW n \in 0..(N - 1), n \in S PROVE n + 1 \in S
  <2>1. CASE l[n + 1].diagnostic
    <3>1. R[n + 1] = R[n]
      BY <1>1, <2>1
    <3> QED
      BY <1>2, <1>4, <3>1
  <2>2. CASE ~l[n + 1].diagnostic
    <3>1. R[n] \in Projection /\ n + 1 \in Nat /\ l[n + 1] \in Event
      BY <1>1, <1>2
    <3>2. R[n + 1] = Apply(R[n], l[n + 1], n + 1)
      BY <1>1, <2>2
    <3>3. R[n + 1].offset = n + 1
      BY <3>1, <3>2, ApplyOffset
    <3> QED
      BY <1>2, <3>3
  <2> QED
    BY <2>1, <2>2
<1>5. 0..N \subseteq S
  <2> HIDE DEF S
  <2> QED
    BY <1>2, <1>3, <1>4, BoundedInduction, Zenon
<1>6. k \in S /\ k \in 0..N
  <2> HIDE DEF S
  <2> QED
    BY <1>5 DEF N
<1>7. R[k] \in Projection /\ R[k].offset \in 0..k /\ R[R[k].offset] = R[k]
  BY <1>1, <1>6
<1> QED
  BY <1>2, <1>6, <1>7 DEF IsReplay, R, N

(* catch_up on a cached replay gives a replay, whichever offset it is      *)
(* asked for, behind the cache or beyond the log.                          *)
LEMMA CatchUpIsReplay ==
  ASSUME NEW l \in Seq(Event), NEW p, IsReplay(p, l), NEW k \in Nat
  PROVE  IsReplay(CatchUp(p, l, k), l)
<1> DEFINE N == Len(l)
           R == Replayed(l)
           Q == Reached(p, l)
           S == {n \in 0..N : Q[n] = IF n <= p.offset THEN p ELSE R[n]}
           b == IF k < N THEN k ELSE N
<1>1. p \in Projection /\ p.offset \in 0..N /\ p = R[p.offset]
  BY DEF IsReplay
<1>2. \A n \in 0..(N - 1) : R[n + 1] = IF l[n + 1].diagnostic THEN R[n]
                                       ELSE Apply(R[n], l[n + 1], n + 1)
  BY ReplayedStep
<1>3. \A n \in 0..N : Q[n] = IF n <= p.offset THEN p
                             ELSE IF l[n].diagnostic THEN Q[n - 1]
                             ELSE Apply(Q[n - 1], l[n], n)
  BY <1>1, ReachedStep
<1>4. N \in Nat /\ b \in 0..N
  OBVIOUS
<1>5. CatchUp(p, l, k) = Q[b]
  BY DEF CatchUp
<1>6. \A n \in 0..N : IsReplay(R[n], l)
  BY ReplayedIsReplay
<1> HIDE DEF R, Q, N, b
<1>7. 0 \in S
  BY <1>1, <1>3, <1>4
<1>8. ASSUME NEW n \in 0..(N - 1), n \in S PROVE n + 1 \in S
  <2>1. n + 1 \in 0..N /\ (n + 1) - 1 = n
    BY <1>4
  <2>2. CASE n + 1 <= p.offset
    BY <1>3, <2>1, <2>2
  <2>3. CASE ~(n + 1 <= p.offset)
    <3>1. Q[n] = R[n]
      <4>1. CASE n = p.offset
        BY <1>1, <1>8, <4>1
      <4>2. CASE ~(n <= p.offset)
        BY <1>8, <4>2
      <4> QED
        BY <1>1, <2>3, <4>1, <4>2
    <3> QED
      BY <1>2, <1>3, <2>1, <2>3, <3>1
  <2> QED
    BY <2>2, <2>3
<1>9. 0..N \subseteq S
  <2> HIDE DEF S
  <2> QED
    BY <1>4, <1>7, <1>8, BoundedInduction
<1>10. b \in S
  <2> HIDE DEF S
  <2> QED
    BY <1>4, <1>9
<1>11. Q[b] = p \/ Q[b] = R[b]
  BY <1>10
<1> QED
  BY <1>4, <1>5, <1>6, <1>11

(* Events appended later do not change what a cached replay is.            *)
LEMMA IsReplayGrows ==
  ASSUME NEW l \in Seq(Event), NEW s \in Seq(Event), NEW p, IsReplay(p, l)
  PROVE  IsReplay(p, l \o s)
<1>1. DefaultProjection \in Projection
  BY DEF DefaultProjection, Projection, Lifecycles, Modes, Reasons
<1>2. p.offset \in 0..Len(l) /\ p \in Projection /\ p = Replayed(l)[p.offset]
  BY DEF IsReplay
<1>3. Replayed(l \o s)[p.offset] = Replayed(l)[p.offset]
  BY <1>1, <1>2, ReachedPrefix DEF Replayed
<1>4. p.offset \in 0..Len(l \o s)
  BY <1>2
<1> QED
  BY <1>2, <1>3, <1>4 DEF IsReplay

(* Replay, as the properties use it, is a value of the replay.             *)
LEMMA ReplayIs ==
  ASSUME NEW l \in Seq(Event), NEW k \in 0..Len(l)
  PROVE  Replay(l, k) = Replayed(l)[k]
<1>1. (IF k < Len(l) THEN k ELSE Len(l)) = k
  OBVIOUS
<1> QED
  BY <1>1 DEF Replay, CatchUp, Replayed

(* A run that is over stays as it is through the rest of any log.          *)
LEMMA TerminalPersists ==
  ASSUME NEW l \in Seq(Event), NEW i \in 0..Len(l), NEW k \in i..Len(l),
         Replayed(l)[i].lifecycle \in Terminal
  PROVE  Replayed(l)[k].lifecycle = Replayed(l)[i].lifecycle
<1> DEFINE N == Len(l)
           R == Replayed(l)
           S == {n \in 0..N : i <= n => R[n].lifecycle = R[i].lifecycle}
<1>1. /\ R \in [0..N -> Projection]
      /\ \A n \in 0..(N - 1) : R[n + 1] = IF l[n + 1].diagnostic THEN R[n]
                                          ELSE Apply(R[n], l[n + 1], n + 1)
  BY ReplayedStep
<1>2. N \in Nat /\ \A n \in 0..(N - 1) : n + 1 \in 0..N /\ n \in 0..N /\ l[n + 1] \in Event
  OBVIOUS
<1>3. R[i].lifecycle \in Terminal /\ i \in 0..N /\ k \in i..N
  OBVIOUS
<1> HIDE DEF R, N
<1>4. 0 \in S
  BY <1>2, <1>3
<1>5. ASSUME NEW n \in 0..(N - 1), n \in S PROVE n + 1 \in S
  <2>1. CASE i <= n
    <3>1. R[n].lifecycle = R[i].lifecycle /\ R[n] \in Projection /\ n + 1 \in Nat
      BY <1>1, <1>2, <1>5, <2>1
    <3>2. R[n + 1].lifecycle = R[n].lifecycle
      <4>1. CASE l[n + 1].diagnostic
        BY <1>1, <4>1
      <4>2. CASE ~l[n + 1].diagnostic
        <5>1. R[n + 1] = Apply(R[n], l[n + 1], n + 1)
          BY <1>1, <4>2
        <5> QED
          BY <1>2, <1>3, <3>1, <5>1, TerminalStays
      <4> QED
        BY <4>1, <4>2
    <3> QED
      BY <1>2, <3>1, <3>2
  <2>2. CASE n + 1 = i
    BY <1>2, <2>2
  <2>3. CASE n + 1 < i
    BY <1>2, <1>3, <2>3
  <2> QED
    BY <1>3, <2>1, <2>2, <2>3
<1>6. 0..N \subseteq S
  <2> HIDE DEF S
  <2> QED
    BY <1>2, <1>4, <1>5, BoundedInduction, Zenon
<1>7. k \in S /\ i <= k
  <2>1. k \in 0..N /\ i <= k
    BY <1>2, <1>3
  <2> HIDE DEF S
  <2> QED
    BY <1>6, <2>1
<1> QED
  BY <1>7 DEF R, N

(* A log without run.completed completes no run.                           *)
LEMMA CompletedByEvent ==
  ASSUME NEW l \in Seq(Event), NEW k \in 0..Len(l),
         \A j \in 1..k : l[j].type # "run.completed"
  PROVE  Replayed(l)[k].lifecycle # "completed"
<1> DEFINE N == Len(l)
           R == Replayed(l)
           S == {n \in 0..k : R[n].lifecycle # "completed"}
<1>1. /\ R \in [0..N -> Projection]
      /\ R[0] = DefaultProjection
      /\ \A n \in 0..(N - 1) : R[n + 1] = IF l[n + 1].diagnostic THEN R[n]
                                          ELSE Apply(R[n], l[n + 1], n + 1)
  BY ReplayedStep
<1>2. N \in Nat /\ k \in Nat /\ k <= N
  OBVIOUS
<1>3. \A n \in 0..(k - 1) :
        /\ n \in 0..(N - 1) /\ n + 1 \in 0..k /\ n \in 0..N
        /\ l[n + 1] \in Event /\ l[n + 1].type # "run.completed"
  BY <1>2
<1>4. ASSUME NEW q \in Projection, NEW e \in Event, NEW n \in Nat,
             q.lifecycle # "completed", e.type # "run.completed"
      PROVE  Apply(q, e, n).lifecycle # "completed"
  BY <1>4 DEF Apply, TargetOf, Projection
<1> HIDE DEF R, N
<1>5. 0 \in S
  BY <1>1, <1>2 DEF DefaultProjection
<1>6. ASSUME NEW n \in 0..(k - 1), n \in S PROVE n + 1 \in S
  <2>1. R[n] \in Projection /\ n + 1 \in Nat /\ R[n].lifecycle # "completed"
    BY <1>1, <1>2, <1>3, <1>6
  <2>2. R[n + 1] = R[n] \/ R[n + 1] = Apply(R[n], l[n + 1], n + 1)
    BY <1>1, <1>3
  <2>3. R[n + 1].lifecycle # "completed"
    BY <1>3, <1>4, <2>1, <2>2, Zenon
  <2> QED
    BY <1>3, <2>3
<1>7. 0..k \subseteq S
  <2> HIDE DEF S
  <2> QED
    BY <1>2, <1>5, <1>6, BoundedInduction, Zenon
<1>8. k \in S
  <2>1. k \in 0..k
    BY <1>2
  <2> HIDE DEF S
  <2> QED
    BY <1>7, <2>1
<1> QED
  BY <1>8 DEF R

(* A cancel request aborts every run that is not completed; nothing has a  *)
(* higher precedence.                                                      *)
THEOREM CancelAborts ==
  ASSUME NEW p \in Projection, NEW e \in Event, NEW n \in Nat,
         p.lifecycle # "completed", e.type = "run.cancel_requested"
  PROVE  Apply(p, e, n).lifecycle = "aborted"
<1>1. TargetOf(e.type) = "aborted"
  BY DEF TargetOf, SignalTypesOfNoChild, CallbackTypes
<1>2. EventRank(e.type) = 4
  BY DEF EventRank, CallbackTypes
<1>3. ProjectionRank(p) \in {0, 2, 3, 4}
  BY DEF ProjectionRank
<1>4. ~(4 < ProjectionRank(p))
  BY <1>3
<1>5. ~Blocked(p, e.type)
  BY <1>2, <1>4 DEF Blocked, LowerPriority
<1> QED
  BY <1>1, <1>5 DEF Apply
-----------------------------------------------------------------------------
(***************************************************************************)
(* The log and the caches.  Every write appends well formed events, of     *)
(* which only the plan of a recovery is diagnostic, and every change of a  *)
(* cached projection is a catch_up of the service's own one.               *)
(***************************************************************************)
Histories ==
  {l \in Seq(Event) :
     \A i \in 1..Len(l) : l[i].diagnostic => l[i].type = "recovery.plan_selected"}

TurnOutcomes == {"dispatched", "recovery_pending", "blocked"}

LogInv ==
  /\ log \in Histories
  /\ offset \in [Deliveries -> Nat]
  /\ pc \in [Deliveries -> Steps \cup Ended \cup {"undelivered", "buffered"}]
  /\ outcome \in [Deliveries -> TurnOutcomes \cup {"none", "raised"}]
  /\ \A d \in Deliveries : pc[d] = "append_outcome" => outcome[d] \in TurnOutcomes

CacheInv == LogInv /\ IsReplay(proj, log) /\ IsReplay(last, log)

(* The invariant gives both properties.                                    *)
LEMMA CacheInvImplies == CacheInv => CachesReplayTheLog /\ TerminalIsFinal
<1> SUFFICES ASSUME CacheInv PROVE CachesReplayTheLog /\ TerminalIsFinal
  OBVIOUS
<1> DEFINE R == Replayed(log)
           N == Len(log)
<1>1. log \in Seq(Event) /\ N \in Nat
  BY DEF CacheInv, LogInv, Histories
<1>2. CachesReplayTheLog
  BY <1>1, ReplayIs DEF CacheInv, IsReplay, CachesReplayTheLog
<1>3. /\ R \in [0..N -> Projection]
      /\ \A n \in 0..(N - 1) : R[n + 1] = IF log[n + 1].diagnostic THEN R[n]
                                          ELSE Apply(R[n], log[n + 1], n + 1)
  BY <1>1, ReplayedStep
<1>4. \A n \in 0..N : Replay(log, n) = R[n]
  BY <1>1, ReplayIs
<1>5. Final = R[N]
  BY <1>1, <1>4 DEF Final
<1>6. ASSUME NEW i \in 0..N, R[i].lifecycle \in Terminal
      PROVE  Final.lifecycle = R[i].lifecycle
  <2>1. N \in i..N
    BY <1>1
  <2> QED
    BY <1>1, <1>5, <1>6, <2>1, TerminalPersists
<1>7. ASSUME NEW i \in 1..N, log[i].type = "run.cancel_requested",
             \A j \in 1..(i - 1) : log[j].type # "run.completed"
      PROVE  Final.lifecycle = "aborted"
  <2>1. /\ i - 1 \in 0..(N - 1) /\ i - 1 \in 0..N /\ (i - 1) + 1 = i
        /\ i \in 0..N /\ i \in Nat /\ log[i] \in Event
    BY <1>1
  <2>2. R[i - 1].lifecycle # "completed"
    BY <1>1, <1>7, <2>1, CompletedByEvent
  <2>3. ~log[i].diagnostic
    BY <1>7 DEF CacheInv, LogInv, Histories
  <2>4. R[i] = Apply(R[i - 1], log[i], i)
    BY <1>3, <2>1, <2>3
  <2>5. R[i - 1] \in Projection
    BY <1>3, <2>1, Zenon
  <2>6. R[i].lifecycle = "aborted"
    BY <1>7, <2>1, <2>2, <2>4, <2>5, CancelAborts
  <2> QED
    BY <1>6, <2>1, <2>6 DEF Terminal
<1>8. TerminalIsFinal
  <2>1. 1..N \subseteq 0..N
    OBVIOUS
  <2> QED
    BY <1>4, <1>6, <1>7, <2>1 DEF TerminalIsFinal
<1> QED
  BY <1>2, <1>8

(* What the handlers append is a history of well formed events.            *)
LEMMA WritesAreHistories ==
  ASSUME LogInv, NEW d \in Deliveries
  PROVE  /\ EventOf(d) \in Event /\ <<EventOf(d)>> \in Histories
         /\ outcome[d] \in TurnOutcomes => <<OutcomeEvent(d)>> \in Histories
         /\ RecoveryEvents(d) \in Histories
<1> USE DEF EventTypes, StaticTypes, ChildTypes, SignalTypesOfNoChild, CallbackTypes,
            OtherTypes
<1>1. ASSUME NEW type \in EventTypes, NEW reason \in Reasons,
             NEW child \in SUBSET Children, NEW by \in SUBSET Deliveries
      PROVE  /\ Entry(type, reason, child, FALSE, by) \in Event
             /\ <<Entry(type, reason, child, FALSE, by)>> \in Histories
  <2> DEFINE e == Entry(type, reason, child, FALSE, by)
  <2>1. e \in Event /\ ~e.diagnostic
    BY DEF Entry, Event
  <2> HIDE DEF e
  <2>2. <<e>> \in Seq(Event) /\ \A i \in 1..Len(<<e>>) : ~(<<e>>[i].diagnostic)
    BY <2>1
  <2>3. <<e>> \in Histories
    BY <2>2 DEF Histories
  <2> QED
    BY <2>1, <2>3, Zenon DEF e
<1>2. EventOf(d) \in Event /\ <<EventOf(d)>> \in Histories
  <2>1. /\ Input[d] \in DeliveryInput
        /\ Input[d].kind = "signal" => Input[d].type \in SignalTypes
        /\ Input[d].kind # "signal" => Input[d].type \in EventTypes
    BY DeliveryAssumption
  <2>2. Input[d].reason \in Reasons /\ Input[d].child \in SUBSET Children
    BY <2>1 DEF DeliveryInput
  <2>3. CASE Input[d].kind = "signal"
    <3>1. SignalEventType(Input[d].type) \in EventTypes
      BY <2>1, <2>3 DEF SignalEventType, SignalTypes
    <3>2. SignalReason(Input[d].type, Input[d].reason) \in Reasons
      BY <2>2 DEF SignalReason, Reasons
    <3> QED
      BY <1>1, <2>2, <2>3, <3>1, <3>2, Zenon DEF EventOf
  <2>4. CASE Input[d].kind # "signal"
    BY <1>1, <2>1, <2>2, <2>4, Zenon DEF EventOf
  <2> QED
    BY <2>3, <2>4
<1>3. "none" \in Reasons /\ "other" \in Reasons
  BY DEF Reasons
<1>4. ASSUME outcome[d] \in TurnOutcomes PROVE <<OutcomeEvent(d)>> \in Histories
  <2>1. TurnEventType(outcome[d]) \in EventTypes
    BY <1>4 DEF TurnEventType, TurnOutcomes
  <2> QED
    BY <1>1, <1>3, <2>1, Zenon DEF OutcomeEvent
<1>5. RecoveryEvents(d) \in Histories
  <2> DEFINE a == Entry("recovery.plan_selected", "other", {}, TRUE, {d})
             b == Entry(RecoveryEventType(mode[d]), "other", {}, FALSE, {d})
  <2>1. RecoveryEventType(mode[d]) \in EventTypes
    BY DEF RecoveryEventType
  <2>2. b \in Event /\ ~b.diagnostic
    BY <1>1, <1>3, <2>1, Zenon DEF Entry
  <2>3. a \in Event /\ a.type = "recovery.plan_selected"
    BY <1>3 DEF Entry, Event
  <2>4. RecoveryEvents(d) = <<a, b>>
    BY DEF RecoveryEvents
  <2> HIDE DEF a, b
  <2>5. /\ <<a, b>> \in Seq(Event)
        /\ \A i \in 1..Len(<<a, b>>) :
             <<a, b>>[i].diagnostic => <<a, b>>[i].type = "recovery.plan_selected"
    BY <2>2, <2>3
  <2> QED
    BY <2>4, <2>5 DEF Histories
<1> QED
  BY <1>2, <1>4, <1>5

(* A history after a history is a history.                                 *)
LEMMA HistoriesConcat ==
  ASSUME NEW l \in Histories, NEW s \in Histories
  PROVE  l \o s \in Histories
<1>1. /\ l \in Seq(Event) /\ s \in Seq(Event)
      /\ \A i \in 1..Len(l) : l[i].diagnostic => l[i].type = "recovery.plan_selected"
      /\ \A i \in 1..Len(s) : s[i].diagnostic => s[i].type = "recovery.plan_selected"
  BY DEF Histories
<1>2. l \o s \in Seq(Event) /\ Len(l \o s) = Len(l) + Len(s)
  BY <1>1
<1>3. ASSUME NEW i \in 1..Len(l \o s), (l \o s)[i].diagnostic
      PROVE  (l \o s)[i].type = "recovery.plan_selected"
  <2>1. CASE i <= Len(l)
    <3>1. i \in 1..Len(l) /\ (l \o s)[i] = l[i]
      BY <1>1, <1>2, <2>1
    <3> QED
      BY <1>1, <1>3, <3>1
  <2>2. CASE i > Len(l)
    <3>1. i - Len(l) \in 1..Len(s) /\ (l \o s)[i] = s[i - Len(l)]
      BY <1>1, <1>2, <2>2
    <3> QED
      BY <1>1, <1>3, <3>1
  <2>3. i <= Len(l) \/ i > Len(l)
    BY <1>1, <1>2
  <2> QED
    BY <2>1, <2>2, <2>3
<1> QED
  BY <1>2, <1>3, Zenon DEF Histories

(* The log only grows, by a history.                                       *)
Grows == log' = log \/ \E s \in Histories : log' = log \o s

(* Every step lets the log only grow.                                      *)
LEMMA LogGrows == LogInv /\ [Next]_vars => Grows
<1> SUFFICES ASSUME LogInv, [Next]_vars PROVE Grows
  OBVIOUS
<1>1. ASSUME UNCHANGED log PROVE Grows
  BY <1>1 DEF Grows
<1>2. ASSUME NEW s \in Histories, NEW ok, LogWrite(s, ok) PROVE Grows
  BY <1>2 DEF LogWrite, Grows
<1>3. CASE UNCHANGED vars
  BY <1>1, <1>3 DEF vars
<1>4. ASSUME NEW d \in Deliveries, AppendCommit(d) PROVE Grows
  BY <1>2, <1>4, WritesAreHistories, Zenon DEF AppendCommit
<1>5. ASSUME NEW d \in Deliveries, AppendOutcome(d) PROVE Grows
  <2>1. outcome[d] \in TurnOutcomes
    BY <1>5 DEF AppendOutcome, At, LogInv
  <2> QED
    BY <1>2, <1>5, <2>1, WritesAreHistories, Zenon DEF AppendOutcome
<1>6. ASSUME NEW d \in Deliveries, AppendRecovery(d) PROVE Grows
  BY <1>2, <1>6, WritesAreHistories, Zenon DEF AppendRecovery
<1>7. ASSUME NEW type \in {"trace", "run.policy_versions_pinned"}
      PROVE  <<Entry(type, "none", {}, FALSE, {})>> \in Histories
  <2> DEFINE e == Entry(type, "none", {}, FALSE, {})
  <2>1. e \in Event /\ ~e.diagnostic
    BY DEF Entry, Event, EventTypes, OtherTypes, Reasons
  <2> HIDE DEF e
  <2>2. <<e>> \in Seq(Event) /\ \A i \in 1..Len(<<e>>) : ~(<<e>>[i].diagnostic)
    BY <2>1
  <2>3. <<e>> \in Histories
    BY <2>2 DEF Histories
  <2> QED
    BY <2>3 DEF e
<1>8. CASE RunPinsPolicy
  BY <1>2, <1>7, <1>8 DEF RunPinsPolicy
<1>9. CASE TraceAppend
  <2> DEFINE e == Entry("trace", "none", {}, FALSE, {})
  <2>1. log' = Append(log, e) /\ <<e>> \in Histories
    BY <1>7, <1>9 DEF TraceAppend
  <2>2. e \in Event /\ log \in Seq(Event)
    BY DEF LogInv, Histories, Entry, Event, EventTypes, OtherTypes, Reasons
  <2> HIDE DEF e
  <2>3. Append(log, e) = log \o <<e>>
    BY <2>2
  <2> QED
    BY <2>1, <2>3, Zenon DEF Grows
<1>10. ASSUME NEW d \in Deliveries,
              \/ Signal(d) \/ Submit(d) \/ Redrive(d) \/ GetOffset(d)
              \/ CatchUpCommit(d) \/ Decide(d) \/ RunTurn(d) \/ OffsetBefore(d)
              \/ RecoveryDecide(d) \/ OffsetAfter(d)
       PROVE  Grows
  BY <1>1, <1>10, Zenon DEF Signal, Submit, Redrive, GetOffset, CatchUpCommit, Decide,
     RunTurn, OffsetBefore, RecoveryDecide, OffsetAfter
<1>11. CASE RunStarts \/ RunGets \/ DrainBuffer \/ RunReturns
  BY <1>1, <1>11 DEF RunStarts, RunGets, DrainBuffer, RunReturns
<1> QED
  BY <1>3, <1>4, <1>5, <1>6, <1>8, <1>9, <1>10, <1>11 DEF Next, HandlerStep, RunStep

(* At the start the log is empty and both caches hold its replay.          *)
LEMMA CacheInvInit == Init => CacheInv
<1> SUFFICES ASSUME Init PROVE CacheInv
  OBVIOUS
<1>1. log = <<>> /\ log \in Histories /\ Len(log) = 0 /\ log \in Seq(Event)
  BY DEF Init, Histories
<1>2. LogInv
  BY <1>1 DEF Init, LogInv, TurnOutcomes
<1>3. IsReplay(DefaultProjection, log)
  <2>1. log \in Seq(Event) /\ 0 \in 0..Len(log)
    BY <1>1
  <2>2. Replayed(log)[0] = DefaultProjection
    BY <2>1, ReplayedStep
  <2>3. IsReplay(Replayed(log)[0], log)
    BY <2>1, ReplayedIsReplay, Zenon
  <2> QED
    BY <2>2, <2>3
<1> QED
  BY <1>2, <1>3 DEF Init, CacheInv

(* The control state of the handlers stays well formed.                    *)
LEMMA LogInvNext == CacheInv /\ [Next]_vars => LogInv'
<1> SUFFICES ASSUME CacheInv, [Next]_vars PROVE LogInv'
  OBVIOUS
<1> DEFINE Places == Steps \cup Ended \cup {"undelivered", "buffered"}
           Placed == /\ pc' \in [Deliveries -> Places]
                     /\ outcome' \in [Deliveries -> TurnOutcomes \cup {"none", "raised"}]
                     /\ \A d \in Deliveries :
                          pc'[d] = "append_outcome" => outcome'[d] \in TurnOutcomes
<1> USE DEF LogInv, CacheInv
<1>1. log' \in Histories
  BY LogGrows, HistoriesConcat, Zenon DEF Grows
<1>2. ASSUME NEW d \in Deliveries, NEW place \in Places, Goto(d, place),
             place # "append_outcome", UNCHANGED outcome
      PROVE  Placed
  BY <1>2 DEF Goto
<1>3. ASSUME NEW d \in Deliveries, CommitHandled(d), UNCHANGED outcome
      PROVE  Placed
  BY <1>3 DEF CommitHandled, SignalHandled, Goto, Steps, Ended, InFlight
<1>4. ASSUME UNCHANGED <<pc, outcome>> PROVE Placed
  BY <1>4
<1>5. CASE UNCHANGED vars
  BY <1>1, <1>5 DEF vars, turnVars
<1>6. ASSUME NEW d \in Deliveries, GetOffset(d) PROVE LogInv'
  <2>1. proj' = Latest(proj, log) /\ Len(log) \in Nat /\ log \in Seq(Event)
    BY <1>6 DEF GetOffset, Histories
  <2>2. IsReplay(proj', log)
    BY <2>1, CatchUpIsReplay DEF Latest
  <2>3. proj'.offset \in Nat
    BY <2>2 DEF IsReplay, Projection
  <2>4. offset' \in [Deliveries -> Nat]
    BY <1>6, <2>3 DEF GetOffset
  <2>5. Placed
    BY <1>2, <1>6, Zenon DEF GetOffset, Steps, turnVars
  <2> QED
    BY <1>1, <2>4, <2>5
<1>7. ASSUME NEW d \in Deliveries,
             \/ Signal(d) \/ Submit(d) \/ Redrive(d) \/ AppendCommit(d)
             \/ CatchUpCommit(d) \/ AppendOutcome(d) \/ OffsetBefore(d)
             \/ RecoveryDecide(d) \/ OffsetAfter(d) \/ AppendRecovery(d)
      PROVE  LogInv'
  <2>1. UNCHANGED <<offset, outcome>>
    BY <1>7, ZenonT(30) DEF Signal, Submit, Redrive, AppendCommit, CatchUpCommit, AppendOutcome,
       OffsetBefore, RecoveryDecide, OffsetAfter, AppendRecovery, turnVars
  <2>2. \E place \in Places \ {"append_outcome"} : Goto(d, place)
    BY <1>7 DEF Signal, Submit, Redrive, AppendCommit, CatchUpCommit, AppendOutcome,
       OffsetBefore, RecoveryDecide, OffsetAfter, AppendRecovery, RecoveryRaises,
       Enter, Steps, Ended, Goto
  <2>3. Placed
    BY <1>2, <2>1, <2>2, Zenon
  <2> QED
    BY <1>1, <2>1, <2>3, Zenon
<1>8. ASSUME NEW d \in Deliveries, Decide(d) PROVE LogInv'
  <2>1. /\ UNCHANGED <<offset, outcome>>
        /\ Goto(d, "turn") \/ CommitHandled(d)
    BY <1>8, Zenon DEF Decide
  <2>2. Placed
    BY <1>2, <1>3, <2>1, ZenonT(30) DEF Steps
  <2> QED
    BY <1>1, <2>1, <2>2, Zenon
<1>9. ASSUME NEW d \in Deliveries, RunTurn(d) PROVE LogInv'
  <2>1. PICK r \in TurnResults :
          /\ outcome' = [outcome EXCEPT ![d] = r[1]]
          /\ pc' = [pc EXCEPT ![d] = IF r[1] = "raised" THEN "before"
                                     ELSE "append_outcome"]
    BY <1>9, Zenon DEF RunTurn, Goto
  <2>2. r[1] \in TurnOutcomes \cup {"raised"}
    BY DEF TurnResults, TurnOutcomes
  <2>3. Placed
    BY <2>1, <2>2 DEF Steps
  <2> QED
    BY <1>1, <1>9, <2>3 DEF RunTurn
<1>10. CASE RunStarts \/ RunGets \/ RunPinsPolicy \/ RunReturns \/ TraceAppend
  BY <1>1, <1>4, <1>10, Zenon DEF RunStarts, RunGets, RunPinsPolicy, RunReturns,
     TraceAppend, turnVars
<1>11. CASE DrainBuffer
  <2>1. UNCHANGED <<offset, outcome>>
    BY <1>11 DEF DrainBuffer, turnVars
  <2>2. Placed
    BY <1>11, <2>1 DEF DrainBuffer, Enter, Goto, Steps, Ended
  <2> QED
    BY <1>1, <2>1, <2>2
<1> QED
  BY <1>5, <1>6, <1>7, <1>8, <1>9, <1>10, <1>11 DEF Next, HandlerStep, RunStep

(* Both caches stay replays: a step that changes one catches the service's *)
(* projection up with the log as it is, a new workflow instance begins     *)
(* with the default projection, and what others append changes neither.    *)
LEMMA CacheInvNext == CacheInv /\ [Next]_vars => CacheInv'
<1> SUFFICES ASSUME CacheInv, [Next]_vars PROVE CacheInv'
  OBVIOUS
<1>1. /\ log \in Seq(Event) /\ Len(log) \in Nat
      /\ IsReplay(proj, log) /\ IsReplay(last, log)
      /\ offset \in [Deliveries -> Nat]
  BY DEF CacheInv, LogInv, Histories
<1>2. IsReplay(DefaultProjection, log)
  BY <1>1, ReplayedStep, ReplayedIsReplay
<1>3. LogInv' /\ Grows
  BY LogInvNext, LogGrows DEF CacheInv
<1>4. ASSUME NEW p, IsReplay(p, log) PROVE IsReplay(p, log')
  BY <1>1, <1>3, <1>4, IsReplayGrows, Zenon DEF Grows, Histories
<1>5. \A k \in Nat : IsReplay(CatchUp(proj, log, k), log)
  BY <1>1, CatchUpIsReplay
<1>6. IsReplay(Latest(proj, log), log)
  BY <1>1, <1>5 DEF Latest
<1>7. IsReplay(proj', log) /\ IsReplay(last', log)
  <2>1. CASE UNCHANGED <<proj, last>>
    BY <1>1, <2>1
  <2>2. ASSUME NEW d \in Deliveries, GetOffset(d) PROVE  IsReplay(proj', log) /\ IsReplay(last', log)
    BY <1>1, <1>6, <2>2 DEF GetOffset, runVars
  <2>3. ASSUME NEW d \in Deliveries, CatchUpCommit(d) PROVE  IsReplay(proj', log) /\ IsReplay(last', log)
    BY <1>1, <1>5, <2>3, Zenon DEF CatchUpCommit
  <2>4. ASSUME NEW d \in Deliveries, Decide(d) PROVE  IsReplay(proj', log) /\ IsReplay(last', log)
    <3>1. proj' = Latest(proj, log) /\ (UNCHANGED runVars \/ CommitHandled(d))
      BY <2>4 DEF Decide
    <3>2. last' = last \/ last' = DefaultProjection
      BY <3>1 DEF CommitHandled, SignalHandled, runVars
    <3> QED
      BY <1>1, <1>2, <1>6, <3>1, <3>2, Zenon
  <2>5. CASE RunGets \/ RunReturns
    BY <1>6, <2>5, ZenonT(30) DEF RunGets, RunReturns
  <2>6. ASSUME NEW d \in Deliveries,
               \/ Signal(d) \/ Submit(d) \/ Redrive(d) \/ AppendCommit(d)
               \/ RunTurn(d) \/ AppendOutcome(d) \/ OffsetBefore(d)
               \/ RecoveryDecide(d) \/ OffsetAfter(d) \/ AppendRecovery(d)
        PROVE  UNCHANGED <<proj, last>>
    BY <2>6 DEF Signal, Submit, Redrive, AppendCommit, RunTurn, AppendOutcome,
       OffsetBefore, RecoveryDecide, OffsetAfter, AppendRecovery, runVars
  <2>7. CASE RunStarts \/ RunPinsPolicy \/ DrainBuffer \/ TraceAppend \/ UNCHANGED vars
    <3>1. UNCHANGED <<proj, last>>
      BY <2>7, Zenon DEF RunStarts, RunPinsPolicy, DrainBuffer, TraceAppend, vars, runVars
    <3> QED
      BY <2>1, <3>1, Zenon
  <2> QED
    BY <2>1, <2>2, <2>3, <2>4, <2>5, <2>6, <2>7 DEF Next, HandlerStep, RunStep
<1> QED
  BY <1>3, <1>4, <1>7 DEF CacheInv

(* The cached projections are replays of the log, and no log takes a run   *)
(* out of a terminal state or past a cancel request, for any deliveries,   *)
(* in any order, with any offsets guessed in between (catch_up, get,       *)
(* _resolve_projection_transition).                                        *)
LEMMA CacheSafe == Spec => [](CachesReplayTheLog /\ TerminalIsFinal)
<1>1. Init => CacheInv
  BY CacheInvInit
<1>2. CacheInv /\ [Next]_vars => CacheInv'
  BY CacheInvNext
<1>3. CacheInv => CachesReplayTheLog /\ TerminalIsFinal
  BY CacheInvImplies
<1> QED
  BY <1>1, <1>2, <1>3, PTL DEF Spec

(* Every cached projection of a run replays a prefix of its log, whatever  *)
(* offsets the handlers guessed (catch_up, get).                           *)
THEOREM CachesAreReplays == Spec => []CachesReplayTheLog
  BY CacheSafe, PTL

(* No log takes a run out of a terminal state or past a cancel request     *)
(* (_resolve_projection_transition).                                       *)
THEOREM TerminalsAreFinal == Spec => []TerminalIsFinal
  BY CacheSafe, PTL
-----------------------------------------------------------------------------
(***************************************************************************)
(* One turn per commit. A commit whose turn has begun is past its append,  *)
(* so its offset, and with it its fingerprint, is fixed; the fingerprint   *)
(* is marked, so no later processing of the commit begins a turn.          *)
(***************************************************************************)
BeforeCatchUp == {"undelivered", "buffered", "get", "append"}

TurnInv ==
  /\ pc \in [Deliveries -> Steps \cup Ended \cup {"undelivered", "buffered"}]
  /\ offset = [d \in Deliveries |-> offset[d]]
  /\ turns \in [Deliveries -> {0, 1}]
  /\ \A d \in Deliveries :
       turns[d] = 1 => Fingerprint(d) \in marks /\ pc[d] \notin BeforeCatchUp

(* The invariant gives the property.                                       *)
LEMMA TurnInvImplies == TurnInv => OneTurnPerCommit
  BY DEF TurnInv, OneTurnPerCommit

(* It holds before anything is delivered.                                  *)
LEMMA TurnInvInit == Init => TurnInv
  BY DEF Init, TurnInv, BeforeCatchUp

(* A step that leaves turns, offset and marks alone, and moves no handler  *)
(* back before its catch_up, keeps it.                                     *)
LEMMA QuietTurnInv ==
  ASSUME TurnInv, UNCHANGED <<offset, turns>>, marks \subseteq marks',
         pc' \in [Deliveries -> Steps \cup Ended \cup {"undelivered", "buffered"}],
         \A d \in Deliveries :
           pc[d] \notin BeforeCatchUp => pc'[d] \notin BeforeCatchUp
  PROVE  TurnInv'
  BY Zenon DEF TurnInv, Fingerprint, CommitId, Token, HasCause

(* The end of a signal handler moves handlers to an end only.              *)
LEMMA HandledEnds ==
  ASSUME TurnInv, NEW d \in Deliveries, CommitHandled(d)
  PROVE  /\ pc' \in [Deliveries -> Steps \cup Ended \cup {"undelivered", "buffered"}]
         /\ \A e \in Deliveries :
              pc[e] \notin BeforeCatchUp => pc'[e] \notin BeforeCatchUp
  BY DEF TurnInv, CommitHandled, SignalHandled, Goto, Ended, Steps,
         BeforeCatchUp, InFlight

(* Guessing an offset concerns a commit that has had no turn.              *)
LEMMA GetOffsetTurnInv ==
  ASSUME TurnInv, NEW d \in Deliveries, GetOffset(d)
  PROVE  TurnInv'
<1>1. turns[d] # 1
  BY DEF TurnInv, GetOffset, At, BeforeCatchUp
<1>2. /\ UNCHANGED <<turns, marks>>
      /\ pc' = [pc EXCEPT ![d] = "append"]
      /\ offset' = [offset EXCEPT ![d] = proj'.offset + 1]
  BY DEF GetOffset, Goto, turnVars
<1>3. \A e \in Deliveries : turns'[e] = 1 =>
        Fingerprint(e)' \in marks' /\ pc'[e] \notin BeforeCatchUp
  BY <1>1, <1>2, Zenon DEF TurnInv, Fingerprint, CommitId, Token, HasCause
<1> QED
  BY <1>2, <1>3 DEF TurnInv, Steps

(* A turn begins only on an unmarked fingerprint, and marks it.            *)
LEMMA DecideTurnInv ==
  ASSUME TurnInv, NEW d \in Deliveries, Decide(d)
  PROVE  TurnInv'
<1> DEFINE skip == proj'.offset < offset[d] \/ Fingerprint(d) \in marks
           act  == Input[d].kind = "action" /\ ~skip
<1>1. /\ pc[d] = "decide" /\ UNCHANGED offset
      /\ marks' = IF skip THEN marks ELSE marks \cup {Fingerprint(d)}
      /\ turns' = [turns EXCEPT ![d] = IF act THEN @ + 1 ELSE @]
      /\ IF act THEN Goto(d, "turn") /\ UNCHANGED runVars ELSE CommitHandled(d)
  BY Zenon DEF Decide, At
<1>2. CASE ~act
  <2>1. turns' = turns
    BY <1>1, <1>2, Zenon DEF TurnInv
  <2>2. CommitHandled(d)
    BY <1>1, <1>2, Zenon
  <2>3. marks \subseteq marks'
    BY <1>1, Zenon
  <2> QED
    BY <1>1, <2>1, <2>2, <2>3, HandledEnds, QuietTurnInv, Zenon
<1>3. CASE act
  <2>1. /\ marks' = marks \cup {Fingerprint(d)}
        /\ Fingerprint(d) \notin marks
        /\ pc' = [pc EXCEPT ![d] = "turn"]
    BY <1>1, <1>3 DEF Goto
  <2>2. turns[d] = 0
    BY <2>1, Zenon DEF TurnInv
  <2>3. turns' = [turns EXCEPT ![d] = 1]
    BY <1>1, <1>3, <2>2
  <2>4. \A e \in Deliveries : Fingerprint(e)' = Fingerprint(e)
    BY <1>1, Zenon DEF Fingerprint, CommitId, Token, HasCause
  <2>5. \A e \in Deliveries : turns'[e] = 1 =>
          Fingerprint(e)' \in marks' /\ pc'[e] \notin BeforeCatchUp
    BY <2>1, <2>3, <2>4, Zenon DEF TurnInv, BeforeCatchUp
  <2> QED
    BY <1>1, <2>1, <2>3, <2>5, Zenon DEF TurnInv, Steps
<1> QED
  BY <1>2, <1>3, Zenon

(* Every step of the workflow, its callers and the facade keeps it.        *)
LEMMA TurnInvNext == TurnInv /\ [Next]_vars => TurnInv'
<1> SUFFICES ASSUME TurnInv, [Next]_vars PROVE TurnInv'
  OBVIOUS
<1>1. CASE UNCHANGED vars
  BY <1>1, QuietTurnInv, Zenon DEF vars, turnVars, TurnInv
<1>2. ASSUME NEW d \in Deliveries, Signal(d) \/ Submit(d) \/ Redrive(d)
      PROVE  TurnInv'
  BY <1>2, QuietTurnInv, Zenon DEF Signal, Submit, Redrive, Enter, At, Goto, turnVars,
     TurnInv, Steps, Ended, BeforeCatchUp
<1>3. ASSUME NEW d \in Deliveries, AppendCommit(d) \/ CatchUpCommit(d)
      PROVE  TurnInv'
  BY <1>3, QuietTurnInv, Zenon DEF AppendCommit, CatchUpCommit, At, Goto, turnVars,
     TurnInv, Steps, Ended, BeforeCatchUp
<1>4. ASSUME NEW d \in Deliveries, RunTurn(d) \/ AppendOutcome(d)
      PROVE  TurnInv'
  BY <1>4, QuietTurnInv, Zenon DEF RunTurn, AppendOutcome, At, Goto,
     TurnInv, Steps, Ended, BeforeCatchUp
<1>5. ASSUME NEW d \in Deliveries,
             \/ OffsetBefore(d) \/ RecoveryDecide(d) \/ OffsetAfter(d)
             \/ AppendRecovery(d)
      PROVE  TurnInv'
  BY <1>5, QuietTurnInv, ZenonT(30) DEF OffsetBefore, RecoveryDecide, OffsetAfter,
     AppendRecovery, RecoveryRaises, At, Goto, TurnInv, Steps, Ended, BeforeCatchUp
<1>6. CASE RunStarts \/ RunGets \/ RunPinsPolicy \/ RunReturns \/ TraceAppend
  BY <1>6, QuietTurnInv, Zenon DEF RunStarts, RunGets, RunPinsPolicy, RunReturns,
     TraceAppend, turnVars, TurnInv
<1>7. CASE DrainBuffer
  BY <1>7, QuietTurnInv DEF DrainBuffer, Enter, Goto, turnVars,
     TurnInv, Steps, Ended, BeforeCatchUp
<1> QED
  BY <1>1, <1>2, <1>3, <1>4, <1>5, <1>6, <1>7, GetOffsetTurnInv, DecideTurnInv, Zenon
  DEF Next, HandlerStep, RunStep

(* However often a commit is processed again, its action gets one turn,    *)
(* for any deliveries, thresholds and faults of the log                    *)
(* (process_action_commit's seen and mark).                                *)
THEOREM OneTurn == Spec => []OneTurnPerCommit
<1>1. Init => TurnInv
  BY TurnInvInit
<1>2. TurnInv /\ [Next]_vars => TurnInv'
  BY TurnInvNext
<1>3. TurnInv => OneTurnPerCommit
  BY TurnInvImplies
<1> QED
  BY <1>1, <1>2, <1>3, PTL DEF Spec
-----------------------------------------------------------------------------
(***************************************************************************)
(* What is in the log.  A remembered token has its event in the log, and a *)
(* handler that has decided on a recovery for the first time has not run a *)
(* turn before; the log keeps both.                                        *)
(***************************************************************************)
SeenInv ==
  /\ \A t \in seen : \E e \in Deliveries : Token(e) = t /\ Logged(e, EventTypes)
  /\ DroppedSignalIsLogged

RecordInv ==
  /\ drives \in [Deliveries -> Nat]
  /\ mode \in [Deliveries -> Modes]
  /\ \A d \in Deliveries :
       /\ pc[d] \in BeforeCatchUp => drives[d] = 0 /\ outcome[d] = "none"
       /\ drives[d] = 1 /\ pc[d] \in {"catch_up", "decide", "turn"} => outcome[d] = "none"
  /\ RecoveryIsRecorded

(* What was logged stays logged while the log grows.                       *)
LEMMA LoggedStays ==
  ASSUME LogInv, Grows, NEW d \in Deliveries, NEW types, Logged(d, types)
  PROVE  Logged(d, types)'
<1>1. PICK i \in 1..Len(log) : log[i].by = {d} /\ log[i].type \in types
  BY DEF Logged
<1>2. log \in Seq(Event)
  BY DEF LogInv, Histories
<1>3. CASE log' = log
  BY <1>1, <1>3, Zenon DEF Logged
<1>4. ASSUME NEW s \in Histories, log' = log \o s PROVE Logged(d, types)'
  <2>1. s \in Seq(Event)
    BY DEF Histories
  <2>2. (log \o s)[i] = log[i] /\ i \in 1..Len(log \o s)
    BY <1>1, <1>2, <2>1
  <2> QED
    BY <1>1, <1>4, <2>2 DEF Logged
<1> QED
  BY <1>3, <1>4 DEF Grows

(* A written history is logged.                                            *)
LEMMA WrittenIsLogged ==
  ASSUME LogInv, NEW d \in Deliveries, NEW types, NEW s \in Histories,
         log' = log \o s, NEW i \in 1..Len(s), s[i].by = {d}, s[i].type \in types
  PROVE  Logged(d, types)'
<1>1. log \in Seq(Event) /\ s \in Seq(Event)
  BY DEF LogInv, Histories
<1>2. (log \o s)[Len(log) + i] = s[i] /\ Len(log) + i \in 1..Len(log \o s)
  BY <1>1
<1> QED
  BY <1>2, Zenon DEF Logged

(* Dropping a duplicate relies on the token's event being logged; the      *)
(* token is remembered only once its event is (_handle_signal).            *)
LEMMA SeenInvNext == CacheInv /\ SeenInv /\ [Next]_vars => SeenInv'
<1> SUFFICES ASSUME CacheInv, SeenInv, [Next]_vars PROVE SeenInv'
  OBVIOUS
<1> DEFINE Known(t) == \E e \in Deliveries : Token(e) = t /\ Logged(e, EventTypes)
           Known1(t) == \E e \in Deliveries : Token(e) = t /\ Logged(e, EventTypes)'
<1>1. LogInv /\ Grows
  BY LogGrows DEF CacheInv
<1>2. \A t : Known(t) => Known1(t)
  BY <1>1, LoggedStays
<1>3. /\ \A t \in seen : Known1(t)
      /\ \A d \in Deliveries : pc[d] = "dropped" /\ Input[d].peer = {} => Known1(Token(d))
  BY <1>2 DEF SeenInv, DroppedSignalIsLogged
<1>4. pc \in [Deliveries -> Steps \cup Ended \cup {"undelivered", "buffered"}]
  BY <1>1, Zenon DEF LogInv
<1>5. ASSUME \A t \in seen' : Known1(t),
             \A d \in Deliveries : pc'[d] = "dropped" =>
               pc[d] = "dropped" \/ Token(d) \in seen \/ Input[d].peer # {}
      PROVE  SeenInv'
  <2> HIDE DEF Known1
  <2>1. \A d \in Deliveries : pc'[d] = "dropped" /\ Input[d].peer = {} => Known1(Token(d))
    BY <1>3, <1>5, Zenon
  <2> QED
    BY <1>5, <2>1, Zenon DEF SeenInv, DroppedSignalIsLogged, Known1, Token
<1>6. ASSUME seen' \in {seen, {}},
             \A d \in Deliveries : pc'[d] = "dropped" =>
               pc[d] = "dropped" \/ Token(d) \in seen \/ Input[d].peer # {}
      PROVE  SeenInv'
  <2>1. \A t \in seen' : Known1(t)
    <3> HIDE DEF Known1
    <3> QED
      BY <1>3, <1>6
  <2> QED
    BY <1>5, <1>6, <2>1
<1>7. ASSUME NEW d \in Deliveries, Enter(d), UNCHANGED seen PROVE SeenInv'
  BY <1>4, <1>6, <1>7 DEF Enter, Goto
<1>8. ASSUME NEW d \in Deliveries, AppendCommit(d) PROVE SeenInv'
  <2>1. PICK ok \in WriteResults :
          /\ LogWrite(<<EventOf(d)>>, ok)
          /\ seen' = IF ok /\ IsSignal(d) /\ HasCause(d) THEN seen \cup {Token(d)} ELSE seen
          /\ pc' = [pc EXCEPT ![d] = IF ok THEN "catch_up" ELSE "failed"]
    BY <1>8, Zenon DEF AppendCommit, Goto
  <2>2. CASE seen' = seen
    BY <1>4, <1>6, <2>1, <2>2
  <2>3. CASE ok /\ seen' = seen \cup {Token(d)}
    <3>1. log' = log \o <<EventOf(d)>>
      BY <2>1, <2>3 DEF LogWrite
    <3>2. <<EventOf(d)>> \in Histories /\ EventOf(d) \in Event
      BY <1>1, WritesAreHistories, Zenon
    <3>3. EventOf(d).by = {d} /\ EventOf(d).type \in EventTypes
      BY <3>2, Zenon DEF EventOf, Entry, Event
    <3>4. Logged(d, EventTypes)'
      <4> DEFINE s == <<EventOf(d)>>
      <4>1. 1 \in 1..Len(s) /\ s[1] = EventOf(d)
        OBVIOUS
      <4>2. s \in Histories /\ log' = log \o s
        BY <3>1, <3>2, Zenon
      <4> HIDE DEF s
      <4> QED
        BY <1>1, <3>3, <4>1, <4>2, WrittenIsLogged
    <3>5. \A t \in seen' : Known1(t)
      BY <1>3, <2>3, <3>4, Zenon
    <3> QED
      BY <1>4, <1>5, <2>1, <3>5, Zenon
  <2> QED
    BY <2>1, <2>2, <2>3
<1>9. ASSUME NEW d \in Deliveries, Decide(d) PROVE SeenInv'
  <2>1. (Goto(d, "turn") /\ UNCHANGED runVars) \/ CommitHandled(d)
    BY <1>9 DEF Decide
  <2>2. seen' \in {seen, {}}
    BY <2>1 DEF CommitHandled, SignalHandled, runVars
  <2>3. \A e \in Deliveries : pc'[e] = "dropped" => pc[e] = "dropped"
    BY <1>4, <2>1 DEF CommitHandled, SignalHandled, Goto
  <2> QED
    BY <1>6, <2>2, <2>3, Zenon
<1>10. ASSUME NEW d \in Deliveries,
              \/ Submit(d) \/ Redrive(d) \/ GetOffset(d) \/ CatchUpCommit(d)
              \/ RunTurn(d) \/ AppendOutcome(d) \/ OffsetBefore(d)
              \/ RecoveryDecide(d) \/ OffsetAfter(d) \/ AppendRecovery(d)
       PROVE  SeenInv'
  <2>1. seen' = seen
    BY <1>10, Zenon DEF Submit, Redrive, GetOffset, CatchUpCommit, RunTurn, AppendOutcome,
       OffsetBefore, RecoveryDecide, OffsetAfter, AppendRecovery, runVars
  <2>2. \A e \in Deliveries : pc'[e] = "dropped" => pc[e] = "dropped"
    BY <1>4, <1>10, Zenon DEF Submit, Redrive, GetOffset, CatchUpCommit, RunTurn,
       AppendOutcome, OffsetBefore, RecoveryDecide, OffsetAfter, AppendRecovery,
       RecoveryRaises, Goto
  <2> QED
    BY <1>6, <2>1, <2>2, Zenon
<1>11. ASSUME NEW d \in Deliveries, Signal(d) PROVE SeenInv'
  <2>1. seen' = seen /\ (Goto(d, "buffered") \/ Enter(d))
    BY <1>11, Zenon DEF Signal
  <2>2. CASE Goto(d, "buffered")
    BY <1>4, <1>6, <2>1, <2>2, Zenon DEF Goto
  <2> QED
    BY <1>7, <2>1, <2>2
<1>12. CASE \/ RunStarts \/ RunGets \/ RunPinsPolicy \/ RunReturns \/ TraceAppend
            \/ UNCHANGED vars
  BY <1>6, <1>12, Zenon DEF RunStarts, RunGets, RunPinsPolicy, RunReturns, TraceAppend,
     vars, runVars
<1>13. CASE DrainBuffer
  <2>1. seen' = seen
    BY <1>13, Zenon DEF DrainBuffer
  <2>2. \A d \in Deliveries : pc'[d] = "dropped" =>
          pc[d] = "dropped" \/ Token(d) \in seen \/ Input[d].peer # {}
    BY <1>4, <1>13, Zenon DEF DrainBuffer, Enter, Goto
  <2> QED
    BY <1>6, <2>1, <2>2, Zenon
<1> QED
  BY <1>8, <1>9, <1>10, <1>11, <1>12, <1>13 DEF Next, HandlerStep, RunStep

(* A recovery is recorded before its handler returns: on the first         *)
(* processing of a commit the only way from a turn that ended in           *)
(* recovery_pending to a normal return is _append_recovery_event.          *)
LEMMA RecordInvNext == CacheInv /\ RecordInv /\ [Next]_vars => RecordInv'
<1> SUFFICES ASSUME CacheInv, RecordInv, [Next]_vars PROVE RecordInv'
  OBVIOUS
<1> DEFINE Recorded(d) == /\ Logged(d, {RecoveryEventType(mode[d])})
                          /\ Logged(d, {"recovery.plan_selected"})
           First == {"catch_up", "decide", "turn"}
           InOrder(d) ==
             /\ pc[d] \in BeforeCatchUp => drives[d] = 0 /\ outcome[d] = "none"
             /\ drives[d] = 1 /\ pc[d] \in First => outcome[d] = "none"
             /\ pc[d] = "done" /\ drives[d] = 1 /\ outcome[d] = "recovery_pending"
                  => Recorded(d)
           Typed == drives \in [Deliveries -> Nat] /\ mode \in [Deliveries -> Modes]
<1>1. RecordInv <=> Typed /\ \A d \in Deliveries : InOrder(d)
  BY Zenon DEF RecordInv, RecoveryIsRecorded
<1>2. RecordInv' <=> Typed' /\ \A d \in Deliveries : InOrder(d)'
  BY Zenon DEF RecordInv, RecoveryIsRecorded
<1>3. /\ pc \in [Deliveries -> Steps \cup Ended \cup {"undelivered", "buffered"}]
      /\ outcome \in [Deliveries -> TurnOutcomes \cup {"none", "raised"}]
      /\ LogInv /\ Grows
  BY LogGrows DEF CacheInv, LogInv
<1>4. \A d \in Deliveries : mode'[d] = mode[d] /\ Recorded(d) => Recorded(d)'
  <2> SUFFICES ASSUME NEW d \in Deliveries, mode'[d] = mode[d], Recorded(d)
               PROVE  Recorded(d)'
    OBVIOUS
  <2> DEFINE ty == {RecoveryEventType(mode[d])}
             pl == {"recovery.plan_selected"}
  <2>1. Logged(d, ty) /\ Logged(d, pl) /\ {RecoveryEventType(mode[d])'} = ty
    BY Zenon DEF RecoveryEventType
  <2>2. ASSUME NEW types \in {ty, pl}
        PROVE  \E i \in 1..Len(log') : log'[i].by = {d} /\ log'[i].type \in types
    <3>1. Logged(d, types)
      BY <2>1
    <3> QED
      BY <1>3, <3>1, LoggedStays, Zenon DEF Logged
  <2> HIDE DEF ty, pl
  <2>3. /\ \E i \in 1..Len(log') : log'[i].by = {d} /\ log'[i].type \in ty
        /\ \E i \in 1..Len(log') : log'[i].by = {d} /\ log'[i].type \in pl
    BY <2>2
  <2> QED
    BY <2>1, <2>3, Zenon DEF Logged, pl
<1>5. ASSUME Typed', NEW d \in Deliveries, InOrder(d)',
             \A e \in Deliveries \ {d} :
               /\ mode'[e] = mode[e] /\ drives'[e] = drives[e] /\ outcome'[e] = outcome[e]
               /\ pc'[e] = pc[e] \/ pc'[e] = "lost"
      PROVE  RecordInv'
  <2> HIDE DEF Recorded
  <2>1. ASSUME NEW e \in Deliveries \ {d} PROVE InOrder(e)'
    <3>1. /\ mode'[e] = mode[e] /\ drives'[e] = drives[e] /\ outcome'[e] = outcome[e]
          /\ pc'[e] = pc[e] \/ pc'[e] = "lost"
      BY <1>5, Zenon
    <3>2. InOrder(e)
      BY <1>1, Zenon
    <3> QED
      BY <1>4, <3>1, <3>2, Zenon DEF BeforeCatchUp
  <2> QED
    BY <1>2, <1>5, <2>1
<1>6. ASSUME NEW d \in Deliveries, UNCHANGED <<drives, mode, outcome>>, InOrder(d)',
             NEW place, pc' = [pc EXCEPT ![d] = place]
      PROVE  RecordInv'
  <2>1. Typed'
    BY <1>1, <1>6, Zenon
  <2>2. \A e \in Deliveries \ {d} : pc'[e] = pc[e]
    BY <1>3, <1>6, Zenon
  <2> HIDE DEF InOrder, Typed
  <2> QED
    BY <1>5, <1>6, <2>1, <2>2, Zenon
<1>7. ASSUME UNCHANGED <<drives, mode, outcome, pc>> PROVE RecordInv'
  <2> HIDE DEF Recorded
  <2>1. ASSUME NEW d \in Deliveries PROVE InOrder(d)'
    BY <1>1, <1>4, <1>7, Zenon
  <2> QED
    BY <1>1, <1>2, <1>7, <2>1, Zenon
<1> HIDE DEF Recorded
(* Steps before the turn, and to the end of a handler that had none.       *)
<1>8. ASSUME NEW d \in Deliveries, Signal(d) \/ Submit(d) PROVE RecordInv'
  <2>1. /\ UNCHANGED <<drives, mode, outcome>> /\ pc[d] = "undelivered"
        /\ \E place \in {"buffered", "get", "dropped"} : pc' = [pc EXCEPT ![d] = place]
    BY <1>8 DEF Signal, Submit, Enter, At, Goto, turnVars
  <2>2. InOrder(d)'
    BY <1>1, <1>3, <2>1 DEF BeforeCatchUp
  <2> QED
    BY <1>6, <2>1, <2>2, Zenon
<1>9. ASSUME NEW d \in Deliveries, GetOffset(d) \/ CatchUpCommit(d) PROVE RecordInv'
  <2>1. /\ UNCHANGED <<drives, mode, outcome>>
        /\ \/ pc[d] = "get" /\ pc' = [pc EXCEPT ![d] = "append"]
           \/ pc[d] = "catch_up" /\ pc' = [pc EXCEPT ![d] = "decide"]
    BY <1>9, Zenon DEF GetOffset, CatchUpCommit, At, Goto, turnVars
  <2>2. InOrder(d)'
    BY <1>1, <1>3, <2>1, Zenon DEF BeforeCatchUp
  <2> QED
    BY <1>6, <2>1, <2>2
<1>10. ASSUME NEW d \in Deliveries, AppendCommit(d) \/ Redrive(d) PROVE RecordInv'
  <2>1. UNCHANGED <<mode, outcome>>
    BY <1>10, Zenon DEF AppendCommit, Redrive, turnVars
  <2>2. \/ /\ pc[d] = "append" /\ pc' = [pc EXCEPT ![d] = "catch_up"]
           /\ drives' = [drives EXCEPT ![d] = drives[d] + 1]
        \/ /\ pc[d] = "append" /\ pc' = [pc EXCEPT ![d] = "failed"]
           /\ drives' = [drives EXCEPT ![d] = drives[d]]
        \/ /\ drives[d] \in 1..(MaxDrives - 1) /\ pc' = [pc EXCEPT ![d] = "catch_up"]
           /\ drives' = [drives EXCEPT ![d] = drives[d] + 1]
    BY <1>10, Zenon DEF AppendCommit, Redrive, At, Goto
  <2>3. Typed'
    BY <1>1, <2>1, <2>2
  <2>4. InOrder(d)'
    BY <1>1, <1>3, <2>1, <2>2 DEF BeforeCatchUp
  <2>5. \A e \in Deliveries \ {d} : pc'[e] = pc[e] /\ drives'[e] = drives[e]
    BY <1>1, <1>3, <2>2, Zenon
  <2> HIDE DEF InOrder, Typed
  <2> QED
    BY <1>5, <2>1, <2>3, <2>4, <2>5, Zenon
<1>11. ASSUME NEW d \in Deliveries, Decide(d) PROVE RecordInv'
  <2>1. /\ UNCHANGED <<drives, mode, outcome>> /\ pc[d] = "decide"
        /\ Goto(d, "turn") \/ CommitHandled(d)
    BY <1>11, Zenon DEF Decide, At
  <2>2. /\ pc'[d] \in {"turn", "done"}
        /\ \A e \in Deliveries \ {d} : pc'[e] = pc[e] \/ pc'[e] = "lost"
    BY <1>3, <2>1, Zenon DEF CommitHandled, SignalHandled, Goto
  <2>3. InOrder(d)'
    BY <1>1, <2>1, <2>2, Zenon DEF BeforeCatchUp
  <2>4. Typed'
    BY <1>1, <2>1, Zenon
  <2> HIDE DEF InOrder, Typed
  <2> QED
    BY <1>5, <2>1, <2>2, <2>3, <2>4, Zenon
(* The turn and what follows it.                                           *)
<1>12. ASSUME NEW d \in Deliveries, RunTurn(d) PROVE RecordInv'
  <2>1. /\ UNCHANGED <<drives, mode>>
        /\ pc'[d] \in {"before", "append_outcome"}
        /\ \A e \in Deliveries \ {d} : pc'[e] = pc[e] /\ outcome'[e] = outcome[e]
    BY <1>3, <1>12, Zenon DEF RunTurn, Goto
  <2>2. InOrder(d)'
    BY <2>1, Zenon DEF BeforeCatchUp
  <2>3. Typed'
    BY <1>1, <2>1, Zenon
  <2> HIDE DEF InOrder, Typed
  <2> QED
    BY <1>5, <2>1, <2>2, <2>3, Zenon
<1>13. ASSUME NEW d \in Deliveries, AppendOutcome(d) \/ OffsetBefore(d) \/ OffsetAfter(d)
       PROVE  RecordInv'
  <2>1. /\ UNCHANGED <<drives, mode, outcome>>
        /\ \E place \in {"before", "recovery", "append_recovery", "failed", "done"} :
             /\ pc' = [pc EXCEPT ![d] = place]
             /\ place = "done" => outcome[d] # "recovery_pending"
    BY <1>13 DEF AppendOutcome, OffsetBefore, OffsetAfter, RecoveryRaises, Goto
  <2>2. InOrder(d)'
    BY <1>3, <2>1 DEF BeforeCatchUp
  <2> QED
    BY <1>6, <2>1, <2>2, Zenon
<1>14. ASSUME NEW d \in Deliveries, RecoveryDecide(d) PROVE RecordInv'
  <2>1. /\ UNCHANGED <<drives, outcome>>
        /\ \E place \in {"after", "before", "failed"} : pc' = [pc EXCEPT ![d] = place]
        /\ \E m \in Modes : mode' = [mode EXCEPT ![d] = m]
    <3>1. mode' = mode => mode' = [mode EXCEPT ![d] = mode[d]] /\ mode[d] \in Modes
      BY <1>1
    <3> QED
      BY <1>14, <3>1 DEF RecoveryDecide, RecoveryRaises, RecoveryModes, Modes, Goto
  <2>2. InOrder(d)'
    BY <1>3, <2>1, Zenon DEF BeforeCatchUp
  <2>3. Typed'
    BY <1>1, <2>1, Zenon
  <2>4. \A e \in Deliveries \ {d} : pc'[e] = pc[e] /\ mode'[e] = mode[e]
    BY <1>1, <1>3, <2>1, Zenon
  <2> HIDE DEF InOrder, Typed
  <2> QED
    BY <1>5, <2>1, <2>2, <2>3, <2>4
<1>15. ASSUME NEW d \in Deliveries, AppendRecovery(d) PROVE RecordInv'
  <2>1. PICK ok \in WriteResults :
          /\ LogWrite(RecoveryEvents(d), ok)
          /\ IF ok THEN Goto(d, IF path[d] = "main" THEN "done" ELSE "failed")
             ELSE RecoveryRaises(d)
    BY <1>15 DEF AppendRecovery
  <2>2. UNCHANGED <<drives, mode, outcome>>
    BY <1>15 DEF AppendRecovery
  <2>3. \E place \in {"done", "failed", "before"} :
          pc' = [pc EXCEPT ![d] = place] /\ (place = "done" => ok)
    BY <2>1 DEF RecoveryRaises, Goto
  <2>4. ASSUME ok PROVE Recorded(d)'
    <3> DEFINE s == RecoveryEvents(d)
    <3>1. log' = log \o s /\ s \in Histories
      BY <1>3, <2>1, <2>4, WritesAreHistories, Zenon DEF LogWrite
    <3>2. /\ 1 \in 1..Len(s) /\ 2 \in 1..Len(s) /\ s[1].by = {d} /\ s[2].by = {d}
          /\ s[1].type \in {"recovery.plan_selected"}
          /\ s[2].type \in {RecoveryEventType(mode[d])}
      BY DEF RecoveryEvents, Entry
    <3> HIDE DEF s
    <3> DEFINE pl == {"recovery.plan_selected"}
               ty == {RecoveryEventType(mode[d])}
    <3>3. s[1].type \in pl /\ s[2].type \in ty /\ ty = {RecoveryEventType(mode[d])'}
      BY <2>2, <3>2 DEF RecoveryEventType
    <3> HIDE DEF pl, ty
    <3>4. ASSUME NEW types, NEW i \in 1..Len(s), s[i].by = {d}, s[i].type \in types
          PROVE  \E j \in 1..Len(log') : log'[j].by = {d} /\ log'[j].type \in types
      <4>1. ASSUME NEW u \in Histories, u = s PROVE Logged(d, types)'
        BY <1>3, <3>1, <3>4, <4>1, WrittenIsLogged, Zenon
      <4> QED
        BY <3>1, <4>1, Zenon DEF Logged
    <3>5. \E j \in 1..Len(log') : log'[j].by = {d} /\ log'[j].type \in pl
      BY <3>2, <3>3, <3>4, Zenon
    <3>6. \E j \in 1..Len(log') : log'[j].by = {d} /\ log'[j].type \in ty
      BY <3>2, <3>3, <3>4, Zenon
    <3> QED
      BY <3>3, <3>5, <3>6 DEF Recorded, Logged, pl
  <2>5. InOrder(d)'
    BY <1>3, <2>2, <2>3, <2>4 DEF BeforeCatchUp
  <2> QED
    BY <1>6, <2>2, <2>3, <2>5, Zenon
<1>16. CASE \/ RunStarts \/ RunGets \/ RunPinsPolicy \/ RunReturns \/ TraceAppend
            \/ UNCHANGED vars
  BY <1>7, <1>16, Zenon DEF RunStarts, RunGets, RunPinsPolicy, RunReturns, TraceAppend,
     vars, turnVars
<1>17. CASE DrainBuffer
  <2>1. UNCHANGED <<drives, mode, outcome>>
    BY <1>17 DEF DrainBuffer, turnVars
  <2>2. CASE UNCHANGED pc
    BY <1>7, <2>1, <2>2
  <2>3. ASSUME pc[Head(buffer)] = "buffered", Enter(Head(buffer))
        PROVE  RecordInv'
    <3>1. PICK place \in {"get", "dropped"} : pc' = [pc EXCEPT ![Head(buffer)] = place]
      BY <2>3, Zenon DEF Enter, Goto
    <3>2. ASSUME NEW d \in Deliveries, d = Head(buffer) PROVE RecordInv'
      <4>1. pc[d] = "buffered" /\ pc' = [pc EXCEPT ![d] = place]
        BY <2>3, <3>1, <3>2
      <4>2. InOrder(d)'
        BY <1>1, <1>3, <2>1, <4>1 DEF BeforeCatchUp
      <4> QED
        BY <1>6, <2>1, <4>1, <4>2, Zenon
    <3>3. CASE Head(buffer) \notin Deliveries
      <4>1. pc' = pc
        BY <1>3, <3>1, <3>3
      <4> QED
        BY <1>7, <2>1, <4>1
    <3> QED
      BY <3>2, <3>3
  <2> QED
    BY <1>17, <2>2, <2>3 DEF DrainBuffer
<1> QED
  BY <1>8, <1>9, <1>10, <1>11, <1>12, <1>13, <1>14, <1>15, <1>16, <1>17, Zenon
  DEF Next, HandlerStep, RunStep

(* A dropped duplicate has its event in the log, and a recovery that was   *)
(* decided is recorded when its handler returns, for any deliveries,       *)
(* thresholds and faults of the log and the gate (_handle_signal,          *)
(* process_action_commit).                                                 *)
LEMMA LogSafe == Spec => [](DroppedSignalIsLogged /\ RecoveryIsRecorded)
<1>1. Init => CacheInv /\ SeenInv /\ RecordInv
  <2>1. Init => SeenInv
    BY Zenon DEF Init, SeenInv, DroppedSignalIsLogged
  <2>2. Init => RecordInv
    BY DEF Init, RecordInv, RecoveryIsRecorded, BeforeCatchUp, Modes
  <2> QED
    BY <2>1, <2>2, CacheInvInit, Zenon
<1>2. CacheInv /\ SeenInv /\ RecordInv /\ [Next]_vars
        => CacheInv' /\ SeenInv' /\ RecordInv'
  BY CacheInvNext, SeenInvNext, RecordInvNext, Zenon
<1>3. SeenInv /\ RecordInv => DroppedSignalIsLogged /\ RecoveryIsRecorded
  BY DEF SeenInv, RecordInv
<1> QED
  BY <1>1, <1>2, <1>3, PTL DEF Spec

(* A signal is dropped as a duplicate only when its event is in the log,   *)
(* although appends fail, durably or not (_handle_signal).                 *)
THEOREM DuplicatesAreLogged == Spec => []DroppedSignalIsLogged
  BY LogSafe, PTL

(* A recovery that was decided is in the log when the handler that decided *)
(* it returns (process_action_commit).                                     *)
THEOREM RecoveriesAreRecorded == Spec => []RecoveryIsRecorded
  BY LogSafe, PTL
=============================================================================
