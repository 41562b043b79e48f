---------------------------- MODULE TraceProofs ----------------------------
(***************************************************************************)
(* Proofs about the traces that the instances of the facade show, each     *)
(* rebuilt from a log to which all of them write.                          *)
(***************************************************************************)
EXTENDS TraceFacade, InductionLemmas, TLAPS
-----------------------------------------------------------------------------
(* TraceFacade: why the instances of the facade converge.  A value in the  *)
(* registry of an instance is always accounted for by the persisted log of *)
(* the run, or by a write that has set it and has not appended its event.  *)

\* Write w of run r has changed its instance and not yet persisted the event.
Pending(w, r) == w.r = r /\ at[w] \in {"signal", "append"}

\* The k-th event of run r changes node n.
Touches(r, k, n) == events[r][k].op \in {"open", "mark"} /\ events[r][k].id = n

\* v is what the first m events of run r leave of node n.
IsValue(v, r, n, m) ==
    \/ /\ v = NoView
       /\ \A k \in 1..m : ~Touches(r, k, n)
    \/ \E k \in 1..m : /\ Touches(r, k, n)
                       /\ v = events[r][k].val
                       /\ \A j \in (k + 1)..m : ~Touches(r, j, n)

\* Where a value v of node n comes from at an instance that has merged m
\* events of run r: from them, from a write at work, or from a later event.
Explained(v, r, n, m) ==
    \/ IsValue(v, r, n, m)
    \/ \E w \in Writes : Pending(w, r) /\ w.op \in {"open", "mark"} /\ w.id = n /\ w.val = v
    \/ \E k \in (m + 1)..Len(events[r]) : Touches(r, k, n) /\ v = events[r][k].val

\* Ids of run r that the first m events name in one of the operations `ops',
\* and those that a write at work names.
Named(r, m, ops) == {events[r][k].id : k \in {j \in 1..m : events[r][j].op \in ops}}
AtWork(r, ops)   == {w.id : w \in {x \in Writes : Pending(x, r) /\ x.op \in ops}}

\* A set S of gate ids holds what the merged events name, and nothing that
\* neither the log nor a write at work names.
ShownGates(S, r, m, ops) ==
    /\ Named(r, m, ops) \subseteq S
    /\ S \subseteq Named(r, Len(events[r]), ops) \cup AtWork(r, ops)

\* The values of a node, the views of a run, the sets of gate ids.
Values == {NoView} \cup {w.val : w \in Writes}
Views  == [Nodes -> Values]
Marks  == SUBSET {w.id : w \in Writes}
GateSets == [open : Marks, resolved : Marks, rejected : Marks]

\* Types, and the bounds of the offsets: no instance, and no query, is ahead
\* of the log.
TraceTypes ==
    /\ events \in [Runs -> Seq(Writes)]
    /\ views \in [Facades -> [Runs -> Views]]
    /\ gates \in [Facades -> [Runs -> GateSets]]
    /\ merged \in [Facades -> [Runs -> Nat]]
    /\ at \in [Writes -> {"unsent", "signal", "append", "answered"}]
    /\ \A f \in Facades, r \in Runs : merged[f][r] <= Len(events[r])
    /\ \A q \in DOMAIN load : /\ q \in Queries
                              /\ load[q] \in [busy : BOOLEAN, after : Nat, least : Nat]
                              /\ load[q].after <= load[q].least
                              /\ load[q].least <= Len(events[q.r])

\* Every node of every instance has an explained value, unless a write of the
\* run failed half way, or a query of the instance went on from an offset
\* that another one moved.
ViewsExplained ==
    \A f \in Facades, r \in Runs, n \in Nodes :
        r \notin torn /\ <<f, r>> \notin raced /\ InOrder(r) /\ OpenedOnce(r)
        => Explained(views[f][r][n], r, n, merged[f][r])

\* The same of the human gates.
GatesExplained ==
    \A f \in Facades, r \in Runs :
        r \notin torn /\ <<f, r>> \notin raced =>
            /\ ShownGates(gates[f][r].open, r, merged[f][r], {"gate", "approval"})
            /\ ShownGates(gates[f][r].resolved, r, merged[f][r], {"approval"})

TraceInv == TraceTypes /\ ViewsExplained /\ GatesExplained

(* Merging takes the events one by one: what holds of the registry, and    *)
(* goes on to hold with each event, holds of the merged registry.          *)
LEMMA ViewsMergeStepwise ==
  ASSUME NEW view \in Views, NEW evs \in Seq(Writes), NEW U, <<view, 0>> \in U,
         \A n \in 1..Len(evs), v \in Views :
             <<v, n - 1>> \in U => <<MergeView(v, evs[n]), n>> \in U
  PROVE  <<MergeViews(view, evs), Len(evs)>> \in U /\ MergeViews(view, evs) \in Views
<1> DEFINE N == Len(evs)
           step == [x \in Views \X (1..N) |-> MergeView(x[1], evs[x[2]])]
           Eq(f) == f = [n \in 0..N |-> IF n = 0 THEN view ELSE MergeView(f[n - 1], evs[n])]
<1>1. N \in Nat /\ \A n \in 1..N : evs[n] \in Writes
  OBVIOUS
<1>2. ASSUME NEW v \in Views, NEW n \in 1..N PROVE MergeView(v, evs[n]) \in Views
  <2>1. evs[n].val \in Values
    BY <1>1, Zenon DEF Values
  <2> QED
    BY <2>1, Zenon DEF MergeView, Views
<1>3. step \in StepsOf(Views, N)
  BY <1>2, Zenon DEF StepsOf
<1>4. PICK g : Follows(g, Views, view, N, step)
  <2> HIDE DEF step, N
  <2> QED
    BY <1>1, <1>3, BoundedRecursion, Zenon
<1>5. g \in [0..N -> Views] /\ g[0] = view
  BY <1>4, Zenon DEF Follows
<1>6. ASSUME NEW n \in 1..N PROVE g[n] = MergeView(g[n - 1], evs[n])
  <2>1. n - 1 \in 0..N
    BY <1>1
  <2>2. g[n - 1] \in Views
    BY <1>5, <2>1, Zenon
  <2>3. g[n] = step[<<g[n - 1], n>>]
    <3> HIDE DEF step
    <3> QED
      BY <1>4, Zenon DEF Follows
  <2> QED
    BY <2>2, <2>3, Zenon
<1>7. Eq(g)
  <2>1. \A n \in 0..N : g[n] = IF n = 0 THEN view ELSE MergeView(g[n - 1], evs[n])
    BY <1>1, <1>5, <1>6
  <2>2. g = [n \in 0..N |-> g[n]]
    BY <1>5, Zenon
  <2> QED
    BY <2>1, <2>2, Zenon
<1> DEFINE f == CHOOSE x : Eq(x)
<1>8. MergeViews(view, evs) = f[N]
  BY Zenon DEF MergeViews
<1>9. Eq(f)
  <2> HIDE DEF Eq
  <2> QED
    BY <1>7, Zenon
<1>10. f[0] = view /\ \A n \in 1..N : f[n] = MergeView(f[n - 1], evs[n])
  <2> HIDE DEF f
  <2>1. \A n \in 0..N : f[n] = IF n = 0 THEN view ELSE MergeView(f[n - 1], evs[n])
    BY <1>9, Zenon
  <2>2. 0 \in 0..N /\ \A n \in 1..N : n \in 0..N /\ n # 0
    BY <1>1
  <2> QED
    BY <2>1, <2>2, Zenon
<1> DEFINE S == {n \in 0..N : f[n] \in Views /\ <<f[n], n>> \in U}
<1> HIDE DEF f, Eq, step
<1>11. 0 \in S
  BY <1>1, <1>10
<1>12. ASSUME NEW n \in 0..(N - 1), n \in S PROVE n + 1 \in S
  <2>1. n + 1 \in 1..N /\ (n + 1) - 1 = n
    BY <1>1
  <2>2. f[n + 1] = MergeView(f[n], evs[n + 1])
    BY <1>10, <2>1, Zenon
  <2>3. f[n + 1] \in Views
    BY <1>2, <1>12, <2>1, <2>2, Zenon
  <2>4. <<f[n + 1], n + 1>> \in U
    BY <1>12, <2>1, <2>2, Zenon
  <2> QED
    BY <2>1, <2>3, <2>4
<1>13. 0..N \subseteq S
  <2> HIDE DEF S, N
  <2> QED
    BY <1>1, <1>11, <1>12, BoundedInduction, Zenon
<1> QED
  BY <1>1, <1>8, <1>13
(* The same for the gates of a run.                                        *)
LEMMA GatesMergeStepwise ==
  ASSUME NEW gate \in GateSets, NEW evs \in Seq(Writes), NEW U, <<gate, 0>> \in U,
         \A n \in 1..Len(evs), v \in GateSets :
             <<v, n - 1>> \in U => <<MergeGate(v, evs[n]), n>> \in U
  PROVE  <<MergeGates(gate, evs), Len(evs)>> \in U /\ MergeGates(gate, evs) \in GateSets
<1> DEFINE N == Len(evs)
           step == [x \in GateSets \X (1..N) |-> MergeGate(x[1], evs[x[2]])]
           Eq(f) == f = [n \in 0..N |-> IF n = 0 THEN gate ELSE MergeGate(f[n - 1], evs[n])]
<1>1. N \in Nat /\ \A n \in 1..N : evs[n] \in Writes
  OBVIOUS
<1>2. ASSUME NEW v \in GateSets, NEW n \in 1..N PROVE MergeGate(v, evs[n]) \in GateSets
  <2>1. {evs[n].id} \in Marks
    BY <1>1, Zenon DEF Marks
  <2> QED
    BY <2>1, Zenon DEF MergeGate, GateSets, Marks
<1>3. step \in StepsOf(GateSets, N)
  BY <1>2, Zenon DEF StepsOf
<1>4. PICK g : Follows(g, GateSets, gate, N, step)
  <2> HIDE DEF step, N
  <2> QED
    BY <1>1, <1>3, BoundedRecursion, Zenon
<1>5. g \in [0..N -> GateSets] /\ g[0] = gate
  BY <1>4, Zenon DEF Follows
<1>6. ASSUME NEW n \in 1..N PROVE g[n] = MergeGate(g[n - 1], evs[n])
  <2>1. n - 1 \in 0..N
    BY <1>1
  <2>2. g[n - 1] \in GateSets
    BY <1>5, <2>1, Zenon
  <2>3. g[n] = step[<<g[n - 1], n>>]
    <3> HIDE DEF step
    <3> QED
      BY <1>4, Zenon DEF Follows
  <2> QED
    BY <2>2, <2>3, Zenon
<1>7. Eq(g)
  <2>1. \A n \in 0..N : g[n] = IF n = 0 THEN gate ELSE MergeGate(g[n - 1], evs[n])
    BY <1>1, <1>5, <1>6
  <2>2. g = [n \in 0..N |-> g[n]]
    BY <1>5, Zenon
  <2> QED
    BY <2>1, <2>2, Zenon
<1> DEFINE f == CHOOSE x : Eq(x)
<1>8. MergeGates(gate, evs) = f[N]
  BY Zenon DEF MergeGates
<1>9. Eq(f)
  <2> HIDE DEF Eq
  <2> QED
    BY <1>7, Zenon
<1>10. f[0] = gate /\ \A n \in 1..N : f[n] = MergeGate(f[n - 1], evs[n])
  <2> HIDE DEF f
  <2>1. \A n \in 0..N : f[n] = IF n = 0 THEN gate ELSE MergeGate(f[n - 1], evs[n])
    BY <1>9, Zenon
  <2>2. 0 \in 0..N /\ \A n \in 1..N : n \in 0..N /\ n # 0
    BY <1>1
  <2> QED
    BY <2>1, <2>2, Zenon
<1> DEFINE S == {n \in 0..N : f[n] \in GateSets /\ <<f[n], n>> \in U}
<1> HIDE DEF f, Eq, step
<1>11. 0 \in S
  BY <1>1, <1>10
<1>12. ASSUME NEW n \in 0..(N - 1), n \in S PROVE n + 1 \in S
  <2>1. n + 1 \in 1..N /\ (n + 1) - 1 = n
    BY <1>1
  <2>2. f[n + 1] = MergeGate(f[n], evs[n + 1])
    BY <1>10, <2>1, Zenon
  <2>3. f[n + 1] \in GateSets
    BY <1>2, <1>12, <2>1, <2>2, Zenon
  <2>4. <<f[n + 1], n + 1>> \in U
    BY <1>12, <2>1, <2>2, Zenon
  <2> QED
    BY <2>1, <2>3, <2>4
<1>13. 0..N \subseteq S
  <2> HIDE DEF S, N
  <2> QED
    BY <1>1, <1>11, <1>12, BoundedInduction, Zenon
<1> QED
  BY <1>1, <1>8, <1>13

(* What explains a value after m events explains it after fewer: the event *)
(* it comes from is one of them or comes later.                            *)
LEMMA ExplainedEarlier ==
  ASSUME NEW v, NEW r \in Runs, NEW n, NEW m \in Nat, NEW a \in 0..m,
         Len(events[r]) \in Nat, m <= Len(events[r]), Explained(v, r, n, m)
  PROVE  Explained(v, r, n, a)
<1>1. CASE IsValue(v, r, n, m)
  <2>1. CASE v = NoView /\ \A k \in 1..m : ~Touches(r, k, n)
    BY <2>1 DEF Explained, IsValue
  <2>2. ASSUME NEW k \in 1..m, Touches(r, k, n), v = events[r][k].val,
               \A j \in (k + 1)..m : ~Touches(r, j, n)
        PROVE  Explained(v, r, n, a)
    <3>1. CASE k <= a
      <4>1. k \in 1..a /\ \A j \in (k + 1)..a : ~Touches(r, j, n)
        BY <2>2, <3>1
      <4> QED
        BY <2>2, <4>1, Zenon DEF Explained, IsValue
    <3>2. CASE k > a
      <4>1. k \in (a + 1)..Len(events[r])
        BY <3>2
      <4> QED
        BY <2>2, <4>1, Zenon DEF Explained
    <3> QED
      BY <3>1, <3>2
  <2> QED
    BY <1>1, <2>1, <2>2, Zenon DEF IsValue
<1>2. CASE \E w \in Writes : Pending(w, r) /\ w.op \in {"open", "mark"} /\ w.id = n /\ w.val = v
  BY <1>2, Zenon DEF Explained
<1>3. ASSUME NEW k \in (m + 1)..Len(events[r]), Touches(r, k, n), v = events[r][k].val
      PROVE  Explained(v, r, n, a)
  <2>1. k \in (a + 1)..Len(events[r])
    BY <1>3
  <2> QED
    BY <1>3, <2>1, Zenon DEF Explained
<1> QED
  BY <1>1, <1>2, <1>3, Zenon DEF Explained

(* Merging the next event keeps every value explained, where the changes   *)
(* of a node come after its one opening: a change finds the node, and an   *)
(* opening that finds it found a later value of it.                        *)
LEMMA ExplainedStep ==
  ASSUME NEW r \in Runs, NEW n \in Nodes, events[r] \in Seq(Writes),
         InOrder(r), OpenedOnce(r), NEW view \in Views,
         NEW k \in 1..Len(events[r]), Explained(view[n], r, n, k - 1)
  PROVE  Explained(MergeView(view, events[r][k])[n], r, n, k)
<1> DEFINE e == events[r][k]
           new == MergeView(view, e)[n]
<1> SUFFICES Explained(new, r, n, k)
  BY Zenon
<1>1. /\ Len(events[r]) \in Nat /\ \A j \in 1..Len(events[r]) : events[r][j] \in Writes
      /\ DOMAIN events[r] = 1..Len(events[r])
  OBVIOUS
<1>2. \A j \in 1..Len(events[r]) : Touches(r, j, n) => events[r][j].val # NoView
  BY <1>1, TraceAssumption, Zenon DEF Touches
<1>3. CASE ~Touches(r, k, n)
  <2>1. new = view[n]
    BY <1>3, Zenon DEF Touches, MergeView, Views
  <2>2. CASE view[n] = NoView /\ \A j \in 1..(k - 1) : ~Touches(r, j, n)
    <3>1. \A j \in 1..k : ~Touches(r, j, n)
      BY <1>3, <2>2
    <3> QED
      BY <2>1, <2>2, <3>1, Zenon DEF Explained, IsValue
  <2>3. ASSUME NEW i \in 1..(k - 1), Touches(r, i, n), view[n] = events[r][i].val,
               \A j \in (i + 1)..(k - 1) : ~Touches(r, j, n)
        PROVE  Explained(new, r, n, k)
    <3>1. i \in 1..k /\ \A j \in (i + 1)..k : ~Touches(r, j, n)
      BY <1>3, <2>3
    <3> HIDE DEF new
    <3> QED
      BY <2>1, <2>3, <3>1, Zenon DEF Explained, IsValue
  <2>4. ASSUME NEW i \in ((k - 1) + 1)..Len(events[r]), Touches(r, i, n),
               view[n] = events[r][i].val
        PROVE  Explained(new, r, n, k)
    <3>1. i \in (k + 1)..Len(events[r])
      BY <1>3, <2>4
    <3> HIDE DEF new
    <3> QED
      BY <2>1, <2>4, <3>1, Zenon DEF Explained
  <2> HIDE DEF new
  <2> QED
    BY <2>1, <2>2, <2>3, <2>4, Zenon DEF Explained, IsValue
<1>4. CASE Touches(r, k, n) /\ e.op = "mark"
  <2>1. PICK i \in 1..k : events[r][i].op = "open" /\ events[r][i].id = n
    BY <1>1, <1>4, Zenon DEF InOrder, Touches
  <2>2. i \in 1..(k - 1) /\ Touches(r, i, n)
    BY <1>4, <2>1 DEF Touches
  <2>3. view[n] # NoView
    <3> SUFFICES ASSUME view[n] = NoView PROVE FALSE
      BY Zenon
    <3>1. ~IsValue(view[n], r, n, k - 1)
      BY <1>1, <1>2, <2>2 DEF IsValue
    <3>2. \A w \in Writes : w.op \in {"open", "mark"} => w.val # view[n]
      BY TraceAssumption, Zenon
    <3> QED
      BY <1>1, <1>2, <3>1, <3>2 DEF Explained
  <2>4. new = e.val
    BY <1>4, <2>3, Zenon DEF Touches, MergeView, Views
  <2>5. k \in 1..k /\ \A j \in (k + 1)..k : ~Touches(r, j, n)
    OBVIOUS
  <2> HIDE DEF new
  <2> QED
    BY <1>4, <2>4, <2>5, Zenon DEF Explained, IsValue
<1>5. CASE Touches(r, k, n) /\ e.op = "open"
  <2>1. \A j \in 1..(k - 1) : ~Touches(r, j, n)
    <3> SUFFICES ASSUME NEW j \in 1..(k - 1), Touches(r, j, n) PROVE FALSE
      BY Zenon
    <3>1. PICK i \in 1..j : events[r][i].op = "open" /\ events[r][i].id = n
      BY <1>1 DEF InOrder, Touches
    <3>2. i \in DOMAIN events[r] /\ k \in DOMAIN events[r] /\ i # k
      BY <1>1
    <3> QED
      BY <1>5, <3>1, <3>2, Zenon DEF OpenedOnce, Touches
  <2>2. k \in 1..k /\ \A j \in (k + 1)..k : ~Touches(r, j, n)
    OBVIOUS
  <2>3. CASE view[n] = NoView
    <3>1. new = e.val
      BY <1>5, <2>3, Zenon DEF Touches, MergeView, Views
    <3> HIDE DEF new
    <3> QED
      BY <1>5, <2>2, <3>1, Zenon DEF Explained, IsValue
  <2>4. CASE view[n] # NoView
    <3>1. new = view[n]
      BY <1>5, <2>4, Zenon DEF Touches, MergeView, Views
    <3> HIDE DEF new
    <3>2. ~IsValue(view[n], r, n, k - 1)
      BY <2>1, <2>4, Zenon DEF IsValue
    <3>3. ASSUME NEW i \in ((k - 1) + 1)..Len(events[r]), Touches(r, i, n),
                 view[n] = events[r][i].val
          PROVE  Explained(new, r, n, k)
      <4>1. CASE i = k
        BY <1>5, <2>2, <3>1, <3>3, <4>1, Zenon DEF Explained, IsValue
      <4>2. CASE i \in (k + 1)..Len(events[r])
        BY <3>1, <3>3, <4>2, Zenon DEF Explained
      <4> QED
        BY <4>1, <4>2
    <3> QED
      BY <3>1, <3>2, <3>3, Zenon DEF Explained
  <2> QED
    BY <2>3, <2>4, Zenon
<1> QED
  BY <1>3, <1>4, <1>5, Zenon DEF Touches

(* The events from a + 1 to u of a run.                                    *)
LEMMA Fresh ==
  ASSUME NEW r \in Runs, events[r] \in Seq(Writes), NEW u \in 0..Len(events[r]), NEW a \in 0..u
  PROVE  LET fresh == SubSeq(events[r], a + 1, u) IN
         /\ fresh \in Seq(Writes) /\ Len(fresh) = u - a
         /\ \A n \in 1..(u - a) : fresh[n] = events[r][a + n]
  OBVIOUS

(* A query merges what explains the values, from an offset that the        *)
(* instance has merged already.                                            *)
LEMMA ExplainedMerge ==
  ASSUME NEW r \in Runs, events[r] \in Seq(Writes), InOrder(r), OpenedOnce(r),
         NEW view \in Views, NEW m \in 0..Len(events[r]), NEW u \in 0..Len(events[r]),
         NEW a \in 0..u, a <= m, \A n \in Nodes : Explained(view[n], r, n, m)
  PROVE  \A n \in Nodes :
             Explained(MergeViews(view, SubSeq(events[r], a + 1, u))[n], r, n, u)
<1> DEFINE fresh == SubSeq(events[r], a + 1, u)
           U == {x \in Views \X (0..(u - a)) :
                   \A n \in Nodes : Explained(x[1][n], r, n, a + x[2])}
<1>1. Len(events[r]) \in Nat
  OBVIOUS
<1>2. /\ fresh \in Seq(Writes) /\ Len(fresh) = u - a
      /\ \A n \in 1..(u - a) : fresh[n] = events[r][a + n]
  BY Fresh, Zenon
<1> HIDE DEF fresh
<1>3. <<view, 0>> \in U
  <2>1. \A n \in Nodes : Explained(view[n], r, n, a)
    BY <1>1, ExplainedEarlier
  <2>2. a + 0 = a /\ 0 \in 0..(u - a)
    BY <1>1
  <2> QED
    BY <2>1, <2>2, Zenon
<1>4. ASSUME NEW k \in 1..Len(fresh), NEW v \in Views, <<v, k - 1>> \in U
      PROVE  <<MergeView(v, fresh[k]), k>> \in U
  <2>1. k \in 1..(u - a) /\ a + k \in 1..Len(events[r]) /\ a + (k - 1) = (a + k) - 1
    BY <1>1, <1>2
  <2>2. \A n \in Nodes : Explained(v[n], r, n, (a + k) - 1)
    BY <1>4, <2>1, Zenon
  <2>3. \A n \in Nodes : Explained(MergeView(v, events[r][a + k])[n], r, n, a + k)
    BY <2>1, <2>2, ExplainedStep, Zenon
  <2>4. fresh[k] = events[r][a + k] /\ fresh[k] \in Writes
    BY <1>2, <2>1
  <2>5. MergeView(v, fresh[k]) \in Views
    BY <2>4, Zenon DEF MergeView, Views, Values
  <2> QED
    BY <2>1, <2>3, <2>4, <2>5
<1>5. <<MergeViews(view, fresh), Len(fresh)>> \in U
  <2> HIDE DEF U
  <2> QED
    BY <1>2, <1>3, <1>4, ViewsMergeStepwise, Zenon
<1>6. a + Len(fresh) = u
  BY <1>1, <1>2
<1> QED
  BY <1>5, <1>6, Zenon DEF fresh

(* The same for the gates: the merged events add the ids they name.        *)
LEMMA ShownMerge ==
  ASSUME NEW r \in Runs, events[r] \in Seq(Writes),
         NEW gate \in GateSets, NEW m \in 0..Len(events[r]), NEW u \in 0..Len(events[r]),
         NEW a \in 0..u, a <= m,
         ShownGates(gate.open, r, m, {"gate", "approval"}),
         ShownGates(gate.resolved, r, m, {"approval"})
  PROVE  LET new == MergeGates(gate, SubSeq(events[r], a + 1, u)) IN
         /\ ShownGates(new.open, r, u, {"gate", "approval"})
         /\ ShownGates(new.resolved, r, u, {"approval"})
<1> DEFINE fresh == SubSeq(events[r], a + 1, u)
           Good(g, k) == /\ ShownGates(g.open, r, k, {"gate", "approval"})
                         /\ ShownGates(g.resolved, r, k, {"approval"})
           U == {x \in GateSets \X (0..(u - a)) : Good(x[1], a + x[2])}
<1>1. Len(events[r]) \in Nat
  OBVIOUS
<1>2. /\ fresh \in Seq(Writes) /\ Len(fresh) = u - a
      /\ \A n \in 1..(u - a) : fresh[n] = events[r][a + n]
  BY Fresh, Zenon
<1> HIDE DEF fresh
<1>3. <<gate, 0>> \in U
  <2>1. \A ops : Named(r, a, ops) \subseteq Named(r, m, ops)
    BY <1>1 DEF Named
  <2>2. Good(gate, a)
    BY <2>1, Zenon DEF ShownGates
  <2>3. a + 0 = a /\ 0 \in 0..(u - a)
    BY <1>1
  <2> HIDE DEF Good
  <2> QED
    BY <2>2, <2>3, Zenon
<1>4. ASSUME NEW k \in 1..Len(fresh), NEW g \in GateSets, <<g, k - 1>> \in U
      PROVE  <<MergeGate(g, fresh[k]), k>> \in U
  <2> DEFINE i == a + k
             e == events[r][i]
  <2>1. k \in 1..(u - a) /\ i \in 1..Len(events[r]) /\ a + (k - 1) = i - 1
    BY <1>1, <1>2
  <2>2. Good(g, i - 1)
    BY <1>4, <2>1, Zenon
  <2>3. fresh[k] = e /\ e \in Writes
    BY <1>2, <2>1
  <2>4. MergeGate(g, e) \in GateSets
    BY <2>3, Zenon DEF MergeGate, GateSets, Marks
  <2> HIDE DEF i
  <2>5. ASSUME NEW ops
        PROVE  Named(r, i, ops) = Named(r, i - 1, ops) \cup (IF e.op \in ops THEN {e.id} ELSE {})
    <3>1. \A j \in 1..i : j = i \/ j \in 1..(i - 1)
      BY <2>1
    <3>2. \A j \in 1..(i - 1) : j \in 1..i
      BY <2>1
    <3>3. i \in 1..i
      BY <2>1
    <3> QED
      BY <3>1, <3>2, <3>3, Zenon DEF Named
  <2>6. ASSUME NEW ops, e.op \in ops PROVE e.id \in Named(r, Len(events[r]), ops)
    BY <1>1, <2>1, <2>6, Zenon DEF Named
  <2> HIDE DEF e
  <2>7. Good(MergeGate(g, e), i)
    <3>1. CASE e.op = "gate"
      BY <2>2, <2>5, <2>6, <3>1 DEF MergeGate, GateSets, ShownGates
    <3>2. CASE e.op = "approval"
      <4>1. /\ MergeGate(g, e).open = g.open \cup {e.id}
            /\ MergeGate(g, e).resolved = g.resolved \cup {e.id}
        BY <3>2, Zenon DEF MergeGate, GateSets
      <4>2. ShownGates(g.open \cup {e.id}, r, i, {"gate", "approval"})
        BY <2>2, <2>5, <2>6, <3>2 DEF ShownGates
      <4>3. ShownGates(g.resolved \cup {e.id}, r, i, {"approval"})
        BY <2>2, <2>5, <2>6, <3>2 DEF ShownGates
      <4> QED
        BY <4>1, <4>2, <4>3, Zenon
    <3>3. CASE e.op \notin {"gate", "approval"}
      BY <2>2, <2>5, <2>6, <3>3 DEF MergeGate, GateSets, ShownGates
    <3> QED
      BY <3>1, <3>2, <3>3, Zenon
  <2> HIDE DEF Good
  <2> QED
    BY <2>1, <2>3, <2>4, <2>7 DEF i
<1>5. <<MergeGates(gate, fresh), Len(fresh)>> \in U
  <2> HIDE DEF U
  <2> QED
    BY <1>2, <1>3, <1>4, GatesMergeStepwise, Zenon
<1>6. a + Len(fresh) = u
  BY <1>1, <1>2
<1> QED
  BY <1>5, <1>6, Zenon DEF fresh

(* What a step other than a merge does to a run: its events stay, and a    *)
(* write at work goes on, or becomes an event, or the run is torn; and the *)
(* registries of an instance start from what they were, or from nothing,   *)
(* and take up writes that go on.                                          *)
RunGrows(r) ==
  /\ events'[r] \in Seq(Writes)
  /\ Len(events[r]) <= Len(events'[r])
  /\ \A k \in 1..Len(events[r]) : events'[r][k] = events[r][k]
  /\ \A w \in Writes : Pending(w, r) =>
       Pending(w, r)' \/ \E k \in (Len(events[r]) + 1)..Len(events'[r]) : events'[r][k] = w

ViewsFrom(f, r, view) ==
  \A n \in Nodes : \/ views'[f][r][n] = view[n]
                   \/ \E w \in Writes : /\ Pending(w, r)' /\ w.op \in {"open", "mark"}
                                        /\ w.id = n /\ w.val = views'[f][r][n]

GatesFrom(f, r, gate) ==
  /\ gate.open \subseteq gates'[f][r].open
  /\ gates'[f][r].open \subseteq gate.open \cup AtWork(r, {"gate", "approval"})'
  /\ gate.resolved \subseteq gates'[f][r].resolved
  /\ gates'[f][r].resolved \subseteq gate.resolved \cup AtWork(r, {"approval"})'

RegistryStep(f, r) ==
  \/ /\ ViewsFrom(f, r, views[f][r]) /\ GatesFrom(f, r, gates[f][r])
     /\ merged'[f][r] = merged[f][r]
     /\ <<f, r>> \in raced => <<f, r>> \in raced'
  \/ /\ ViewsFrom(f, r, [n \in Nodes |-> NoView]) /\ GatesFrom(f, r, NoGates)
     /\ merged'[f][r] = 0

(* A log that grew in order was in order, and opened no node twice.        *)
LEMMA OrderBefore ==
  ASSUME NEW r \in Runs, events[r] \in Seq(Writes), RunGrows(r)
  PROVE  (InOrder(r)' => InOrder(r)) /\ (OpenedOnce(r)' => OpenedOnce(r))
<1>1. /\ DOMAIN events[r] = 1..Len(events[r]) /\ DOMAIN events'[r] = 1..Len(events'[r])
      /\ Len(events[r]) \in Nat /\ Len(events'[r]) \in Nat
  BY DEF RunGrows
<1>2. \A k \in DOMAIN events[r] : k \in DOMAIN events'[r] /\ events'[r][k] = events[r][k]
  BY <1>1 DEF RunGrows
<1>3. ASSUME InOrder(r)', NEW i \in DOMAIN events[r], events[r][i].op = "mark"
      PROVE  \E j \in 1..i : events[r][j].op = "open" /\ events[r][j].id = events[r][i].id
  <2>1. PICK j \in 1..i : events'[r][j].op = "open" /\ events'[r][j].id = events'[r][i].id
    BY <1>2, <1>3, Zenon DEF InOrder
  <2>2. j \in DOMAIN events[r]
    BY <1>1
  <2> QED
    BY <1>2, <2>1, <2>2, Zenon
<1>4. ASSUME OpenedOnce(r)' PROVE OpenedOnce(r)
  BY <1>2, <1>4, Zenon DEF OpenedOnce
<1> QED
  BY <1>3, <1>4, Zenon DEF InOrder

(* What explained a value explains it when the run has grown.              *)
LEMMA ExplainedGrows ==
  ASSUME NEW r \in Runs, NEW n, NEW v, events[r] \in Seq(Writes), RunGrows(r),
         NEW m \in 0..Len(events[r]), Explained(v, r, n, m)
  PROVE  Explained(v, r, n, m)'
<1>1. Len(events[r]) \in Nat /\ Len(events'[r]) \in Nat
  BY DEF RunGrows
<1>2. \A k \in 1..Len(events[r]) : /\ k \in 1..Len(events'[r]) /\ events'[r][k] = events[r][k]
                                   /\ Touches(r, k, n)' <=> Touches(r, k, n)
  BY <1>1 DEF RunGrows, Touches
<1>3. CASE v = NoView /\ \A k \in 1..m : ~Touches(r, k, n)
  <2>1. \A k \in 1..m : ~Touches(r, k, n)'
    BY <1>1, <1>2, <1>3
  <2> QED
    BY <1>3, <2>1, Zenon DEF Explained, IsValue
<1>4. ASSUME NEW k \in 1..m, Touches(r, k, n), v = events[r][k].val,
             \A j \in (k + 1)..m : ~Touches(r, j, n)
      PROVE  Explained(v, r, n, m)'
  <2>1. Touches(r, k, n)' /\ v = events'[r][k].val
    BY <1>1, <1>2, <1>4
  <2>2. \A j \in (k + 1)..m : ~Touches(r, j, n)'
    BY <1>1, <1>2, <1>4
  <2> QED
    BY <2>1, <2>2, Zenon DEF Explained, IsValue
<1>5. ASSUME NEW w \in Writes, Pending(w, r), w.op \in {"open", "mark"}, w.id = n, w.val = v
      PROVE  Explained(v, r, n, m)'
  <2>1. CASE Pending(w, r)'
    BY <1>5, <2>1, Zenon DEF Explained
  <2>2. ASSUME NEW k \in (Len(events[r]) + 1)..Len(events'[r]), events'[r][k] = w
        PROVE  Explained(v, r, n, m)'
    <3>1. k \in (m + 1)..Len(events'[r]) /\ Touches(r, k, n)' /\ v = events'[r][k].val
      BY <1>1, <1>5, <2>2 DEF Touches
    <3> QED
      BY <3>1, Zenon DEF Explained
  <2> QED
    BY <1>5, <2>1, <2>2, Zenon DEF RunGrows
<1>6. ASSUME NEW k \in (m + 1)..Len(events[r]), Touches(r, k, n), v = events[r][k].val
      PROVE  Explained(v, r, n, m)'
  <2>1. k \in (m + 1)..Len(events'[r]) /\ Touches(r, k, n)' /\ v = events'[r][k].val
    BY <1>1, <1>2, <1>6
  <2> QED
    BY <2>1, Zenon DEF Explained
<1> QED
  BY <1>3, <1>4, <1>5, <1>6, Zenon DEF Explained, IsValue

(* What showed the gates shows them when the run has grown.                *)
LEMMA ShownGrows ==
  ASSUME NEW r \in Runs, NEW S, NEW T, NEW ops, events[r] \in Seq(Writes), RunGrows(r),
         NEW m \in 0..Len(events[r]), ShownGates(S, r, m, ops),
         S \subseteq T, T \subseteq S \cup AtWork(r, ops)'
  PROVE  ShownGates(T, r, m, ops)'
<1>1. Len(events[r]) \in Nat /\ Len(events'[r]) \in Nat
  BY DEF RunGrows
<1>2. \A k \in 1..Len(events[r]) : k \in 1..Len(events'[r]) /\ events'[r][k] = events[r][k]
  BY <1>1 DEF RunGrows
<1>3. Named(r, m, ops)' = Named(r, m, ops)
  BY <1>1, <1>2 DEF Named
<1>4. Named(r, Len(events[r]), ops) \subseteq Named(r, Len(events[r]), ops)'
  BY <1>1, <1>2, Zenon DEF Named
<1>5. AtWork(r, ops) \subseteq Named(r, Len(events[r]), ops)' \cup AtWork(r, ops)'
  <2> SUFFICES ASSUME NEW w \in Writes, Pending(w, r), w.op \in ops,
                      w.id \notin AtWork(r, ops)'
               PROVE  w.id \in Named(r, Len(events[r]), ops)'
    BY Zenon DEF AtWork
  <2>1. ~Pending(w, r)'
    BY Zenon DEF AtWork
  <2>2. PICK k \in (Len(events[r]) + 1)..Len(events'[r]) : events'[r][k] = w
    BY <2>1, Zenon DEF RunGrows
  <2> QED
    BY <1>1, <2>2 DEF Named
<1> QED
  BY <1>3, <1>4, <1>5, Zenon DEF ShownGates

(* Such steps keep views and gates explained.                              *)
LEMMA RegistryStepKeeps ==
  ASSUME TraceInv, TraceTypes', torn \subseteq torn',
         \A r \in Runs : r \in torn' \/ RunGrows(r),
         \A f \in Facades, r \in Runs : RegistryStep(f, r)
  PROVE  ViewsExplained' /\ GatesExplained'
<1>1. ASSUME NEW f \in Facades, NEW r \in Runs, r \notin torn', <<f, r>> \notin raced'
      PROVE  /\ RunGrows(r) /\ events[r] \in Seq(Writes) /\ r \notin torn
             /\ merged[f][r] \in 0..Len(events[r]) /\ 0 \in 0..Len(events[r])
  BY <1>1 DEF TraceInv, TraceTypes
<1>2. ASSUME NEW f \in Facades, NEW r \in Runs, NEW n \in Nodes,
             r \notin torn', <<f, r>> \notin raced', InOrder(r)', OpenedOnce(r)'
      PROVE  Explained(views[f][r][n], r, n, merged[f][r])'
  <2> SUFFICES ASSUME NEW new, NEW m, new = views'[f][r][n], m = merged'[f][r]
               PROVE  Explained(new, r, n, m)'
    BY Zenon DEF Explained, IsValue
  <2>1. /\ RunGrows(r) /\ events[r] \in Seq(Writes) /\ r \notin torn
        /\ merged[f][r] \in 0..Len(events[r]) /\ 0 \in 0..Len(events[r])
    BY <1>1, <1>2, Zenon
  <2>2. ASSUME NEW w \in Writes, Pending(w, r)', w.op \in {"open", "mark"}, w.id = n, w.val = new
        PROVE  Explained(new, r, n, m)'
    BY <2>2, Zenon DEF Explained
  <2>3. CASE /\ new = views[f][r][n] /\ m = merged[f][r]
             /\ <<f, r>> \in raced => <<f, r>> \in raced'
    <3>1. InOrder(r) /\ OpenedOnce(r)
      BY <1>2, <2>1, OrderBefore, Zenon
    <3>2. Explained(new, r, n, m)
      BY <1>2, <2>1, <2>3, <3>1, Zenon DEF TraceInv, ViewsExplained
    <3> QED
      BY <2>1, <2>3, <3>2, ExplainedGrows, Zenon
  <2>4. CASE new = NoView /\ m = 0
    BY <2>4 DEF Explained, IsValue
  <2>5. RegistryStep(f, r)
    BY Zenon
  <2> QED
    BY <1>2, <2>2, <2>3, <2>4, <2>5, Zenon DEF RegistryStep, ViewsFrom
<1>3. ASSUME NEW f \in Facades, NEW r \in Runs, r \notin torn', <<f, r>> \notin raced'
      PROVE  /\ ShownGates(gates[f][r].open, r, merged[f][r], {"gate", "approval"})'
             /\ ShownGates(gates[f][r].resolved, r, merged[f][r], {"approval"})'
  <2> SUFFICES ASSUME NEW open, NEW resolved, NEW m, open = gates'[f][r].open,
                      resolved = gates'[f][r].resolved, m = merged'[f][r]
               PROVE  /\ ShownGates(open, r, m, {"gate", "approval"})'
                      /\ ShownGates(resolved, r, m, {"approval"})'
    BY DEF ShownGates, Named
  <2>1. /\ RunGrows(r) /\ events[r] \in Seq(Writes) /\ r \notin torn
        /\ merged[f][r] \in 0..Len(events[r]) /\ 0 \in 0..Len(events[r])
    BY <1>1, <1>3, Zenon
  <2>2. CASE /\ GatesFrom(f, r, gates[f][r]) /\ m = merged[f][r]
             /\ <<f, r>> \in raced => <<f, r>> \in raced'
    <3>1. /\ ShownGates(gates[f][r].open, r, m, {"gate", "approval"})
          /\ ShownGates(gates[f][r].resolved, r, m, {"approval"})
      BY <1>3, <2>1, <2>2, Zenon DEF TraceInv, GatesExplained
    <3>2. ShownGates(open, r, m, {"gate", "approval"})'
      BY <2>1, <2>2, <3>1, ShownGrows, Zenon DEF GatesFrom
    <3>3. ShownGates(resolved, r, m, {"approval"})'
      BY <2>1, <2>2, <3>1, ShownGrows, Zenon DEF GatesFrom
    <3> QED
      BY <3>2, <3>3, Zenon
  <2>3. CASE GatesFrom(f, r, NoGates) /\ m = 0
    <3>1. \A ops : Named(r, 0, ops) = {}
      BY DEF Named
    <3>2. ShownGates({}, r, 0, {"gate", "approval"}) /\ ShownGates({}, r, 0, {"approval"})
      BY <3>1, Zenon DEF ShownGates
    <3>3. NoGates.open = {} /\ NoGates.resolved = {}
      BY Zenon DEF NoGates
    <3>4. ShownGates(open, r, m, {"gate", "approval"})'
      BY <2>1, <2>3, <3>2, <3>3, ShownGrows, Zenon DEF GatesFrom
    <3>5. ShownGates(resolved, r, m, {"approval"})'
      BY <2>1, <2>3, <3>2, <3>3, ShownGrows, Zenon DEF GatesFrom
    <3> QED
      BY <3>4, <3>5, Zenon
  <2>4. RegistryStep(f, r)
    BY Zenon
  <2> QED
    BY <2>2, <2>3, <2>4, Zenon DEF RegistryStep
<1> QED
  BY <1>2, <1>3, Zenon DEF ViewsExplained, GatesExplained

(* What the handlers of the writes have in common: the runs S are purged   *)
(* from the instance, and its registries take up the write if it goes on.  *)
TakesUp(w, ops) == w.op \in ops /\ at'[w] = "signal"

Handled(w, S, V, G) ==
  /\ UNCHANGED <<events, load, torn>>
  /\ merged' = [merged EXCEPT ![w.f] = Purge(S, @, 0)]
  /\ raced' = {x \in raced : x[1] # w.f \/ x[2] \notin S}
  /\ at[w] = "unsent"
  /\ at' = [at EXCEPT ![w] = "signal"] \/ at' = [at EXCEPT ![w] = "answered"]
  /\ views' = [views EXCEPT ![w.f] = V] /\ V \in [Runs -> Views]
  /\ \A r \in Runs, n \in Nodes :
       \/ V[r][n] = PurgedViews(w.f, S)[r][n]
       \/ TakesUp(w, {"open", "mark"}) /\ w.r = r /\ w.id = n /\ w.val = V[r][n]
  /\ gates' = [gates EXCEPT ![w.f] = G] /\ G \in [Runs -> GateSets]
  /\ \A r \in Runs :
       /\ PurgedGates(w.f, S)[r].open \subseteq G[r].open
       /\ PurgedGates(w.f, S)[r].resolved \subseteq G[r].resolved
       /\ \A i \in G[r].open : \/ i \in PurgedGates(w.f, S)[r].open
                               \/ TakesUp(w, {"gate", "approval"}) /\ w.r = r /\ w.id = i
       /\ \A i \in G[r].resolved : \/ i \in PurgedGates(w.f, S)[r].resolved
                                   \/ TakesUp(w, {"approval"}) /\ w.r = r /\ w.id = i

(* The purged registries are registries.                                   *)
LEMMA PurgedTyped ==
  ASSUME TraceTypes, NEW f \in Facades, NEW S
  PROVE  /\ PurgedViews(f, S) \in [Runs -> Views]
         /\ PurgedGates(f, S) \in [Runs -> GateSets]
<1>1. [n \in Nodes |-> NoView] \in Views
  BY Zenon DEF Views, Values
<1>2. NoGates \in GateSets
  BY Zenon DEF NoGates, GateSets, Marks
<1>3. views[f] \in [Runs -> Views] /\ gates[f] \in [Runs -> GateSets]
  BY Zenon DEF TraceTypes
<1> QED
  BY <1>1, <1>2, <1>3, Zenon DEF PurgedViews, PurgedGates, Purge

(* What the handlers have in common keeps the invariant.                   *)
LEMMA HandledKeeps ==
  ASSUME TraceInv, NEW w \in Writes, NEW S, NEW V, NEW G, Handled(w, S, V, G)
  PROVE  TraceInv'
<1>1. w.f \in Facades /\ w.r \in Runs
  BY TraceAssumption, Zenon
<1>2. TraceTypes /\ UNCHANGED <<events, load, torn>>
  BY Zenon DEF TraceInv, Handled
<1>3. /\ \A r \in Runs : merged'[w.f][r] = IF r \in S THEN 0 ELSE merged[w.f][r]
      /\ \A f \in Facades \ {w.f}, r \in Runs : merged'[f][r] = merged[f][r]
      /\ merged' \in [Facades -> [Runs -> Nat]]
  BY <1>1, <1>2 DEF TraceTypes, Handled, Purge
<1>4. TraceTypes'
  <2>1. views' \in [Facades -> [Runs -> Views]]
    BY <1>2, Zenon DEF TraceTypes, Handled
  <2>2. gates' \in [Facades -> [Runs -> GateSets]]
    BY <1>2, Zenon DEF TraceTypes, Handled
  <2>3. at' \in [Writes -> {"unsent", "signal", "append", "answered"}]
    <3>1. at \in [Writes -> {"unsent", "signal", "append", "answered"}]
      BY <1>2, Zenon DEF TraceTypes
    <3>2. CASE at' = [at EXCEPT ![w] = "signal"]
      BY <3>1, <3>2, Zenon
    <3>3. CASE at' = [at EXCEPT ![w] = "answered"]
      BY <3>1, <3>3, Zenon
    <3> QED
      BY <3>2, <3>3, Zenon DEF Handled
  <2>4. \A f \in Facades, r \in Runs : merged'[f][r] <= Len(events[r])
    <3> SUFFICES ASSUME NEW f \in Facades, NEW r \in Runs
                 PROVE  merged'[f][r] <= Len(events[r])
      BY Zenon
    <3>1. 0 <= Len(events[r]) /\ merged[f][r] <= Len(events[r])
      BY <1>2 DEF TraceTypes
    <3>2. merged'[f][r] \in {0, merged[f][r]}
      BY <1>3, Zenon
    <3> QED
      BY <3>1, <3>2, Zenon
  <2> QED
    BY <1>2, <1>3, <2>1, <2>2, <2>3, <2>4, Zenon DEF TraceTypes
<1>5. ASSUME NEW r \in Runs PROVE RunGrows(r)
  <2>1. \A x \in Writes : Pending(x, r) => Pending(x, r)'
    BY <1>2 DEF Handled, Pending, TraceTypes
  <2> QED
    BY <1>2, <2>1 DEF RunGrows, TraceTypes
<1>6. ASSUME NEW f \in Facades, NEW r \in Runs PROVE RegistryStep(f, r)
  <2>1. CASE f # w.f
    <3>1. views'[f] = views[f] /\ gates'[f] = gates[f]
      BY <1>2, <2>1, ZenonT(30) DEF Handled, TraceTypes
    <3>2. <<f, r>> \in raced => <<f, r>> \in raced'
      BY <2>1, Zenon DEF Handled
    <3> QED
      BY <1>3, <2>1, <3>1, <3>2, Zenon DEF RegistryStep, ViewsFrom, GatesFrom
  <2>2. CASE f = w.f
    <3>1. views'[f] = V /\ gates'[f] = G
      BY <1>1, <1>2, <2>2 DEF Handled, TraceTypes
    <3>2. \A ops : TakesUp(w, ops) /\ w.r = r => Pending(w, r)' /\ w.op \in ops
      BY Zenon DEF TakesUp, Pending
    <3>3. \A ops : TakesUp(w, ops) /\ w.r = r => w.id \in AtWork(r, ops)'
      BY <3>2, Zenon DEF AtWork
    <3>4. ViewsFrom(f, r, PurgedViews(f, S)[r])
      BY <2>2, <3>1, <3>2 DEF Handled, ViewsFrom
    <3>5. GatesFrom(f, r, PurgedGates(f, S)[r])
      BY <2>2, <3>1, <3>3 DEF Handled, GatesFrom
    <3>6. CASE r \in S
      <4>1. PurgedViews(f, S)[r] = [n \in Nodes |-> NoView] /\ PurgedGates(f, S)[r] = NoGates
        BY <3>6, Zenon DEF PurgedViews, PurgedGates, Purge
      <4> QED
        BY <1>3, <2>2, <3>4, <3>5, <3>6, <4>1, Zenon DEF RegistryStep
    <3>7. CASE r \notin S
      <4>1. PurgedViews(f, S)[r] = views[f][r] /\ PurgedGates(f, S)[r] = gates[f][r]
        BY <3>7, Zenon DEF PurgedViews, PurgedGates, Purge
      <4>2. <<f, r>> \in raced => <<f, r>> \in raced'
        BY <3>7, Zenon DEF Handled
      <4> QED
        BY <1>3, <2>2, <3>4, <3>5, <3>7, <4>1, <4>2, Zenon DEF RegistryStep
    <3> QED
      BY <3>6, <3>7, Zenon
  <2> QED
    BY <2>1, <2>2, Zenon
<1> QED
  BY <1>2, <1>4, <1>5, <1>6, RegistryStepKeeps, Zenon DEF TraceInv

(* Every handler of a write does that.                                     *)
LEMMA WriteKeeps ==
  ASSUME TraceInv, NEW w \in Writes,
         \/ OpenView(w) \/ MarkView(w) \/ OpenHumanGate(w)
         \/ SubmitApproval(w) \/ ResolveEscalation(w)
  PROVE  TraceInv'
<1> DEFINE S == Evicted(w.f, w.r)
           V == PurgedViews(w.f, S)
           G == PurgedGates(w.f, S)
<1>1. /\ w.f \in Facades /\ w.r \in Runs /\ w.val \in Values
      /\ w.op \in {"open", "mark"} => w.id \in Nodes
      /\ {w.id} \in Marks
  BY TraceAssumption, Zenon DEF Values, Marks
<1>2. V \in [Runs -> Views] /\ G \in [Runs -> GateSets]
  BY <1>1, PurgedTyped, Zenon DEF TraceInv
<1>3. TraceTypes
  BY Zenon DEF TraceInv
<1> HIDE DEF S, V, G
<1>4. CASE OpenView(w)
  <2> DEFINE VW == [V EXCEPT ![w.r][w.id] = w.val]
  <2>1. VW \in [Runs -> Views]
    BY <1>1, <1>2, <1>4, Zenon DEF OpenView, Begin, Views
  <2>2. at'[w] = "signal"
    BY <1>3, <1>4, Zenon DEF OpenView, Await, TraceTypes
  <2>3. Handled(w, S, VW, G)
    BY <1>1, <1>2, <1>4, <2>1, <2>2, Zenon
       DEF OpenView, Begin, Await, TouchRun, PurgeRunState, Handled, TakesUp, S, V, G, Views
  <2> QED
    BY <2>3, HandledKeeps, Zenon
<1>5. CASE MarkView(w)
  <2>1. CASE Await(w)
    <3> DEFINE VW == [V EXCEPT ![w.r][w.id] = w.val]
    <3>1. VW \in [Runs -> Views]
      BY <1>1, <1>2, <1>5, Zenon DEF MarkView, Begin, Views
    <3>2. at'[w] = "signal"
      BY <1>3, <2>1, Zenon DEF Await, TraceTypes
    <3>3. views' = [views EXCEPT ![w.f] = VW]
      BY <1>3, <1>5, <2>1, <3>2, Zenon DEF MarkView, Answer, TraceTypes, S, V
    <3>4. Handled(w, S, VW, G)
      BY <1>1, <1>2, <1>5, <2>1, <3>1, <3>2, <3>3, Zenon
         DEF MarkView, Begin, Await, TouchRun, PurgeRunState, Handled, TakesUp, S, V, G, Views
    <3> QED
      BY <3>4, HandledKeeps, Zenon
  <2>2. CASE Answer(w)
    <3>1. at'[w] = "answered"
      BY <1>3, <2>2, Zenon DEF Answer, TraceTypes
    <3>2. views' = [views EXCEPT ![w.f] = V]
      BY <1>3, <1>5, <2>2, <3>1, Zenon DEF MarkView, Await, TraceTypes, S, V
    <3>3. Handled(w, S, V, G)
      BY <1>1, <1>2, <1>5, <2>2, <3>1, <3>2, Zenon
         DEF MarkView, Begin, Answer, TouchRun, PurgeRunState, Handled, S, V, G
    <3> QED
      BY <3>3, HandledKeeps, Zenon
  <2> QED
    BY <1>5, <2>1, <2>2, Zenon DEF MarkView
<1>6. CASE OpenHumanGate(w)
  <2> DEFINE GW == [G EXCEPT ![w.r].open = @ \cup {w.id}]
  <2>1. GW \in [Runs -> GateSets]
    BY <1>1, <1>2, Zenon DEF GateSets, Marks
  <2>2. at'[w] = "signal"
    BY <1>3, <1>6, Zenon DEF OpenHumanGate, Await, TraceTypes
  <2>3. Handled(w, S, V, GW)
    BY <1>1, <1>2, <1>6, <2>1, <2>2, Zenon
       DEF OpenHumanGate, Begin, Await, TouchRun, PurgeRunState, Handled, TakesUp, S, V, G, GateSets
  <2> QED
    BY <2>3, HandledKeeps, Zenon
<1>7. CASE SubmitApproval(w)
  <2>1. CASE Await(w)
    <3> DEFINE GW == [G EXCEPT ![w.r].resolved = @ \cup {w.id},
                               ![w.r].rejected = IF w.val = "rejected" THEN @ \cup {w.id} ELSE @ \ {w.id}]
    <3>1. GW \in [Runs -> GateSets]
      BY <1>1, <1>2, ZenonT(30) DEF GateSets, Marks
    <3>2. at'[w] = "signal"
      BY <1>3, <2>1, Zenon DEF Await, TraceTypes
    <3>3. gates' = [gates EXCEPT ![w.f] = GW]
      BY <1>3, <1>7, <2>1, <3>2, Zenon DEF SubmitApproval, Answer, TraceTypes, S, G
    <3>4. Handled(w, S, V, GW)
      BY <1>1, <1>2, <1>7, <2>1, <3>1, <3>2, <3>3, ZenonT(30)
         DEF SubmitApproval, Begin, Await, TouchRun, PurgeRunState, Handled, TakesUp, S, V, G, GateSets
    <3> QED
      BY <3>4, HandledKeeps, Zenon
  <2>2. CASE Answer(w)
    <3>1. at'[w] = "answered"
      BY <1>3, <2>2, Zenon DEF Answer, TraceTypes
    <3>2. gates' = [gates EXCEPT ![w.f] = G]
      BY <1>3, <1>7, <2>2, <3>1, Zenon DEF SubmitApproval, Await, TraceTypes, S, G
    <3>3. Handled(w, S, V, G)
      BY <1>1, <1>2, <1>7, <2>2, <3>1, <3>2, Zenon
         DEF SubmitApproval, Begin, Answer, TouchRun, PurgeRunState, Handled, S, V, G
    <3> QED
      BY <3>3, HandledKeeps, Zenon
  <2> QED
    BY <1>7, <2>1, <2>2, Zenon DEF SubmitApproval
<1>8. CASE ResolveEscalation(w)
  <2>1. Handled(w, S, V, G)
    BY <1>1, <1>2, <1>8, Zenon
       DEF ResolveEscalation, Begin, Await, TouchRun, PurgeRunState, Handled, S, V, G
  <2> QED
    BY <2>1, HandledKeeps, Zenon
<1> QED
  BY <1>4, <1>5, <1>6, <1>7, <1>8, Zenon

(* A step that leaves registries, offsets and queries alone keeps the      *)
(* invariant if its runs grow or are torn.                                 *)
LEMMA OtherKeeps ==
  ASSUME TraceInv, UNCHANGED <<views, gates, merged, raced>>, torn \subseteq torn',
         events' \in [Runs -> Seq(Writes)],
         at' \in [Writes -> {"unsent", "signal", "append", "answered"}],
         \A r \in Runs : Len(events[r]) <= Len(events'[r]),
         \A q \in DOMAIN load' : /\ q \in Queries
                                 /\ load'[q] \in [busy : BOOLEAN, after : Nat, least : Nat]
                                 /\ load'[q].after <= load'[q].least
                                 /\ load'[q].least <= Len(events'[q.r]),
         \A r \in Runs : r \in torn' \/ RunGrows(r)
  PROVE  TraceInv'
<1>1. TraceTypes'
  <2> SUFFICES ASSUME NEW f \in Facades, NEW r \in Runs
               PROVE  merged[f][r] <= Len(events'[r])
    BY Zenon DEF TraceInv, TraceTypes
  <2>1. /\ merged[f][r] \in Nat /\ merged[f][r] <= Len(events[r]) /\ Len(events[r]) \in Nat
        /\ Len(events'[r]) \in Nat /\ Len(events[r]) <= Len(events'[r])
    BY DEF TraceInv, TraceTypes
  <2> QED
    BY <2>1
<1>2. \A f \in Facades, r \in Runs : RegistryStep(f, r)
  BY ZenonT(30) DEF RegistryStep, ViewsFrom, GatesFrom
<1> QED
  BY <1>1, <1>2, RegistryStepKeeps, Zenon DEF TraceInv

(* The rest of a write.                                                    *)
LEMMA WriteGoesOnKeeps ==
  ASSUME TraceInv, NEW w \in Writes,
         SignalDelivered(w) \/ WriteFails(w) \/ AppendTraceEvent(w)
  PROVE  TraceInv'
<1>1. /\ w.r \in Runs /\ TraceTypes
      /\ at \in [Writes -> {"unsent", "signal", "append", "answered"}]
      /\ \A r \in Runs : events[r] \in Seq(Writes) /\ Len(events[r]) \in Nat
  BY TraceAssumption DEF TraceInv, TraceTypes
<1>2. /\ UNCHANGED <<views, gates, merged, raced, load>> /\ torn \subseteq torn'
      /\ at' = [at EXCEPT ![w] = "append"] \/ at' = [at EXCEPT ![w] = "answered"]
      /\ events' = events \/ events' = [events EXCEPT ![w.r] = Append(@, w)]
  BY Zenon DEF SignalDelivered, WriteFails, AppendTraceEvent, Answer
<1>3. at' \in [Writes -> {"unsent", "signal", "append", "answered"}]
  <2>1. CASE at' = [at EXCEPT ![w] = "append"]
    BY <1>1, <2>1, Zenon
  <2>2. CASE at' = [at EXCEPT ![w] = "answered"]
    BY <1>1, <2>2, Zenon
  <2> QED
    BY <1>2, <2>1, <2>2, Zenon
<1>4. events' \in [Runs -> Seq(Writes)] /\ \A r \in Runs : Len(events[r]) <= Len(events'[r])
  <2>1. CASE events' = events
    BY <1>1, <2>1 DEF TraceTypes
  <2>2. CASE events' = [events EXCEPT ![w.r] = Append(@, w)]
    <3>1. Append(events[w.r], w) \in Seq(Writes) /\ Len(Append(events[w.r], w)) = Len(events[w.r]) + 1
      BY <1>1
    <3> QED
      BY <1>1, <2>2, <3>1 DEF TraceTypes
  <2> QED
    BY <1>2, <2>1, <2>2, Zenon
<1>5. ASSUME NEW q \in DOMAIN load'
      PROVE  /\ q \in Queries
             /\ load'[q] \in [busy : BOOLEAN, after : Nat, least : Nat]
             /\ load'[q].after <= load'[q].least
             /\ load'[q].least <= Len(events'[q.r])
  <2>1. /\ q \in Queries /\ load[q] \in [busy : BOOLEAN, after : Nat, least : Nat]
        /\ load[q].after <= load[q].least /\ load[q].least <= Len(events[q.r])
    BY <1>1, <1>2, Zenon DEF TraceTypes
  <2>2. q.r \in Runs
    BY <2>1, TraceAssumption, Zenon
  <2>3. Len(events[q.r]) <= Len(events'[q.r]) /\ Len(events'[q.r]) \in Nat /\ Len(events[q.r]) \in Nat
    BY <1>1, <1>4, <2>2
  <2> QED
    BY <1>2, <2>1, <2>3
<1>6. ASSUME NEW r \in Runs PROVE r \in torn' \/ RunGrows(r)
  <2>1. ASSUME NEW x \in Writes, x # w, Pending(x, r) PROVE Pending(x, r)'
    BY <1>1, <1>2, <2>1, Zenon DEF Pending
  <2>2. CASE SignalDelivered(w)
    <3>1. Pending(w, r) => Pending(w, r)'
      BY <1>1, <2>2, Zenon DEF Pending, SignalDelivered
    <3> QED
      BY <1>1, <2>1, <2>2, <3>1 DEF RunGrows, SignalDelivered
  <2>3. CASE WriteFails(w)
    <3>1. CASE r = w.r
      BY <2>3, <3>1, Zenon DEF WriteFails
    <3>2. CASE r # w.r
      <4>1. ~Pending(w, r)
        BY <3>2, Zenon DEF Pending
      <4> QED
        BY <1>1, <2>1, <2>3, <4>1 DEF RunGrows, WriteFails
    <3> QED
      BY <3>1, <3>2, Zenon
  <2>4. CASE AppendTraceEvent(w)
    <3>1. CASE r = w.r
      <4>1. events'[r] = Append(events[r], w)
        BY <1>1, <2>4, <3>1, Zenon DEF AppendTraceEvent, TraceTypes
      <4>2. /\ Len(events'[r]) = Len(events[r]) + 1 /\ events'[r] \in Seq(Writes)
            /\ \A k \in 1..Len(events[r]) : events'[r][k] = events[r][k]
            /\ events'[r][Len(events[r]) + 1] = w
        BY <1>1, <4>1
      <4>3. Len(events[r]) + 1 \in (Len(events[r]) + 1)..Len(events'[r])
        BY <1>1, <4>2
      <4> QED
        BY <1>1, <2>1, <4>2, <4>3 DEF RunGrows
    <3>2. CASE r # w.r
      <4>1. ~Pending(w, r) /\ events'[r] = events[r]
        BY <1>1, <2>4, <3>2, Zenon DEF Pending, AppendTraceEvent, TraceTypes
      <4> QED
        BY <1>1, <2>1, <4>1 DEF RunGrows
    <3> QED
      BY <3>1, <3>2, Zenon
  <2> QED
    BY <2>2, <2>3, <2>4, Zenon
<1> QED
  BY <1>2, <1>3, <1>4, <1>5, <1>6, OtherKeeps, Zenon

(* The request for the trace events notes the offset that was merged.      *)
LEMMA LoadKeeps ==
  ASSUME TraceInv, NEW q \in DOMAIN load, LoadTraceEvents(q)
  PROVE  TraceInv'
<1>1. TraceTypes /\ UNCHANGED <<events, views, gates, merged, at, torn, raced>>
  BY Zenon DEF TraceInv, LoadTraceEvents
<1>2. q \in Queries /\ q.f \in Facades /\ q.r \in Runs
  BY <1>1, TraceAssumption, Zenon DEF TraceTypes
<1>3. /\ merged[q.f][q.r] \in Nat /\ merged[q.f][q.r] <= Len(events[q.r])
      /\ Len(events[q.r]) \in Nat
  BY <1>1, <1>2 DEF TraceTypes
<1>4. ASSUME NEW p \in DOMAIN load'
      PROVE  /\ p \in Queries
             /\ load'[p] \in [busy : BOOLEAN, after : Nat, least : Nat]
             /\ load'[p].after <= load'[p].least
             /\ load'[p].least <= Len(events'[p.r])
  <2>1. load' = [load EXCEPT ![q] = [busy |-> TRUE, after |-> merged[q.f][q.r],
                                     least |-> Len(events[q.r])]]
    BY Zenon DEF LoadTraceEvents
  <2>2. CASE p = q
    BY <1>1, <1>2, <1>3, <2>1, <2>2
  <2>3. CASE p # q
    <3>1. p \in DOMAIN load /\ load'[p] = load[p]
      BY <2>1, <2>3, Zenon
    <3> QED
      BY <1>1, <3>1, Zenon DEF TraceTypes
  <2> QED
    BY <2>2, <2>3, Zenon
<1>5. \A r \in Runs : RunGrows(r)
  BY <1>1 DEF RunGrows, TraceTypes, Pending
<1> QED
  BY <1>1, <1>4, <1>5, OtherKeeps DEF TraceTypes

(* The merge of a query keeps what its instance shows explained, unless    *)
(* it left events out.                                                     *)
LEMMA RebuildKeeps ==
  ASSUME TraceInv, NEW q \in DOMAIN load, RebuildTraceState(q)
  PROVE  TraceInv'
<1> DEFINE f == q.f
           r == q.r
           a == load[q].after
           m == merged[f][r]
           N == Len(events[r])
<1>1. TraceTypes /\ UNCHANGED <<events, at, torn>>
  BY Zenon DEF TraceInv, RebuildTraceState
<1>2. q \in Queries /\ f \in Facades /\ r \in Runs
  BY <1>1, TraceAssumption, Zenon DEF TraceTypes
<1>3. /\ events[r] \in Seq(Writes) /\ N \in Nat /\ m \in 0..N /\ a \in Nat
      /\ load[q].least \in Nat /\ a <= load[q].least
      /\ views[f][r] \in Views /\ gates[f][r] \in GateSets
  BY <1>1, <1>2 DEF TraceTypes
<1>4. PICK u \in load[q].least..N :
         LET fresh == SubSeq(events[r], a + 1, u) IN
         /\ views' = [views EXCEPT ![f][r] = MergeViews(@, fresh)]
         /\ gates' = [gates EXCEPT ![f][r] = MergeGates(@, fresh)]
         /\ merged' = [merged EXCEPT ![f][r] = u]
  BY Zenon DEF RebuildTraceState
<1> DEFINE fresh == SubSeq(events[r], a + 1, u)
           V == MergeViews(views[f][r], fresh)
           G == MergeGates(gates[f][r], fresh)
<1>5. u \in 0..N /\ a \in 0..u
  BY <1>3
<1>6. fresh \in Seq(Writes)
  BY <1>2, <1>3, <1>5, Fresh, Zenon
<1>7. V \in Views
  <2> HIDE DEF fresh
  <2> DEFINE U == Views \X Nat
  <2>1. \A n \in 1..Len(fresh), v \in Views :
             <<v, n - 1>> \in U => <<MergeView(v, fresh[n]), n>> \in U
    <3> SUFFICES ASSUME NEW n \in 1..Len(fresh), NEW v \in Views
                 PROVE  <<MergeView(v, fresh[n]), n>> \in U
      BY Zenon
    <3>1. fresh[n].val \in Values
      BY <1>6 DEF Values
    <3>2. MergeView(v, fresh[n]) \in Views
      BY <3>1, Zenon DEF MergeView, Views
    <3>3. n \in Nat
      BY <1>6
    <3> QED
      BY <3>2, <3>3, Zenon
  <2>2. <<views[f][r], 0>> \in U
    BY <1>3, Zenon
  <2> HIDE DEF U
  <2> QED
    BY <1>3, <1>6, <2>1, <2>2, ViewsMergeStepwise, Zenon
<1>8. G \in GateSets
  <2> HIDE DEF fresh
  <2> DEFINE U == GateSets \X Nat
  <2>1. \A n \in 1..Len(fresh), v \in GateSets :
             <<v, n - 1>> \in U => <<MergeGate(v, fresh[n]), n>> \in U
    <3> SUFFICES ASSUME NEW n \in 1..Len(fresh), NEW v \in GateSets
                 PROVE  <<MergeGate(v, fresh[n]), n>> \in U
      BY Zenon
    <3>1. {fresh[n].id} \in Marks
      BY <1>6 DEF Marks
    <3>2. MergeGate(v, fresh[n]) \in GateSets
      BY <3>1, Zenon DEF MergeGate, GateSets, Marks
    <3>3. n \in Nat
      BY <1>6
    <3> QED
      BY <3>2, <3>3, Zenon
  <2>2. <<gates[f][r], 0>> \in U
    BY <1>3, Zenon
  <2> HIDE DEF U
  <2> QED
    BY <1>3, <1>6, <2>1, <2>2, GatesMergeStepwise, Zenon
<1>9. /\ views' = [views EXCEPT ![f][r] = V] /\ gates' = [gates EXCEPT ![f][r] = G]
      /\ merged' = [merged EXCEPT ![f][r] = u]
  BY <1>4, Zenon
<1>10. raced' = IF a > m THEN raced \cup {<<f, r>>} ELSE raced
  BY Zenon DEF RebuildTraceState
<1>11. load' = [load EXCEPT ![q] = NoLoad]
  BY Zenon DEF RebuildTraceState
<1>12. \A v, x, y, z : (Explained(v, x, y, z)' <=> Explained(v, x, y, z))
  BY <1>1 DEF Explained, IsValue, Touches, Pending
<1>13. \A S, x, y, ops : (ShownGates(S, x, y, ops)' <=> ShownGates(S, x, y, ops))
  BY <1>1 DEF ShownGates, Named, AtWork, Pending
<1>14. \A x \in Runs : (InOrder(x)' <=> InOrder(x)) /\ (OpenedOnce(x)' <=> OpenedOnce(x))
  BY <1>1, Zenon DEF InOrder, OpenedOnce
<1>15. /\ \A g \in Facades, x \in Runs : g # f \/ x # r =>
             /\ views'[g][x] = views[g][x] /\ gates'[g][x] = gates[g][x]
             /\ merged'[g][x] = merged[g][x]
       /\ views'[f][r] = V /\ gates'[f][r] = G /\ merged'[f][r] = u
  <2> HIDE DEF V, G, f, r
  <2> QED
    BY <1>1, <1>2, <1>9, Zenon DEF TraceTypes
<1>16. ViewsExplained'
  <2> SUFFICES ASSUME NEW g \in Facades, NEW x \in Runs, NEW n \in Nodes,
                      x \notin torn, <<g, x>> \notin raced', InOrder(x), OpenedOnce(x)
               PROVE  Explained(views'[g][x][n], x, n, merged'[g][x])
    BY <1>1, <1>12, <1>14, Zenon DEF ViewsExplained
  <2>1. <<g, x>> \notin raced
    BY <1>10, Zenon
  <2>2. \A y \in Nodes : Explained(views[g][x][y], x, y, merged[g][x])
    BY <2>1, Zenon DEF TraceInv, ViewsExplained
  <2>3. CASE g # f \/ x # r
    BY <1>15, <2>2, <2>3, Zenon
  <2>4. CASE g = f /\ x = r
    <3>1. a <= m
      BY <1>3, <1>10, <2>4
    <3>2. \A y \in Nodes : Explained(V[y], r, y, u)
      <4>1. \A y \in Nodes : Explained(views[f][r][y], r, y, m)
        BY <2>2, <2>4, Zenon
      <4>2. InOrder(r) /\ OpenedOnce(r)
        BY <2>4, Zenon
      <4> QED
        BY <1>2, <1>3, <1>5, <3>1, <4>1, <4>2, ExplainedMerge, Zenon
    <3> HIDE DEF V, f, r
    <3> QED
      BY <1>15, <2>4, <3>2, Zenon
  <2> QED
    BY <2>3, <2>4, Zenon
<1>17. GatesExplained'
  <2> SUFFICES ASSUME NEW g \in Facades, NEW x \in Runs, x \notin torn, <<g, x>> \notin raced'
               PROVE  /\ ShownGates(gates'[g][x].open, x, merged'[g][x], {"gate", "approval"})
                      /\ ShownGates(gates'[g][x].resolved, x, merged'[g][x], {"approval"})
    BY <1>1, <1>13, Zenon DEF GatesExplained
  <2>1. <<g, x>> \notin raced
    BY <1>10, Zenon
  <2>2. /\ ShownGates(gates[g][x].open, x, merged[g][x], {"gate", "approval"})
        /\ ShownGates(gates[g][x].resolved, x, merged[g][x], {"approval"})
    BY <2>1, Zenon DEF TraceInv, GatesExplained
  <2>3. CASE g # f \/ x # r
    BY <1>15, <2>2, <2>3, Zenon
  <2>4. CASE g = f /\ x = r
    <3>1. a <= m
      BY <1>3, <1>10, <2>4
    <3>2. /\ ShownGates(G.open, r, u, {"gate", "approval"})
          /\ ShownGates(G.resolved, r, u, {"approval"})
      BY <1>2, <1>3, <1>5, <2>2, <2>4, <3>1, ShownMerge, Zenon
    <3> HIDE DEF G, f, r
    <3> QED
      BY <1>15, <2>4, <3>2, Zenon
  <2> QED
    BY <2>3, <2>4, Zenon
<1>18. TraceTypes'
  <2> HIDE DEF V, G, f, r
  <2>1. /\ views' \in [Facades -> [Runs -> Views]] /\ gates' \in [Facades -> [Runs -> GateSets]]
        /\ merged' \in [Facades -> [Runs -> Nat]]
    BY <1>1, <1>2, <1>5, <1>7, <1>8, <1>9 DEF TraceTypes
  <2>2. \A g \in Facades, x \in Runs : merged'[g][x] <= Len(events[x])
    <3> SUFFICES ASSUME NEW g \in Facades, NEW x \in Runs PROVE merged'[g][x] <= Len(events[x])
      BY Zenon
    <3>1. CASE g = f /\ x = r
      BY <1>3, <1>5, <1>15, <3>1
    <3>2. CASE g # f \/ x # r
      BY <1>1, <1>15, <3>2, Zenon DEF TraceTypes
    <3> QED
      BY <3>1, <3>2, Zenon
  <2>3. ASSUME NEW p \in DOMAIN load'
        PROVE  /\ p \in Queries
               /\ load'[p] \in [busy : BOOLEAN, after : Nat, least : Nat]
               /\ load'[p].after <= load'[p].least
               /\ load'[p].least <= Len(events[p.r])
    <3>1. p \in DOMAIN load /\ p \in Queries
      BY <1>1, <1>11, Zenon DEF TraceTypes
    <3>2. load'[p] = load[p] \/ load'[p] = NoLoad
      BY <1>11, Zenon
    <3>3. Len(events[p.r]) \in Nat
      BY <1>1, <3>1, TraceAssumption DEF TraceTypes
    <3>4. CASE load'[p] = load[p]
      BY <1>1, <3>1, <3>4, Zenon DEF TraceTypes
    <3>5. CASE load'[p] = NoLoad
      BY <3>1, <3>3, <3>5 DEF NoLoad
    <3> QED
      BY <3>2, <3>4, <3>5, Zenon
  <2> QED
    BY <1>1, <2>1, <2>2, <2>3, Zenon DEF TraceTypes
<1> QED
  BY <1>16, <1>17, <1>18, Zenon DEF TraceInv

(* A run that is cleaned up starts from nothing.                           *)
LEMMA CleanupKeeps ==
  ASSUME TraceInv, NEW f \in Facades, NEW r \in Runs, CleanupCompletedRun(f, r)
  PROVE  TraceInv'
<1>1. TraceTypes /\ UNCHANGED <<events, at, load, torn>>
  BY Zenon DEF TraceInv, CleanupCompletedRun
<1>2. /\ views' = [views EXCEPT ![f] = PurgedViews(f, {r})]
      /\ gates' = [gates EXCEPT ![f] = PurgedGates(f, {r})]
      /\ merged' = [merged EXCEPT ![f] = Purge({r}, @, 0)]
      /\ raced' = {x \in raced : x[1] # f \/ x[2] \notin {r}}
  BY Zenon DEF CleanupCompletedRun, PurgeRunState
<1>3. PurgedViews(f, {r}) \in [Runs -> Views] /\ PurgedGates(f, {r}) \in [Runs -> GateSets]
  BY <1>1, PurgedTyped, Zenon
<1>4. /\ merged' \in [Facades -> [Runs -> Nat]] /\ merged'[f][r] = 0
      /\ \A g \in Facades, x \in Runs : g # f \/ x # r => merged'[g][x] = merged[g][x]
  BY <1>1, <1>2, Zenon DEF TraceTypes, Purge
<1>5. TraceTypes'
  <2>1. views' \in [Facades -> [Runs -> Views]] /\ gates' \in [Facades -> [Runs -> GateSets]]
    BY <1>1, <1>2, <1>3, Zenon DEF TraceTypes
  <2>2. ASSUME NEW g \in Facades, NEW x \in Runs PROVE merged'[g][x] <= Len(events[x])
    <3>1. 0 <= Len(events[x]) /\ merged[g][x] <= Len(events[x])
      BY <1>1 DEF TraceTypes
    <3> QED
      BY <1>4, <3>1, Zenon
  <2> QED
    BY <1>1, <1>4, <2>1, <2>2, Zenon DEF TraceTypes
<1>6. \A x \in Runs : RunGrows(x)
  BY <1>1 DEF RunGrows, TraceTypes, Pending
<1>7. ASSUME NEW g \in Facades, NEW x \in Runs PROVE RegistryStep(g, x)
  <2>1. CASE g = f /\ x = r
    <3>1. views'[g][x] = [n \in Nodes |-> NoView] /\ gates'[g][x] = NoGates
      BY <1>1, <1>2, <2>1, Zenon DEF TraceTypes, PurgedViews, PurgedGates, Purge
    <3> QED
      BY <1>4, <2>1, <3>1, Zenon DEF RegistryStep, ViewsFrom, GatesFrom
  <2>2. CASE g # f \/ x # r
    <3>1. views'[g][x] = views[g][x] /\ gates'[g][x] = gates[g][x]
      BY <1>1, <1>2, <2>2, Zenon DEF TraceTypes, PurgedViews, PurgedGates, Purge
    <3>2. <<g, x>> \in raced => <<g, x>> \in raced'
      BY <1>2, <2>2, Zenon
    <3> QED
      BY <1>4, <2>2, <3>1, <3>2, Zenon DEF RegistryStep, ViewsFrom, GatesFrom
  <2> QED
    BY <2>1, <2>2, Zenon
<1> QED
  BY <1>1, <1>5, <1>6, <1>7, RegistryStepKeeps, Zenon DEF TraceInv

(* An instance that is restarted starts from nothing, and the runs whose   *)
(* writes it was at work on are torn.                                      *)
LEMMA RestartKeeps ==
  ASSUME TraceInv, NEW f \in Facades, RestartInstance(f)
  PROVE  TraceInv'
<1> DEFINE mine == {w \in Writes : at[w] \in {"signal", "append"} /\ w.f = f}
<1>1. TraceTypes /\ UNCHANGED events
  BY Zenon DEF TraceInv, RestartInstance
<1>2. /\ views' = [views EXCEPT ![f] = PurgedViews(f, Runs)]
      /\ gates' = [gates EXCEPT ![f] = PurgedGates(f, Runs)]
      /\ merged' = [merged EXCEPT ![f] = [r \in Runs |-> 0]]
      /\ raced' = {x \in raced : x[1] # f}
      /\ at' = [w \in Writes |-> IF w \in mine THEN "answered" ELSE at[w]]
      /\ torn' = torn \cup {w.r : w \in mine}
      /\ load' = [q \in DOMAIN load |-> IF q.f = f THEN NoLoad ELSE load[q]]
  BY Zenon DEF RestartInstance
<1>3. PurgedViews(f, Runs) \in [Runs -> Views] /\ PurgedGates(f, Runs) \in [Runs -> GateSets]
  BY <1>1, PurgedTyped, Zenon
<1>4. /\ merged' \in [Facades -> [Runs -> Nat]]
      /\ \A g \in Facades, x \in Runs : merged'[g][x] = IF g = f THEN 0 ELSE merged[g][x]
  BY <1>1, <1>2, Zenon DEF TraceTypes
<1>5. TraceTypes'
  <2>1. views' \in [Facades -> [Runs -> Views]] /\ gates' \in [Facades -> [Runs -> GateSets]]
    BY <1>1, <1>2, <1>3, Zenon DEF TraceTypes
  <2>2. ASSUME NEW g \in Facades, NEW x \in Runs PROVE merged'[g][x] <= Len(events[x])
    <3>1. 0 <= Len(events[x]) /\ merged[g][x] <= Len(events[x])
      BY <1>1 DEF TraceTypes
    <3> QED
      BY <1>4, <3>1, Zenon
  <2>3. at' \in [Writes -> {"unsent", "signal", "append", "answered"}]
    BY <1>1, <1>2, Zenon DEF TraceTypes
  <2>4. ASSUME NEW p \in DOMAIN load'
        PROVE  /\ p \in Queries
               /\ load'[p] \in [busy : BOOLEAN, after : Nat, least : Nat]
               /\ load'[p].after <= load'[p].least
               /\ load'[p].least <= Len(events[p.r])
    <3>1. p \in DOMAIN load /\ p \in Queries
      BY <1>1, <1>2, Zenon DEF TraceTypes
    <3>2. load'[p] = load[p] \/ load'[p] = NoLoad
      BY <1>2, <3>1, Zenon
    <3>3. Len(events[p.r]) \in Nat
      BY <1>1, <3>1, TraceAssumption DEF TraceTypes
    <3>4. CASE load'[p] = load[p]
      BY <1>1, <3>1, <3>4, Zenon DEF TraceTypes
    <3>5. CASE load'[p] = NoLoad
      BY <3>1, <3>3, <3>5 DEF NoLoad
    <3> QED
      BY <3>2, <3>4, <3>5, Zenon
  <2> QED
    BY <1>1, <1>4, <2>1, <2>2, <2>3, <2>4, Zenon DEF TraceTypes
<1>6. ASSUME NEW r \in Runs, r \notin torn' PROVE RunGrows(r)
  <2>1. ASSUME NEW w \in Writes, Pending(w, r) PROVE Pending(w, r)'
    <3>1. w \notin mine
      BY <1>2, <1>6, <2>1, Zenon DEF Pending
    <3> QED
      BY <1>2, <2>1, <3>1, Zenon DEF Pending
  <2> QED
    BY <1>1, <2>1 DEF RunGrows, TraceTypes
<1>7. ASSUME NEW g \in Facades, NEW x \in Runs PROVE RegistryStep(g, x)
  <2>1. CASE g = f
    <3>1. views'[g][x] = [n \in Nodes |-> NoView] /\ gates'[g][x] = NoGates
      BY <1>1, <1>2, <2>1, Zenon DEF TraceTypes, PurgedViews, PurgedGates, Purge
    <3> QED
      BY <1>4, <2>1, <3>1, Zenon DEF RegistryStep, ViewsFrom, GatesFrom
  <2>2. CASE g # f
    <3>1. views'[g][x] = views[g][x] /\ gates'[g][x] = gates[g][x]
      BY <1>1, <1>2, <2>2, Zenon DEF TraceTypes
    <3>2. <<g, x>> \in raced => <<g, x>> \in raced'
      BY <1>2, <2>2, Zenon
    <3> QED
      BY <1>4, <2>2, <3>1, <3>2, Zenon DEF RegistryStep, ViewsFrom, GatesFrom
  <2> QED
    BY <2>1, <2>2, Zenon
<1> QED
  BY <1>2, <1>5, <1>6, <1>7, RegistryStepKeeps, Zenon DEF TraceInv

(* The invariant holds at first, and every step keeps it.                  *)
LEMMA TraceInvInit == TraceInit => TraceInv
<1> SUFFICES ASSUME TraceInit PROVE TraceInv
  BY Zenon
<1>1. PICK b \in Batches :
         /\ at = [w \in Writes |-> IF w \in b.writes THEN "unsent" ELSE "answered"]
         /\ load = [q \in b.queries |-> NoLoad]
  BY Zenon DEF TraceInit
<1>2. TraceTypes
  <2>1. b.queries \subseteq Queries
    BY Zenon DEF Queries
  <2>2. ASSUME NEW q \in DOMAIN load
        PROVE  /\ q \in Queries /\ load[q] \in [busy : BOOLEAN, after : Nat, least : Nat]
               /\ load[q].after <= load[q].least /\ load[q].least <= Len(events[q.r])
    <3>1. q \in Queries /\ load[q] = NoLoad
      BY <1>1, <2>1, Zenon
    <3>2. Len(events[q.r]) = 0
      BY <3>1, TraceAssumption, Zenon DEF TraceInit
    <3> QED
      BY <3>1, <3>2 DEF NoLoad
  <2>3. at \in [Writes -> {"unsent", "signal", "append", "answered"}]
    BY <1>1, Zenon
  <2>4. gates \in [Facades -> [Runs -> GateSets]] /\ views \in [Facades -> [Runs -> Views]]
    BY Zenon DEF TraceInit, GateSets, Marks, NoGates, Views, Values
  <2>5. /\ events \in [Runs -> Seq(Writes)] /\ merged \in [Facades -> [Runs -> Nat]]
        /\ \A f \in Facades, r \in Runs : merged[f][r] <= Len(events[r])
    BY DEF TraceInit
  <2> QED
    BY <2>2, <2>3, <2>4, <2>5, Zenon DEF TraceTypes
<1>3. ViewsExplained
  BY DEF TraceInit, ViewsExplained, Explained, IsValue
<1>4. GatesExplained
  <2>1. \A r, ops : Named(r, 0, ops) = {}
    BY DEF Named
  <2> QED
    BY <2>1, Zenon DEF TraceInit, GatesExplained, ShownGates, NoGates
<1> QED
  BY <1>2, <1>3, <1>4, Zenon DEF TraceInv

LEMMA TraceInvNext == TraceInv /\ [TraceNext]_traceVars => TraceInv'
<1> SUFFICES ASSUME TraceInv, [TraceNext]_traceVars PROVE TraceInv'
  BY Zenon
<1>1. ASSUME NEW w \in Writes,
             \/ OpenBranch(w) \/ OpenStage(w) \/ MarkBranchState(w) \/ MarkStageState(w)
             \/ OpenHumanGate(w) \/ SubmitApproval(w) \/ ResolveEscalation(w)
      PROVE  TraceInv'
  BY <1>1, WriteKeeps, Zenon DEF OpenBranch, OpenStage, MarkBranchState, MarkStageState
<1>2. ASSUME NEW w \in Writes, SignalDelivered(w) \/ WriteFails(w) \/ AppendTraceEvent(w)
      PROVE  TraceInv'
  BY <1>2, WriteGoesOnKeeps, Zenon
<1>3. ASSUME NEW q \in DOMAIN load, LoadTraceEvents(q) PROVE TraceInv'
  BY <1>3, LoadKeeps, Zenon
<1>4. ASSUME NEW q \in DOMAIN load, RebuildTraceState(q) PROVE TraceInv'
  BY <1>4, RebuildKeeps, Zenon
<1>5. ASSUME NEW f \in Facades, RestartInstance(f) PROVE TraceInv'
  BY <1>5, RestartKeeps, Zenon
<1>6. ASSUME NEW f \in Facades, NEW r \in Runs, CleanupCompletedRun(f, r) PROVE TraceInv'
  BY <1>6, CleanupKeeps, Zenon
<1>7. CASE UNCHANGED traceVars
  <2>1. UNCHANGED <<events, views, gates, merged, at, load, torn, raced>>
    BY <1>7, Zenon DEF traceVars
  <2>2. TraceTypes' <=> TraceTypes
    BY <2>1, ZenonT(30) DEF TraceTypes
  <2>3. ViewsExplained' <=> ViewsExplained
    BY <2>1 DEF ViewsExplained, Explained, IsValue, Touches, Pending, InOrder, OpenedOnce
  <2>4. GatesExplained' <=> GatesExplained
    <3>1. \A S, x, y, ops : (ShownGates(S, x, y, ops)' <=> ShownGates(S, x, y, ops))
      BY <2>1 DEF ShownGates, Named, AtWork, Pending
    <3> QED
      BY <2>1, <3>1, Zenon DEF GatesExplained
  <2> QED
    BY <2>2, <2>3, <2>4, Zenon DEF TraceInv
<1> QED
  BY <1>1, <1>2, <1>3, <1>4, <1>5, <1>6, <1>7, Zenon DEF TraceNext

(* What the invariant says of two instances that have merged everything.   *)
LEMMA TraceInvImplies == TraceInv => InstancesAgree
<1> SUFFICES ASSUME TraceInv, NEW r \in Runs, Quiet(r), InOrder(r), OpenedOnce(r), r \notin torn,
                    NEW f \in Facades, merged[f][r] = Len(events[r]), <<f, r>> \notin raced,
                    NEW g \in Facades, merged[g][r] = Len(events[r]), <<g, r>> \notin raced
             PROVE  /\ views[f][r] = views[g][r]
                    /\ gates[f][r].open = gates[g][r].open
                    /\ gates[f][r].resolved = gates[g][r].resolved
                    /\ \/ ReviewState(f, r) = ReviewState(g, r)
                       \/ {ReviewState(f, r), ReviewState(g, r)} = {"approved", "rejected"}
  BY Zenon DEF InstancesAgree
<1> DEFINE N == Len(events[r])
<1>1. N \in Nat /\ TraceTypes
  BY DEF TraceInv, TraceTypes
<1>2. \A w \in Writes : ~Pending(w, r)
  BY Zenon DEF Quiet, Pending
<1>3. views[f][r] = views[g][r]
  <2>1. ASSUME NEW n \in Nodes PROVE views[f][r][n] = views[g][r][n]
    <3>1. Explained(views[f][r][n], r, n, N) /\ Explained(views[g][r][n], r, n, N)
      BY Zenon DEF TraceInv, ViewsExplained
    <3>2. \A k \in (N + 1)..N : FALSE
      BY <1>1
    <3>3. IsValue(views[f][r][n], r, n, N) /\ IsValue(views[g][r][n], r, n, N)
      BY <1>2, <3>1, <3>2, Zenon DEF Explained
    <3>4. ASSUME NEW u, NEW v, IsValue(u, r, n, N), IsValue(v, r, n, N) PROVE u = v
      <4>1. CASE \A k \in 1..N : ~Touches(r, k, n)
        BY <3>4, <4>1, Zenon DEF IsValue
      <4>2. CASE \E k \in 1..N : Touches(r, k, n)
        <5>1. PICK i \in 1..N : /\ Touches(r, i, n) /\ u = events[r][i].val
                                /\ \A l \in (i + 1)..N : ~Touches(r, l, n)
          BY <3>4, <4>2, Zenon DEF IsValue
        <5>2. PICK j \in 1..N : /\ Touches(r, j, n) /\ v = events[r][j].val
                                /\ \A l \in (j + 1)..N : ~Touches(r, l, n)
          BY <3>4, <4>2, Zenon DEF IsValue
        <5>3. i = j
          BY <1>1, <5>1, <5>2
        <5> QED
          BY <5>1, <5>2, <5>3, Zenon
      <4> QED
        BY <4>1, <4>2, Zenon
    <3> QED
      BY <3>3, <3>4, Zenon
  <2> QED
    BY <1>1, <2>1 DEF TraceTypes, Views
<1>4. gates[f][r].open = gates[g][r].open /\ gates[f][r].resolved = gates[g][r].resolved
  <2>1. \A ops : AtWork(r, ops) = {}
    BY <1>2, Zenon DEF AtWork
  <2>2. /\ ShownGates(gates[f][r].open, r, N, {"gate", "approval"})
        /\ ShownGates(gates[f][r].resolved, r, N, {"approval"})
        /\ ShownGates(gates[g][r].open, r, N, {"gate", "approval"})
        /\ ShownGates(gates[g][r].resolved, r, N, {"approval"})
    BY Zenon DEF TraceInv, GatesExplained
  <2> QED
    BY <2>1, <2>2, Zenon DEF ShownGates
<1>5. \/ ReviewState(f, r) = ReviewState(g, r)
      \/ {ReviewState(f, r), ReviewState(g, r)} = {"approved", "rejected"}
  <2> DEFINE open == gates[f][r].open
             done == gates[f][r].resolved
  <2>1. CASE open = {}
    BY <1>4, <2>1, Zenon DEF ReviewState
  <2>2. CASE open # {} /\ ~(open \subseteq done)
    BY <1>4, <2>2, Zenon DEF ReviewState
  <2>3. CASE open # {} /\ open \subseteq done
    BY <1>4, <2>3, Zenon DEF ReviewState
  <2> QED
    BY <2>1, <2>2, <2>3, Zenon
<1> QED
  BY <1>3, <1>4, <1>5, Zenon

(* Facade instances over one log show the same trace of a run once they    *)
(* have merged its events, however many there are of each, in whatever     *)
(* order handlers, appends, overlapping queries, purges and restarts fell  *)
(* (KernelFacade._rebuild_trace_state).  The exceptions are those that     *)
(* InstancesAgree names: runs with a write that failed half-way, with a    *)
(* node opened twice or changed before its opening, instances that missed  *)
(* events, and the verdict of a decided review.                            *)
THEOREM InstancesConverge == TraceSpec => []InstancesAgree
<1>1. TraceInit => TraceInv
  BY TraceInvInit, Zenon
<1>2. TraceInv /\ [TraceNext]_traceVars => TraceInv'
  BY TraceInvNext, Zenon
<1>3. TraceInv => InstancesAgree
  BY TraceInvImplies, Zenon
<1> QED
  BY <1>1, <1>2, <1>3, PTL DEF TraceSpec
=============================================================================
