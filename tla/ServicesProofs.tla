--------------------------- MODULE ServicesProofs ---------------------------
(***************************************************************************)
(* Proofs about what serves a run: the schema migrations, the exporting    *)
(* event log, the projection snapshots, the retries of the reasoning       *)
(* cycles and the admission quota.                                         *)
(***************************************************************************)
EXTENDS ProjectionCache, EventExport, SchemaMigrations, Reasoning, Admission,
        InductionLemmas, FiniteSetTheorems, TLAPS
-----------------------------------------------------------------------------
(* Migrations.  A process that is inside apply_all has every version it    *)
(* does not want recorded by somebody, so the least one it wants may go    *)
(* next; and a script without a row is the one of a process between its    *)
(* two commits.                                                            *)
MigrationTyped ==
  /\ recorded \subseteq schema
  /\ schema \subseteq Versions
  /\ upgrade \in [Upgraders -> [at : {"idle", "script", "record"}, pending : SUBSET Versions]]
  /\ interrupted \in BOOLEAN

MigrationInv ==
  /\ MigrationTyped
  /\ \A v \in schema : \A w \in Versions : w < v => w \in schema
  /\ \A p \in Upgraders : upgrade[p].at # "idle" =>
       /\ upgrade[p].pending # {}
       /\ Versions \ upgrade[p].pending \subseteq recorded
       /\ upgrade[p].at = "record" => Least(upgrade[p].pending) \in schema
  /\ interrupted \/
     \A v \in schema \ recorded :
       \E p \in Upgraders : upgrade[p].at = "record" /\ Least(upgrade[p].pending) = v

(* apply_all goes through the versions in ascending order: the least of    *)
(* what is pending is pending and below the rest.                          *)
LEMMA LeastIsLeast ==
  ASSUME NEW S \in SUBSET Versions, S # {}
  PROVE  Least(S) \in S /\ \A w \in S : Least(S) <= w
<1>1. \E n \in S : \A m \in S : n <= m
  BY LeastNat, MigrationAssumption, Zenon
<1> QED
  BY <1>1, Zenon DEF Least

(* A step of apply_all by any process, or the death of one, keeps the      *)
(* invariant of the migrations.                                            *)
LEMMA MigrationInvNext ==
  ASSUME MigrationInv, [MigrationNext]_migrationVars
  PROVE  MigrationInv'
<1> USE DEF MigrationInv, MigrationTyped, NotUpgrading
<1>0. CASE UNCHANGED migrationVars
  BY <1>0, Zenon DEF migrationVars
<1>1. ASSUME NEW p \in Upgraders, ApplyAll(p) PROVE MigrationInv'
  <2>1. upgrade'[p].at = "record" => FALSE
    BY <1>1, Zenon DEF ApplyAll
  <2>2. \A o \in Upgraders : o # p => upgrade'[o] = upgrade[o]
    BY <1>1, Zenon DEF ApplyAll
  <2>3. upgrade'[p].at # "idle" =>
          upgrade'[p].pending = Versions \ recorded /\ Versions \ recorded # {}
    BY <1>1, Zenon DEF ApplyAll
  <2>4. MigrationTyped'
    BY <1>1, Zenon DEF ApplyAll
  <2>5. UNCHANGED <<schema, recorded, interrupted>>
    BY <1>1, Zenon DEF ApplyAll
  <2>6. upgrade[p].at # "record"
    BY <1>1, Zenon DEF ApplyAll
  <2>7. \A o \in Upgraders : upgrade'[o].at # "idle" =>
          /\ upgrade'[o].pending # {}
          /\ Versions \ upgrade'[o].pending \subseteq recorded
          /\ upgrade'[o].at = "record" => Least(upgrade'[o].pending) \in schema
    BY <2>1, <2>2, <2>3, Zenon
  <2>8. ASSUME ~interrupted, NEW v \in schema \ recorded
        PROVE  \E o \in Upgraders : upgrade'[o].at = "record" /\ Least(upgrade'[o].pending) = v
    <3>1. PICK o \in Upgraders : upgrade[o].at = "record" /\ Least(upgrade[o].pending) = v
      BY <2>8, Zenon
    <3> QED
      BY <3>1, <2>2, <2>6, Zenon
  <2> QED
    BY <2>4, <2>5, <2>7, <2>8, Zenon
<1>2. ASSUME NEW p \in Upgraders, ExecuteScript(p) PROVE MigrationInv'
  <2> DEFINE v == Least(upgrade[p].pending)
  <2>1. /\ upgrade[p].at = "script" /\ upgrade[p].pending # {}
        /\ upgrade[p].pending \in SUBSET Versions
    BY <1>2, Zenon DEF ExecuteScript
  <2>2. v \in upgrade[p].pending /\ \A w \in upgrade[p].pending : v <= w
    BY <2>1, LeastIsLeast, Zenon
  <2>3. \A o \in Upgraders : o # p => upgrade'[o] = upgrade[o]
    BY <1>2, Zenon DEF ExecuteScript
  <2>4. UNCHANGED <<recorded, interrupted>>
    BY <1>2, Zenon DEF ExecuteScript
  <2>5. CASE v \in schema /\ v \notin Repeatable
    <3>1. upgrade' = [upgrade EXCEPT ![p] = NotUpgrading] /\ schema' = schema
      BY <1>2, <2>5, Zenon DEF ExecuteScript
    <3>2. ASSUME ~interrupted, NEW u \in schema \ recorded
          PROVE  \E o \in Upgraders : upgrade'[o].at = "record" /\ Least(upgrade'[o].pending) = u
      <4>1. PICK o \in Upgraders : upgrade[o].at = "record" /\ Least(upgrade[o].pending) = u
        BY <3>2, Zenon
      <4> QED
        BY <4>1, <2>3, <2>1, Zenon
    <3>3. MigrationTyped'
      BY <3>1, <2>4, Zenon
    <3>4. upgrade'[p].at = "idle"
      BY <3>1, Zenon
    <3>5. \A o \in Upgraders : upgrade'[o].at # "idle" =>
            /\ upgrade'[o].pending # {}
            /\ Versions \ upgrade'[o].pending \subseteq recorded
            /\ upgrade'[o].at = "record" => Least(upgrade'[o].pending) \in schema
      BY <3>4, <2>3, Zenon
    <3> QED
      BY <3>1, <3>2, <3>3, <3>5, <2>4
  <2>6. CASE ~(v \in schema /\ v \notin Repeatable)
    <3>1. upgrade' = [upgrade EXCEPT ![p].at = "record"] /\ schema' = schema \cup {v}
      BY <1>2, <2>6, Zenon DEF ExecuteScript
    <3>2. upgrade'[p].at = "record" /\ upgrade'[p].pending = upgrade[p].pending
      BY <3>1, Zenon
    <3>3. MigrationTyped'
      BY <3>1, <2>4, <2>2, <2>1, Zenon
    <3>4. ASSUME NEW u \in schema', NEW w \in Versions, w < u PROVE w \in schema'
      <4>1. CASE u \in schema
        BY <4>1, <3>4, <3>1, Zenon
      <4>2. CASE u = v
        <5>1. w \notin upgrade[p].pending
          <6>1. v \in Nat /\ w \in Nat
            BY <2>1, <2>2, MigrationAssumption, Zenon
          <6> HIDE DEF v
          <6>2. ~(v <= w)
            BY <4>2, <3>4, <6>1
          <6> QED
            BY <6>2, <2>2, Zenon
        <5>2. w \in recorded
          BY <5>1, <2>1, Zenon
        <5> QED
          BY <5>2, <3>1, Zenon
      <4> QED
        BY <4>1, <4>2, <3>1, Zenon
    <3>5. \A o \in Upgraders : upgrade'[o].at # "idle" =>
            /\ upgrade'[o].pending # {}
            /\ Versions \ upgrade'[o].pending \subseteq recorded
            /\ upgrade'[o].at = "record" => Least(upgrade'[o].pending) \in schema'
      BY <3>1, <3>2, <2>3, <2>1, Zenon
    <3>6. ASSUME ~interrupted, NEW u \in schema' \ recorded
          PROVE  \E o \in Upgraders : upgrade'[o].at = "record" /\ Least(upgrade'[o].pending) = u
      <4>1. CASE u = v
        BY <4>1, <3>2, Zenon
      <4>2. CASE u \in schema
        <5>1. PICK o \in Upgraders : upgrade[o].at = "record" /\ Least(upgrade[o].pending) = u
          BY <3>6, <4>2, Zenon
        <5> QED
          BY <5>1, <2>3, <2>1, Zenon
      <4> QED
        BY <4>1, <4>2, <3>1, Zenon
    <3> QED
      BY <3>3, <3>4, <3>5, <3>6, <2>4, Zenon
  <2> QED
    BY <2>5, <2>6, Zenon
<1>3. ASSUME NEW p \in Upgraders, RecordVersion(p) PROVE MigrationInv'
  <2> DEFINE v == Least(upgrade[p].pending)
             rest == upgrade[p].pending \ {v}
  <2>1. /\ upgrade[p].at = "record" /\ upgrade[p].pending # {}
        /\ upgrade[p].pending \in SUBSET Versions
        /\ Versions \ upgrade[p].pending \subseteq recorded
        /\ v \in schema
    BY <1>3, Zenon DEF RecordVersion
  <2>2. recorded' = recorded \cup {v} /\ UNCHANGED <<schema, interrupted>>
    BY <1>3, Zenon DEF RecordVersion
  <2>3. upgrade' = [upgrade EXCEPT ![p] =
                      IF v \in recorded \/ rest = {} THEN NotUpgrading
                      ELSE [at |-> "script", pending |-> rest]]
    BY <1>3, Zenon DEF RecordVersion
  <2>4. \A o \in Upgraders : o # p => upgrade'[o] = upgrade[o]
    BY <2>3, Zenon
  <2>5. upgrade'[p].at # "record"
    BY <2>3, Zenon
  <2>6. upgrade'[p].at # "idle" => upgrade'[p].pending = rest /\ rest # {}
    BY <2>3, Zenon
  <2>7. Versions \ rest \subseteq recorded'
    BY <2>1, <2>2, Zenon
  <2>8. MigrationTyped'
    BY <2>1, <2>2, <2>3, Zenon
  <2>9. \A o \in Upgraders : upgrade'[o].at # "idle" =>
          /\ upgrade'[o].pending # {}
          /\ Versions \ upgrade'[o].pending \subseteq recorded'
          /\ upgrade'[o].at = "record" => Least(upgrade'[o].pending) \in schema
    <3> HIDE DEF rest, v
    <3>1. recorded \subseteq recorded'
      BY <2>2, Zenon
    <3> QED
      BY <2>4, <2>5, <2>6, <2>7, <3>1, Zenon
  <2>10. ASSUME ~interrupted, NEW u \in schema \ recorded'
         PROVE  \E o \in Upgraders : upgrade'[o].at = "record" /\ Least(upgrade'[o].pending) = u
    <3>1. u \in schema \ recorded /\ u # v
      BY <2>2, <2>10, Zenon
    <3>2. PICK o \in Upgraders : upgrade[o].at = "record" /\ Least(upgrade[o].pending) = u
      BY <2>10, <3>1, Zenon
    <3> QED
      BY <3>1, <3>2, <2>4, Zenon
  <2> QED
    BY <2>2, <2>8, <2>9, <2>10, Zenon
<1>4. ASSUME NEW p \in Upgraders, UpgraderDies(p) PROVE MigrationInv'
  <2>1. /\ upgrade' = [upgrade EXCEPT ![p] = NotUpgrading]
        /\ interrupted' = (interrupted \/ upgrade[p].at = "record")
        /\ UNCHANGED <<schema, recorded>>
    BY <1>4, Zenon DEF UpgraderDies
  <2>2. \A o \in Upgraders : o # p => upgrade'[o] = upgrade[o]
    BY <2>1, Zenon
  <2>3. upgrade'[p].at = "idle"
    BY <2>1, Zenon
  <2>4. MigrationTyped'
    <3>1. interrupted' \in BOOLEAN
      BY <2>1, Zenon
    <3>2. upgrade' \in [Upgraders -> [at : {"idle", "script", "record"}, pending : SUBSET Versions]]
      BY <2>1, Zenon
    <3> QED
      BY <3>1, <3>2, <2>1, Zenon
  <2>5. \A o \in Upgraders : upgrade'[o].at # "idle" =>
          /\ upgrade'[o].pending # {}
          /\ Versions \ upgrade'[o].pending \subseteq recorded
          /\ upgrade'[o].at = "record" => Least(upgrade'[o].pending) \in schema
    BY <2>2, <2>3, Zenon
  <2>6. ASSUME ~interrupted', NEW u \in schema \ recorded
        PROVE  \E o \in Upgraders : upgrade'[o].at = "record" /\ Least(upgrade'[o].pending) = u
    <3>1. ~interrupted /\ upgrade[p].at # "record"
      BY <2>1, <2>6, Zenon
    <3>2. PICK o \in Upgraders : upgrade[o].at = "record" /\ Least(upgrade[o].pending) = u
      BY <2>6, <3>1, Zenon
    <3> QED
      BY <3>1, <3>2, <2>2, Zenon
  <2> QED
    BY <2>1, <2>4, <2>5, <2>6, ZenonT(30)
<1> QED
  BY <1>0, <1>1, <1>2, <1>3, <1>4, Zenon DEF MigrationNext

(* Whatever processes race in apply_all or die there, versions reach the   *)
(* file in ascending order, a row of schema_migrations is never ahead of   *)
(* its script, and a script without a row has a process between its two    *)
(* commits, or one that died there (_apply).                               *)
THEOREM MigrationsAreOrdered == MigrationSpec => []SchemaIsOrdered
<1>1. MigrationInit => MigrationInv
  <2> SUFFICES ASSUME MigrationInit PROVE MigrationInv
    BY Zenon
  <2>1. MigrationTyped
    BY Zenon DEF MigrationInit, MigrationTyped, NotUpgrading
  <2> QED
    BY <2>1, Zenon DEF MigrationInit, MigrationInv, NotUpgrading
<1>2. MigrationInv /\ [MigrationNext]_migrationVars => MigrationInv'
  BY MigrationInvNext, Zenon
<1>3. MigrationInv => SchemaIsOrdered
  <2> SUFFICES ASSUME MigrationInv PROVE SchemaIsOrdered
    BY Zenon
  <2>1. ASSUME schema # recorded, ~interrupted
        PROVE  \E p \in Upgraders : upgrade[p].at = "record"
    <3>1. PICK v \in schema \ recorded : TRUE
      BY <2>1, Zenon DEF MigrationInv, MigrationTyped
    <3> QED
      BY <2>1, <3>1, Zenon DEF MigrationInv
  <2> QED
    BY <2>1, Zenon DEF MigrationInv, MigrationTyped, SchemaIsOrdered
<1> QED
  BY <1>1, <1>2, <1>3, PTL DEF MigrationSpec
-----------------------------------------------------------------------------
(* The exporting log.  A commit that has a background task is stored, and  *)
(* a commit the platform absorbed has a task that is over.                 *)
ExportInv ==
  /\ stored \in Seq(Commits)
  /\ trace \in Seq(Commits)
  /\ appends \in [Commits -> {"none", "writing", "ok", "raised"}]
  /\ exports \in [Commits -> {"none", "running", "done", "dropped", "cancelled"}]
  /\ \A c \in Commits : exports[c] # "none" => c \in Range(stored)
  /\ \A c \in Commits : appends[c] = "writing" => exports[c] = "none"
  /\ \A c \in Commits : appends[c] = "none" => exports[c] = "none"
  /\ \A c \in Commits : appends[c] = "ok" => exports[c] # "none"
  /\ \A c \in Range(trace) : exports[c] = "done"
  /\ \A i, j \in 1..Len(trace) : i # j => trace[i] # trace[j]

(* Appending to the inner log or to the trace adds one commit to it.       *)
LEMMA AppendAddsOne ==
  ASSUME NEW S, NEW s \in Seq(S), NEW x \in S
  PROVE  Range(Append(s, x)) = Range(s) \cup {x} /\ Append(s, x) \in Seq(S)
<1> DEFINE t == Append(s, x)
<1>1. t \in Seq(S) /\ Len(t) = Len(s) + 1 /\ t[Len(s) + 1] = x
  OBVIOUS
<1>2. \A i \in 1..Len(s) : t[i] = s[i]
  OBVIOUS
<1>3. DOMAIN t = 1..(Len(s) + 1) /\ DOMAIN s = 1..Len(s) /\ Len(s) \in Nat
  BY <1>1
<1>4. 1..(Len(s) + 1) = (1..Len(s)) \cup {Len(s) + 1}
  BY <1>3
<1> HIDE DEF t
<1>5. Range(t) = {t[i] : i \in 1..Len(s)} \cup {t[Len(s) + 1]}
  BY <1>3, <1>4, Zenon DEF Range
<1>6. Range(t) = Range(s) \cup {x}
  BY <1>1, <1>2, <1>3, <1>5, Zenon DEF Range
<1> QED
  BY <1>1, <1>6, Zenon DEF t

(* An append_action_commit, an export of the background task or close()    *)
(* keeps the invariant of the exporting log.                               *)
LEMMA ExportInvNext ==
  ASSUME ExportInv, [ExportNext]_exportVars
  PROVE  ExportInv'
<1> USE DEF ExportInv
<1>0. CASE UNCHANGED exportVars
  BY <1>0, Zenon DEF exportVars
<1>1. ASSUME NEW c \in Commits, AppendStarts(c) PROVE ExportInv'
  BY <1>1, Zenon DEF AppendStarts
<1>2. ASSUME NEW c \in Commits, InnerFails(c) PROVE ExportInv'
  BY <1>2, Zenon DEF InnerFails
<1>3. ASSUME NEW c \in Commits, InnerAppends(c) PROVE ExportInv'
  <2>1. Range(stored') = Range(stored) \cup {c} /\ stored' \in Seq(Commits)
    BY <1>3, AppendAddsOne DEF InnerAppends
  <2>2. UNCHANGED trace /\ appends[c] = "writing" /\ c \notin Range(trace)
    BY <1>3, Zenon DEF InnerAppends
  <2>3. CASE Migrates(c)
    <3>1. /\ appends' = [appends EXCEPT ![c] = "ok"]
          /\ exports' = [exports EXCEPT ![c] = "running"]
      BY <1>3, <2>3, Zenon DEF InnerAppends
    <3> QED
      BY <2>1, <2>2, <3>1
  <2>4. CASE ~Migrates(c)
    <3>1. appends' = [appends EXCEPT ![c] = "raised"] /\ UNCHANGED exports
      BY <1>3, <2>4, Zenon DEF InnerAppends
    <3> QED
      BY <2>1, <2>2, <3>1, Zenon
  <2> QED
    BY <2>3, <2>4, Zenon
<1>4. ASSUME NEW c \in Commits, ExportCommit(c) PROVE ExportInv'
  <2>1. Range(trace') = Range(trace) \cup {c} /\ trace' \in Seq(Commits)
    BY <1>4, AppendAddsOne DEF ExportCommit
  <2>2. /\ exports[c] = "running" /\ exports' = [exports EXCEPT ![c] = "done"]
        /\ UNCHANGED <<stored, appends>> /\ trace' = Append(trace, c)
    BY <1>4, Zenon DEF ExportCommit
  <2>3. \A i \in 1..Len(trace) : trace[i] # c
    BY <2>2 DEF Range
  <2>4. \A i, j \in 1..Len(trace') : i # j => trace'[i] # trace'[j]
    BY <2>2, <2>3
  <2> QED
    BY <2>1, <2>2, <2>4
<1>5. ASSUME NEW c \in Commits, ExportFails(c) PROVE ExportInv'
  BY <1>5 DEF ExportFails
<1>6. CASE Close
  <2>1. /\ exports' = [c \in Commits |->
                        IF exports[c] = "running" THEN "cancelled" ELSE exports[c]]
        /\ UNCHANGED <<stored, appends, trace>>
    BY <1>6, Zenon DEF Close
  <2>2. ASSUME NEW c \in Commits
        PROVE  \/ exports'[c] = exports[c]
               \/ exports[c] = "running" /\ exports'[c] = "cancelled"
    <3>1. exports'[c] = IF exports[c] = "running" THEN "cancelled" ELSE exports[c]
      BY <2>1, Zenon
    <3> QED
      BY <3>1, Zenon
  <2>3. exports' \in [Commits -> {"none", "running", "done", "dropped", "cancelled"}]
    BY <2>1, Zenon
  <2>4. Range(trace) \subseteq Commits
    BY DEF Range
  <2>5. \A c \in Range(trace) : exports'[c] = "done"
    BY <2>2, <2>4, Zenon
  <2> QED
    BY <2>1, <2>2, <2>3, <2>5
<1> QED
  BY <1>0, <1>1, <1>2, <1>3, <1>4, <1>5, <1>6, Zenon DEF ExportNext

(* What the platform absorbed is in the kernel's log, each commit once,    *)
(* and a commit reported as stored has its export task, whatever the order *)
(* of writes, exports and close() and whichever of them fail.              *)
THEOREM ExportsFollowTheLog == ExportSpec => []ExportFollowsTheLog
<1>1. ExportInit => ExportInv
  BY DEF ExportInit, ExportInv, Range
<1>2. ExportInv /\ [ExportNext]_exportVars => ExportInv'
  BY ExportInvNext, Zenon
<1>3. ExportInv => ExportFollowsTheLog
  <2> SUFFICES ASSUME ExportInv PROVE ExportFollowsTheLog
    BY Zenon
  <2>1. Range(trace) \subseteq Commits
    BY DEF ExportInv, Range
  <2>2. Range(trace) \subseteq Range(stored)
    BY <2>1, Zenon DEF ExportInv
  <2> QED
    BY <2>2, Zenon DEF ExportInv, ExportFollowsTheLog
<1> QED
  BY <1>1, <1>2, <1>3, PTL DEF ExportSpec
-----------------------------------------------------------------------------
(* The snapshots.  A recursion of the model is a function that follows its *)
(* step, by induction over the offsets.                                    *)
Snapshots == [offset : Nat, seen : Seq(Nat), present : BOOLEAN]

(* The events with authority grow by one event, or none, with each offset. *)
LEMMA AuthorityStep ==
  /\ Authority \in [0..LogLimit -> Seq(Nat)]
  /\ Authority[0] = <<>>
  /\ \A n \in 1..LogLimit :
       Authority[n] = IF n \in Diagnostic THEN Authority[n - 1] ELSE Append(Authority[n - 1], n)
<1> DEFINE N == LogLimit
           T == Seq(Nat)
           After(q, n) == IF n = 0 THEN <<>> ELSE IF n \in Diagnostic THEN q ELSE Append(q, n)
           adding == [x \in T \X (1..N) |-> After(x[1], x[2])]
<1>1. N \in Nat
  BY CacheAssumption, Zenon
<1>2. \A q \in T, n \in 1..N : After(q, n) \in T
  BY <1>1
<1>3. adding \in StepsOf(T, N)
  BY <1>2, Zenon DEF StepsOf
<1>4. PICK g : Follows(g, T, <<>>, N, adding)
  <2>1. <<>> \in T
    OBVIOUS
  <2> HIDE DEF adding, N, T
  <2> QED
    BY <1>1, <1>3, <2>1, BoundedRecursion, Zenon
<1>5. g \in [0..N -> T] /\ g[0] = <<>> /\ \A n \in 1..N : g[n] = adding[<<g[n - 1], n>>]
  BY <1>4, Zenon DEF Follows
<1>6. \A n \in 1..N : g[n] = After(g[n - 1], n)
  <2> SUFFICES ASSUME NEW n \in 1..N PROVE g[n] = After(g[n - 1], n)
    BY Zenon
  <2>1. n - 1 \in 0..N
    BY <1>1
  <2>2. g[n - 1] \in T
    BY <1>5, <2>1, Zenon
  <2> QED
    BY <1>5, <2>2, Zenon
<1>7. g = [n \in 0..N |-> After(g[n - 1], n)]
  <2>1. \A n \in 0..N : n # 0 => n \in 1..N
    BY <1>1
  <2>2. After(g[0 - 1], 0) = <<>>
    BY Zenon
  <2> HIDE DEF After, T
  <2>3. \A n \in 0..N : g[n] = After(g[n - 1], n)
    BY <1>5, <1>6, <2>1, <2>2, Zenon
  <2> QED
    BY <1>5, <2>3, Zenon
<1>8. Authority = [n \in 0..N |-> After(Authority[n - 1], n)]
  <2>1. Authority = CHOOSE f : f = [n \in 0..N |-> After(f[n - 1], n)]
    BY Zenon DEF Authority
  <2> HIDE DEF After, N
  <2> QED
    BY <1>7, <2>1, Zenon
<1>9. \A n \in 0..N : Authority[n] = After(Authority[n - 1], n)
  <2> HIDE DEF After, N
  <2> QED
    BY <1>8, Zenon
<1> DEFINE S == {n \in 0..N : Authority[n] \in T}
<1>10. 0 \in S /\ Authority[0] = <<>>
  <2>1. 0 \in 0..N
    BY <1>1
  <2>2. Authority[0] = After(Authority[0 - 1], 0)
    BY <1>9, <2>1, Zenon
  <2>3. Authority[0] = <<>>
    BY <2>2, Zenon
  <2>4. Authority[0] \in T
    BY <2>3
  <2> HIDE DEF N, T
  <2> QED
    BY <2>1, <2>3, <2>4, Zenon
<1>11. ASSUME NEW n \in 0..(N - 1), n \in S PROVE n + 1 \in S
  <2>1. n + 1 \in 1..N /\ n + 1 \in 0..N /\ (n + 1) - 1 = n
    BY <1>1
  <2>2. Authority[n + 1] = After(Authority[n], n + 1)
    BY <1>9, <2>1, Zenon
  <2>3. Authority[n] \in T
    BY <1>11, Zenon
  <2> QED
    BY <1>2, <2>1, <2>2, <2>3, Zenon
<1>12. 0..N \subseteq S
  <2> HIDE DEF S, N
  <2> QED
    BY <1>1, <1>10, <1>11, BoundedInduction, Zenon
<1>13. Authority \in [0..N -> T]
  <2> HIDE DEF After, N, T
  <2> QED
    BY <1>8, <1>12, Zenon
<1>14. ASSUME NEW n \in 1..LogLimit
       PROVE  Authority[n] =
                IF n \in Diagnostic THEN Authority[n - 1] ELSE Append(Authority[n - 1], n)
  <2>1. n \in 0..N /\ n # 0
    BY <1>1
  <2>2. Authority[n] = After(Authority[n - 1], n)
    BY <1>9, <2>1, Zenon
  <2> QED
    BY <2>1, <2>2, Zenon
<1> QED
  BY <1>10, <1>13, <1>14, Zenon

(* Replaying the unseen events through an offset on top of a projection    *)
(* that has consumed what its offset says gives another such projection,   *)
(* not beyond the end of the log (catch_up of the projection service).     *)
LEMMA ReplayKeepsSeen ==
  ASSUME NEW last \in 0..LogLimit, NEW p \in Snapshots, p.offset <= last,
         p.seen = Authority[p.offset], NEW upto \in Nat
  PROVE  /\ Replay(p, last, upto) \in Snapshots
         /\ Replay(p, last, upto).offset <= last
         /\ Replay(p, last, upto).seen = Authority[Replay(p, last, upto).offset]
<1> DEFINE T == Snapshots
           base == [p EXCEPT !.present = TRUE]
           After(q, n) == IF n <= p.offset THEN base
                          ELSE IF n > upto \/ n \in Diagnostic THEN q
                          ELSE [offset |-> n, seen |-> Append(q.seen, n), present |-> TRUE]
           adding == [x \in T \X (1..last) |-> After(x[1], x[2])]
<1>1. last \in Nat /\ LogLimit \in Nat
  BY CacheAssumption
<1>2. base \in T /\ base.offset = p.offset /\ base.seen = p.seen
  BY Zenon DEF Snapshots
<1>3. \A q \in T, n \in 1..last : After(q, n) \in T
  BY <1>1, <1>2 DEF Snapshots
<1>4. adding \in StepsOf(T, last)
  BY <1>3, Zenon DEF StepsOf
<1>5. PICK g : Follows(g, T, base, last, adding)
  <2> HIDE DEF adding, T, base
  <2> QED
    BY <1>1, <1>2, <1>4, BoundedRecursion, Zenon
<1>6. g \in [0..last -> T] /\ g[0] = base /\ \A n \in 1..last : g[n] = adding[<<g[n - 1], n>>]
  BY <1>5, Zenon DEF Follows
<1>7. \A n \in 1..last : g[n] = After(g[n - 1], n)
  <2> SUFFICES ASSUME NEW n \in 1..last PROVE g[n] = After(g[n - 1], n)
    BY Zenon
  <2>1. n - 1 \in 0..last
    BY <1>1
  <2>2. g[n - 1] \in T
    BY <1>6, <2>1, Zenon
  <2> HIDE DEF T, After
  <2> QED
    BY <1>6, <2>2, Zenon
<1>8. g = [n \in 0..last |-> After(g[n - 1], n)]
  <2>1. 0 <= p.offset
    BY DEF Snapshots
  <2>2. \A n \in 0..last : n # 0 => n \in 1..last
    BY <1>1
  <2>3. After(g[0 - 1], 0) = base
    BY <2>1, Zenon
  <2> HIDE DEF After, base, T
  <2>4. \A n \in 0..last : g[n] = After(g[n - 1], n)
    BY <1>6, <1>7, <2>2, <2>3, Zenon
  <2> QED
    BY <1>6, <2>4, Zenon
<1> DEFINE R == CHOOSE f : f = [n \in 0..last |-> After(f[n - 1], n)]
<1>9. R = [n \in 0..last |-> After(R[n - 1], n)]
  <2> HIDE DEF After
  <2> QED
    BY <1>8, Zenon
<1>10. Replay(p, last, upto) = R[last]
  BY Zenon DEF Replay
<1> HIDE DEF R
<1>11. \A n \in 0..last : R[n] = After(R[n - 1], n)
  <2> HIDE DEF After
  <2> QED
    BY <1>9, Zenon
<1> DEFINE Right(n) == /\ R[n] \in T
                       /\ R[n].offset <= last
                       /\ R[n].seen = Authority[R[n].offset]
                       /\ n <= p.offset => R[n] = base
                       /\ p.offset <= n /\ n <= upto => R[n].seen = Authority[n]
           S == {n \in 0..last : Right(n)}
<1>12. 0 \in S
  <2>1. 0 \in 0..last /\ 0 <= p.offset
    BY <1>1 DEF Snapshots
  <2>2. R[0] = base
    BY <1>11, <2>1, Zenon
  <2>3. p.offset <= 0 => p.offset = 0
    BY DEF Snapshots
  <2> QED
    BY <1>2, <2>1, <2>2, <2>3, Zenon
<1>13. ASSUME NEW n \in 0..(last - 1), n \in S PROVE n + 1 \in S
  <2>1. n + 1 \in 1..last /\ n + 1 \in 0..last /\ (n + 1) - 1 = n /\ n \in Nat
        /\ n + 1 \in 1..LogLimit
    BY <1>1
  <2>2. R[n + 1] = After(R[n], n + 1)
    BY <1>11, <2>1, Zenon
  <2>3. Right(n)
    BY <1>13, Zenon
  <2>4. p.offset \in Nat
    BY Zenon DEF Snapshots
  <2>5. R[n + 1] \in T
    BY <1>3, <2>1, <2>2, <2>3, Zenon
  <2>6. CASE n + 1 <= p.offset
    <3>1. R[n + 1] = base
      BY <2>2, <2>6, Zenon
    <3>2. p.offset <= n + 1 => p.offset = n + 1
      BY <2>1, <2>4, <2>6
    <3> QED
      BY <1>2, <2>1, <2>5, <3>1, <3>2, Zenon
  <2>7. CASE ~(n + 1 <= p.offset) /\ n + 1 > upto
    <3>1. R[n + 1] = R[n] /\ ~(n + 1 <= upto)
      BY <2>1, <2>2, <2>7
    <3> QED
      BY <2>1, <2>3, <2>5, <2>7, <3>1, Zenon
  <2>8. CASE ~(n + 1 <= p.offset) /\ ~(n + 1 > upto)
    <3>1. p.offset <= n /\ n <= upto
      BY <2>1, <2>4, <2>8
    <3>2. R[n].seen = Authority[n]
      BY <2>3, <3>1, Zenon
    <3>3. CASE n + 1 \in Diagnostic
      <4>1. R[n + 1] = R[n]
        BY <2>2, <2>8, <3>3, Zenon
      <4>2. Authority[n + 1] = Authority[n]
        BY <2>1, <3>3, AuthorityStep, Zenon
      <4> QED
        BY <2>1, <2>3, <2>5, <2>8, <3>2, <4>1, <4>2, Zenon
    <3>4. CASE n + 1 \notin Diagnostic
      <4>1. R[n + 1] = [offset |-> n + 1, seen |-> Append(R[n].seen, n + 1), present |-> TRUE]
        BY <2>2, <2>8, <3>4, Zenon
      <4>2. Authority[n + 1] = Append(Authority[n], n + 1)
        BY <2>1, <3>4, AuthorityStep, Zenon
      <4>3. R[n + 1].offset = n + 1 /\ R[n + 1].seen = Authority[n + 1]
        BY <3>2, <4>1, <4>2
      <4>4. n + 1 <= last
        BY <2>1
      <4> QED
        BY <2>1, <2>5, <2>8, <4>3, <4>4, Zenon
    <3> QED
      BY <3>3, <3>4, Zenon
  <2> QED
    BY <2>6, <2>7, <2>8, Zenon
<1>14. 0..last \subseteq S
  <2> HIDE DEF S
  <2> QED
    BY <1>1, <1>12, <1>13, BoundedInduction, Zenon
<1>15. last \in 0..last
  BY <1>1
<1> QED
  BY <1>10, <1>14, <1>15, Zenon

(* Every projection in memory, in the row or under a reader has consumed   *)
(* what its offset says, and the log is at least that long.                *)
Seen(p) == p \in Snapshots /\ p.offset <= logged /\ p.seen = Authority[p.offset]

CacheInv ==
  /\ logged \in 0..LogLimit
  /\ Seen(snapshot)
  /\ memory = [i \in Instances |-> memory[i]]
  /\ \A i \in Instances : Seen(memory[i])
  /\ reading \in [Instances -> [busy : BOOLEAN, base : Snapshots, upto : Nat, save : BOOLEAN]]
  /\ \A i \in Instances : Seen(reading[i].base)

(* An instance that reads, replays, saves or restarts keeps the invariant. *)
LEMMA CacheInvNext ==
  ASSUME CacheInv, [CacheNext]_cacheVars
  PROVE  CacheInv'
<1>0. logged \in Nat /\ LogLimit \in Nat /\ Seen(NoProjection) /\ NoProjection \in Snapshots
  BY CacheAssumption, AuthorityStep DEF CacheInv, Seen, NoProjection, Snapshots
<1>1. CASE UNCHANGED cacheVars
  BY <1>1, Zenon DEF cacheVars, CacheInv, Seen
<1>2. CASE LogGrows
  <2>1. logged' = logged + 1 /\ logged' \in 0..LogLimit /\ UNCHANGED <<memory, snapshot, reading>>
    BY <1>0, <1>2 DEF LogGrows
  <2>2. \A p : Seen(p) => p \in Snapshots /\ p.offset <= logged + 1 /\ p.seen = Authority[p.offset]
    BY <1>0 DEF Seen, Snapshots
  <2> QED
    BY <2>1, <2>2, Zenon DEF CacheInv, Seen
<1>3. ASSUME NEW i \in Instances, NEW upto \in Nat, NEW save \in BOOLEAN,
             ReadBegins(i, upto, save)
      PROVE  CacheInv'
  <2>1. PICK p : p = Seed(i)
    BY Zenon
  <2>2. Seen(p)
    BY <2>1, Zenon DEF Seed, CacheInv
  <2>3. /\ memory' = [memory EXCEPT ![i] = p]
        /\ reading' = [reading EXCEPT ![i] =
                         [busy |-> TRUE, base |-> p, upto |-> upto, save |-> save]]
        /\ UNCHANGED <<logged, snapshot>>
    BY <1>3, <2>1, Zenon DEF ReadBegins
  <2>4. \A q : Seen(q)' <=> Seen(q)
    BY <2>3, Zenon DEF Seen
  <2>5. memory' = [j \in Instances |-> memory'[j]] /\ \A j \in Instances : Seen(memory'[j])
    BY <2>2, <2>3, Zenon DEF CacheInv
  <2>6. reading' \in [Instances -> [busy : BOOLEAN, base : Snapshots, upto : Nat, save : BOOLEAN]]
    BY <2>2, <2>3, Zenon DEF CacheInv, Seen
  <2>7. \A j \in Instances : Seen(reading'[j].base)
    BY <2>2, <2>3, Zenon DEF CacheInv
  <2> QED
    BY <2>3, <2>4, <2>5, <2>6, <2>7, Zenon DEF CacheInv
<1>4. ASSUME NEW i \in Instances, ReadEnds(i) PROVE CacheInv'
  <2>1. PICK p, upto, last : p = reading[i].base /\ upto = reading[i].upto /\ last = logged
    BY Zenon
  <2>2. PICK q : q = Replay(p, last, upto)
    BY Zenon
  <2>3. Seen(p) /\ upto \in Nat /\ last \in 0..LogLimit
    BY <2>1, Zenon DEF CacheInv
  <2>4. Seen(q)
    <3>1. /\ p \in Snapshots /\ p.offset <= last /\ p.seen = Authority[p.offset]
      BY <2>1, <2>3, Zenon DEF Seen
    <3>2. /\ Replay(p, last, upto) \in Snapshots
          /\ Replay(p, last, upto).offset <= last
          /\ Replay(p, last, upto).seen = Authority[Replay(p, last, upto).offset]
      BY <2>3, <3>1, ReplayKeepsSeen, Zenon
    <3> QED
      BY <2>1, <2>2, <3>2, Zenon DEF Seen
  <2>5. /\ memory' = [memory EXCEPT ![i] = q]
        /\ snapshot' = IF reading[i].save THEN q ELSE snapshot
        /\ reading' = [reading EXCEPT ![i] = NotReading]
        /\ logged' = logged
    BY <1>4, <2>1, <2>2, Zenon DEF ReadEnds
  <2>6. \A x : Seen(x)' <=> Seen(x)
    BY <2>5, Zenon DEF Seen
  <2>7. memory' = [j \in Instances |-> memory'[j]] /\ \A j \in Instances : Seen(memory'[j])
    BY <2>4, <2>5, Zenon DEF CacheInv
  <2>8. reading' \in [Instances -> [busy : BOOLEAN, base : Snapshots, upto : Nat, save : BOOLEAN]]
    BY <1>0, <2>5, Zenon DEF CacheInv, NotReading
  <2>9. \A j \in Instances : Seen(reading'[j].base)
    BY <1>0, <2>5, Zenon DEF CacheInv, NotReading
  <2>10. Seen(snapshot')
    BY <2>4, <2>5, Zenon DEF CacheInv
  <2> QED
    BY <2>5, <2>6, <2>7, <2>8, <2>9, <2>10, Zenon DEF CacheInv
<1>5. ASSUME NEW i \in Instances, InstanceRestarts(i) PROVE CacheInv'
  <2>1. /\ memory' = [memory EXCEPT ![i] = NoProjection]
        /\ reading' = [reading EXCEPT ![i] = NotReading]
        /\ UNCHANGED <<logged, snapshot>>
    BY <1>5, Zenon DEF InstanceRestarts
  <2>2. \A x : Seen(x)' <=> Seen(x)
    BY <2>1, Zenon DEF Seen
  <2>3. memory' = [j \in Instances |-> memory'[j]] /\ \A j \in Instances : Seen(memory'[j])
    BY <1>0, <2>1, Zenon DEF CacheInv
  <2>4. reading' \in [Instances -> [busy : BOOLEAN, base : Snapshots, upto : Nat, save : BOOLEAN]]
    BY <1>0, <2>1, Zenon DEF CacheInv, NotReading
  <2>5. \A j \in Instances : Seen(reading'[j].base)
    BY <1>0, <2>1, Zenon DEF CacheInv, NotReading
  <2> QED
    BY <2>1, <2>2, <2>3, <2>4, <2>5, Zenon DEF CacheInv
<1>6. ASSUME NEW i \in Instances, CatchUp(i) \/ Get(i) PROVE CacheInv'
  <2>1. \E upto \in Nat, save \in BOOLEAN : ReadBegins(i, upto, save)
    <3>1. CASE CatchUp(i)
      <4>1. PICK upto \in 1..LogLimit : ReadBegins(i, upto, TRUE)
        BY <3>1, Zenon DEF CatchUp
      <4>2. upto \in Nat /\ TRUE \in BOOLEAN
        BY <1>0
      <4> QED
        BY <4>1, <4>2, Zenon
    <3>2. CASE Get(i)
      BY <1>0, <3>2, Zenon DEF Get
    <3> QED
      BY <1>6, <3>1, <3>2, Zenon
  <2> QED
    BY <1>3, <2>1, Zenon
<1> QED
  BY <1>1, <1>2, <1>4, <1>5, <1>6, Zenon DEF CacheNext

(* Whichever instance overwrites the snapshot row, ahead or behind, and    *)
(* whichever restarts from it, a projection has consumed the events with   *)
(* authority up to its own offset, in order, none lost and none twice.     *)
THEOREM SnapshotsAreReplays == CacheSpec => []SnapshotsReplayTheLog
<1>1. CacheInit => CacheInv
  <2> SUFFICES ASSUME CacheInit PROVE CacheInv
    BY Zenon
  <2>1. logged = 0 /\ 0 \in 0..LogLimit
    BY CacheAssumption DEF CacheInit
  <2>2. Seen(NoProjection) /\ NoProjection \in Snapshots
    BY <2>1, AuthorityStep DEF Seen, NoProjection, Snapshots
  <2>3. /\ memory = [i \in Instances |-> NoProjection] /\ snapshot = NoProjection
        /\ reading = [i \in Instances |-> NotReading]
    BY Zenon DEF CacheInit
  <2>4. reading \in [Instances -> [busy : BOOLEAN, base : Snapshots, upto : Nat, save : BOOLEAN]]
    BY <2>2, <2>3, Zenon DEF NotReading
  <2>5. \A i \in Instances : Seen(memory[i]) /\ Seen(reading[i].base)
    BY <2>2, <2>3, Zenon DEF NotReading
  <2>6. memory = [i \in Instances |-> memory[i]]
    BY <2>3, Zenon
  <2> QED
    BY <2>1, <2>2, <2>3, <2>4, <2>5, <2>6, Zenon DEF CacheInv
<1>2. CacheInv /\ [CacheNext]_cacheVars => CacheInv'
  BY CacheInvNext, Zenon
<1>3. CacheInv => SnapshotsReplayTheLog
  BY Zenon DEF CacheInv, Seen, SnapshotsReplayTheLog
<1> QED
  BY <1>1, <1>2, <1>3, PTL DEF CacheSpec
-----------------------------------------------------------------------------
(* Reasoning.  The backoff of a cycle is the base delay doubled once per   *)
(* attempt; a cycle that sleeps wakes late enough for the refusal of its   *)
(* attempt, and its last request was late enough for the earlier ones.     *)
CycleSteps == {"new", "waiting", "sleeping", "noop", "acting", "cancelled"}

Demand(l) == IF l[3] \in RetryAfter THEN l[3] ELSE Doubled[l[1]]

ReasonTyped ==
  /\ moment \in Nat
  /\ step \in [Cycles -> CycleSteps]
  /\ attempt \in [Cycles -> 0..(MaxRetries - 1)]
  /\ backoff \in [Cycles -> Nat]
  /\ wake \in [Cycles -> Nat]
  /\ requests \in [Cycles -> Nat]
  /\ sentAt \in [Cycles -> Nat]
  /\ DOMAIN limits = Cycles /\ limits = [i \in Cycles |-> limits[i]]

CycleInv(i) ==
  /\ backoff[i] = Doubled[attempt[i]]
  /\ sentAt[i] <= moment
  /\ requests[i] <= attempt[i] + 1
  /\ step[i] = "new" => requests[i] = 0
  /\ \A l \in limits[i] :
       /\ l[1] \in 0..attempt[i] /\ l[2] \in Nat /\ Demand(l) \in Nat
       /\ step[i] \in {"new", "waiting"} => l[1] < attempt[i]
       /\ l[1] < attempt[i] => sentAt[i] >= l[2] + Demand(l)
       /\ step[i] = "sleeping" /\ l[1] = attempt[i] => wake[i] >= l[2] + Demand(l)
  /\ step[i] = "sleeping" => attempt[i] < MaxRetries - 1

ReasonInv == ReasonTyped /\ \A i \in Cycles : CycleInv(i)

(* What the recursive definition of the doubled delay says of its values.  *)
LEMMA DoubledStep ==
  /\ Doubled \in [0..MaxRetries -> Nat]
  /\ Doubled[0] = BaseDelay
  /\ \A n \in 1..MaxRetries : Doubled[n] = 2 * Doubled[n - 1]
<1> DEFINE N == MaxRetries
           After(q, n) == IF n = 0 THEN BaseDelay ELSE 2 * q
           advance == [x \in Nat \X (1..N) |-> After(x[1], x[2])]
<1>1. N \in Nat /\ BaseDelay \in Nat
  BY RetryAssumption, Zenon
<1>2. advance \in StepsOf(Nat, N)
  BY <1>1 DEF StepsOf
<1>3. PICK g : Follows(g, Nat, BaseDelay, N, advance)
  <2> HIDE DEF advance, N
  <2> QED
    BY <1>1, <1>2, BoundedRecursion, Zenon
<1>4. /\ g \in [0..N -> Nat] /\ g[0] = BaseDelay
      /\ \A n \in 1..N : g[n] = advance[<<g[n - 1], n>>]
  BY <1>3, Zenon DEF Follows
<1>5. \A n \in 1..N : g[n] = After(g[n - 1], n)
  <2> SUFFICES ASSUME NEW n \in 1..N PROVE g[n] = After(g[n - 1], n)
    BY Zenon
  <2>1. n - 1 \in 0..N
    BY <1>1
  <2>2. g[n - 1] \in Nat
    BY <1>4, <2>1, Zenon
  <2> QED
    BY <1>4, <2>2, Zenon
<1>6. g = [n \in 0..N |-> After(g[n - 1], n)]
  <2>1. \A n \in 0..N : n # 0 => n \in 1..N
    BY <1>1
  <2>2. After(g[0 - 1], 0) = BaseDelay
    BY Zenon
  <2> HIDE DEF After
  <2>3. \A n \in 0..N : g[n] = After(g[n - 1], n)
    BY <1>4, <1>5, <2>1, <2>2, Zenon
  <2> QED
    BY <1>4, <2>3, Zenon
<1>7. Doubled = [n \in 0..N |-> After(Doubled[n - 1], n)]
  <2>1. Doubled = CHOOSE f : f = [n \in 0..N |-> After(f[n - 1], n)]
    BY Zenon DEF Doubled
  <2> HIDE DEF After, N
  <2> QED
    BY <1>6, <2>1, Zenon
<1>8. \A n \in 0..N : Doubled[n] = After(Doubled[n - 1], n)
  <2> HIDE DEF After, N
  <2> QED
    BY <1>7, Zenon
<1> DEFINE S == {n \in 0..N : Doubled[n] \in Nat}
<1>9. 0 \in 0..N /\ Doubled[0] = BaseDelay
  <2>1. 0 \in 0..N
    BY <1>1
  <2>2. Doubled[0] = After(Doubled[0 - 1], 0)
    BY <1>8, <2>1, Zenon
  <2> QED
    BY <2>1, <2>2, Zenon
<1>10. \A n \in 1..N : Doubled[n] = 2 * Doubled[n - 1]
  <2> SUFFICES ASSUME NEW n \in 1..N PROVE Doubled[n] = 2 * Doubled[n - 1]
    BY Zenon
  <2>1. n \in 0..N /\ n # 0
    BY <1>1
  <2>2. Doubled[n] = After(Doubled[n - 1], n)
    BY <1>8, <2>1, Zenon
  <2> QED
    BY <2>1, <2>2, Zenon
<1>11. ASSUME NEW n \in 0..(N - 1), n \in S PROVE n + 1 \in S
  <2>1. n + 1 \in 1..N /\ n + 1 \in 0..N /\ (n + 1) - 1 = n
    BY <1>1
  <2>2. Doubled[n + 1] = 2 * Doubled[n]
    BY <1>10, <2>1, Zenon
  <2> QED
    BY <1>11, <2>1, <2>2
<1>12. 0..N \subseteq S
  <2>1. 0 \in S
    BY <1>1, <1>9, Zenon
  <2> HIDE DEF S, N
  <2> QED
    BY <1>1, <1>11, <2>1, BoundedInduction, Zenon
<1>13. Doubled \in [0..N -> Nat]
  <2>1. \A n \in 0..N : Doubled[n] \in Nat
    BY <1>12, Zenon
  <2>2. DOMAIN Doubled = 0..N /\ Doubled = [n \in 0..N |-> Doubled[n]]
    <3> HIDE DEF After, N
    <3> QED
      BY <1>7, Zenon
  <2> HIDE DEF N
  <2> QED
    BY <2>1, <2>2, Zenon
<1> QED
  BY <1>9, <1>10, <1>13, Zenon

(* A step of a cycle, or of the clock, keeps the invariant of the retries. *)
LEMMA ReasonInvNext ==
  ASSUME ReasonInv, [ReasonNext]_reasonVars
  PROVE  ReasonInv'
<1> USE RetryAssumption, DoubledStep
<1>0. ReasonTyped /\ \A i \in Cycles : CycleInv(i)
  BY Zenon DEF ReasonInv
<1>a. \A i \in Cycles : Doubled[attempt[i]] \in Nat
  BY <1>0 DEF ReasonTyped
<1>1. CASE UNCHANGED reasonVars
  BY <1>0, <1>1, Zenon DEF reasonVars, ReasonInv, ReasonTyped, CycleInv
<1>2. CASE ReasonTick
  BY <1>0, <1>2 DEF ReasonTick, ReasonInv, ReasonTyped, CycleInv
<1>3. ASSUME NEW i \in Cycles, NEW s \in {"noop", "acting", "cancelled"}, Goes(i, s),
             UNCHANGED <<moment, attempt, backoff, wake, requests, limits, sentAt>>
      PROVE  ReasonInv'
  <2>1. ReasonTyped'
    BY <1>0, <1>3, Zenon DEF ReasonTyped, Goes, CycleSteps
  <2>2. ASSUME NEW j \in Cycles PROVE CycleInv(j)'
    <3>1. CycleInv(j) /\ step'[j] \in {step[j], s}
      BY <1>0, <1>3, Zenon DEF Goes, ReasonTyped
    <3> QED
      BY <1>3, <3>1, Zenon DEF CycleInv
  <2> QED
    BY <2>1, <2>2, Zenon DEF ReasonInv
<1>4. ASSUME NEW i \in Cycles, AssembleContext(i) PROVE ReasonInv'
  <2>1. ReasonTyped'
    BY <1>0, <1>4 DEF AssembleContext, SendRequest, Goes, ReasonTyped, CycleSteps
  <2>2. ASSUME NEW j \in Cycles PROVE CycleInv(j)'
    <3>1. CASE j # i
      <4>1. /\ step'[j] = step[j] /\ requests'[j] = requests[j] /\ sentAt'[j] = sentAt[j]
            /\ UNCHANGED <<moment, attempt, backoff, wake, limits>>
        BY <1>0, <1>4, <3>1, Zenon DEF AssembleContext, SendRequest, Goes, ReasonTyped
      <4> QED
        BY <1>0, <4>1, Zenon DEF CycleInv
    <3>2. CASE j = i
      <4>1. /\ step[i] = "new" /\ step'[i] = "waiting" /\ requests'[i] = requests[i] + 1
            /\ sentAt'[i] = moment
            /\ UNCHANGED <<moment, attempt, backoff, wake, limits>>
        BY <1>0, <1>4, Zenon DEF AssembleContext, SendRequest, Goes, ReasonTyped
      <4>2. /\ CycleInv(i) /\ requests[i] = 0 /\ sentAt[i] <= moment
            /\ attempt[i] \in Nat /\ moment \in Nat /\ sentAt[i] \in Nat
        <5>1. /\ CycleInv(i) /\ requests[i] = 0 /\ sentAt[i] <= moment
              /\ moment \in Nat /\ sentAt[i] \in Nat
          BY <1>0, <4>1, Zenon DEF CycleInv, ReasonTyped
        <5>2. attempt[i] \in Nat
          BY <1>0 DEF ReasonTyped
        <5> QED
          BY <5>1, <5>2, Zenon
      <4>3. requests'[i] <= attempt[i] + 1 /\ moment <= moment
        BY <4>1, <4>2
      <4>4. \A l : Demand(l)' = Demand(l)
        BY Zenon DEF Demand
      <4>5. ASSUME NEW l \in limits[i]
            PROVE  /\ l[1] \in 0..attempt[i] /\ l[2] \in Nat /\ Demand(l) \in Nat
                   /\ l[1] < attempt[i] /\ moment >= l[2] + Demand(l)
        <5>1. /\ l[1] \in 0..attempt[i] /\ l[2] \in Nat /\ Demand(l) \in Nat
              /\ l[1] < attempt[i] /\ sentAt[i] >= l[2] + Demand(l)
          BY <4>1, <4>2, Zenon DEF CycleInv
        <5>2. \A a, b, c \in Nat : a <= b /\ a >= c => b >= c
          OBVIOUS
        <5>3. l[2] + Demand(l) \in Nat
          BY <5>1
        <5> QED
          BY <4>2, <5>1, <5>2, <5>3, Zenon
      <4> HIDE DEF Demand
      <4> QED
        BY <3>2, <4>1, <4>2, <4>3, <4>4, <4>5, Zenon DEF CycleInv
    <3> QED
      BY <3>1, <3>2, Zenon
  <2> QED
    BY <2>1, <2>2, Zenon DEF ReasonInv
<1>5. ASSUME NEW i \in Cycles, RetryRequest(i) PROVE ReasonInv'
  <2>0. attempt[i] < MaxRetries - 1 /\ attempt[i] + 1 \in 1..MaxRetries /\ attempt[i] \in Nat
    BY <1>0, <1>5 DEF RetryRequest, CycleInv, ReasonTyped
  <2>1. ReasonTyped'
    <3>1. attempt[i] + 1 \in 0..(MaxRetries - 1) /\ 2 * backoff[i] \in Nat
      BY <1>0, <2>0 DEF ReasonTyped
    <3>2. attempt' \in [Cycles -> 0..(MaxRetries - 1)] /\ backoff' \in [Cycles -> Nat]
      BY <1>0, <1>5, <3>1, Zenon DEF RetryRequest, ReasonTyped
    <3>3. /\ step' \in [Cycles -> CycleSteps] /\ requests' \in [Cycles -> Nat]
          /\ sentAt' \in [Cycles -> Nat]
      BY <1>0, <1>5 DEF RetryRequest, SendRequest, Goes, ReasonTyped, CycleSteps
    <3> QED
      BY <1>0, <1>5, <3>2, <3>3, Zenon DEF RetryRequest, ReasonTyped
  <2>2. ASSUME NEW j \in Cycles PROVE CycleInv(j)'
    <3>1. CASE j # i
      <4>1. /\ step'[j] = step[j] /\ requests'[j] = requests[j] /\ sentAt'[j] = sentAt[j]
            /\ attempt'[j] = attempt[j] /\ backoff'[j] = backoff[j]
            /\ UNCHANGED <<moment, wake, limits>>
        BY <1>0, <1>5, <3>1, Zenon DEF RetryRequest, SendRequest, Goes, ReasonTyped
      <4> QED
        BY <1>0, <4>1, Zenon DEF CycleInv
    <3>2. CASE j = i
      <4>1. /\ step[i] = "sleeping" /\ moment >= wake[i]
            /\ step'[i] = "waiting" /\ requests'[i] = requests[i] + 1
            /\ sentAt'[i] = moment /\ attempt'[i] = attempt[i] + 1
            /\ backoff'[i] = 2 * backoff[i]
            /\ UNCHANGED <<moment, wake, limits>>
        BY <1>0, <1>5, Zenon DEF RetryRequest, SendRequest, Goes, ReasonTyped
      <4>2. Doubled[attempt[i] + 1] = 2 * Doubled[attempt[i]]
        <5>1. (attempt[i] + 1) - 1 = attempt[i]
          BY <2>0
        <5> QED
          BY <2>0, <5>1, Zenon
      <4>3. /\ moment \in Nat /\ wake[i] \in Nat /\ sentAt[i] \in Nat /\ requests[i] \in Nat
            /\ sentAt[i] <= moment /\ CycleInv(i)
        BY <1>0, Zenon DEF ReasonTyped, CycleInv
      <4>4. ASSUME NEW l \in limits[i]
            PROVE  /\ l[1] \in 0..(attempt[i] + 1) /\ l[2] \in Nat /\ Demand(l) \in Nat
                   /\ l[1] < attempt[i] + 1 /\ moment >= l[2] + Demand(l)
        <5>1. /\ l[1] \in 0..attempt[i] /\ l[2] \in Nat /\ Demand(l) \in Nat
              /\ l[1] < attempt[i] => sentAt[i] >= l[2] + Demand(l)
              /\ l[1] = attempt[i] => wake[i] >= l[2] + Demand(l)
          BY <4>1, <4>3, Zenon DEF CycleInv
        <5> DEFINE due == l[2] + Demand(l)
        <5>2. due \in Nat
          BY <5>1
        <5>3. /\ moment \in Nat /\ wake[i] \in Nat /\ sentAt[i] \in Nat
              /\ moment >= wake[i] /\ sentAt[i] <= moment
          BY <4>1, <4>3, Zenon
        <5>4. l[1] \in Nat /\ l[1] <= attempt[i] /\ l[1] \in 0..(attempt[i] + 1)
              /\ l[1] < attempt[i] + 1
          <6>1. \A a \in Nat : \A k \in 0..a : k \in Nat /\ k <= a /\ k \in 0..(a + 1) /\ k < a + 1
            OBVIOUS
          <6>2. attempt[i] \in Nat /\ l[1] \in 0..attempt[i]
            BY <2>0, <5>1, Zenon
          <6> QED
            BY <6>1, <6>2, Zenon
        <5>5. sentAt[i] >= due \/ wake[i] >= due
          <6>1. \A k, a \in Nat : k <= a => k < a \/ k = a
            OBVIOUS
          <6>2. l[1] < attempt[i] \/ l[1] = attempt[i]
            BY <2>0, <5>4, <6>1, Zenon
          <6> QED
            BY <5>1, <6>2, Zenon
        <5>6. moment >= due
          <6> HIDE DEF due
          <6> QED
            BY <5>2, <5>3, <5>5
        <5> QED
          BY <5>1, <5>4, <5>6, Zenon
      <4>5. backoff'[i] = Doubled[attempt'[i]] /\ requests'[i] <= attempt'[i] + 1
        <5>1. backoff[i] = Doubled[attempt[i]] /\ requests[i] <= attempt[i] + 1
          BY <4>3, Zenon DEF CycleInv
        <5>2. backoff'[i] = Doubled[attempt'[i]]
          BY <4>1, <4>2, <5>1, Zenon
        <5>3. requests'[i] <= attempt'[i] + 1
          <6>1. \A a, n \in Nat : n <= a + 1 => n + 1 <= (a + 1) + 1
            OBVIOUS
          <6>2. attempt[i] \in Nat /\ requests[i] \in Nat
            BY <2>0, <4>3, Zenon
          <6>3. requests[i] + 1 <= (attempt[i] + 1) + 1
            BY <5>1, <6>1, <6>2, Zenon
          <6> QED
            BY <4>1, <6>3, Zenon
        <5> QED
          BY <5>2, <5>3, Zenon
      <4>6. \A l : Demand(l)' = Demand(l)
        BY Zenon DEF Demand
      <4>7. sentAt'[i] <= moment'
        BY <4>1, <4>3
      <4> HIDE DEF Demand
      <4> QED
        BY <3>2, <4>1, <4>4, <4>5, <4>6, <4>7, Zenon DEF CycleInv
    <3> QED
      BY <3>1, <3>2, Zenon
  <2> QED
    BY <2>1, <2>2, Zenon DEF ReasonInv
<1>6. ASSUME NEW i \in Cycles, NEW h \in Headers, RateLimited(i, h)
      PROVE  ReasonInv'
  <2> DEFINE new == <<attempt[i], moment, h>>
  <2>1. /\ step[i] = "waiting" /\ limits' = [limits EXCEPT ![i] = @ \cup {new}]
        /\ UNCHANGED <<moment, attempt, backoff, requests, sentAt>>
    BY <1>6, Zenon DEF RateLimited
  <2>2. /\ limits'[i] = limits[i] \cup {new} /\ DOMAIN limits' = Cycles
        /\ limits' = [k \in Cycles |-> limits'[k]]
        /\ \A j \in Cycles : j # i => limits'[j] = limits[j]
    BY <1>0, <2>1, Zenon DEF ReasonTyped
  <2>3. /\ new[1] = attempt[i] /\ new[2] = moment
        /\ Demand(new) = SleepFor(i, h) /\ Demand(new) \in Nat
    <3>1. SleepFor(i, h) = IF h \in RetryAfter THEN h ELSE backoff[i]
      BY RetryAssumption DEF SleepFor, ParseRetryAfter, NoHeader
    <3>2. Demand(new) = IF h \in RetryAfter THEN h ELSE Doubled[attempt[i]]
      BY Zenon DEF Demand
    <3>3. backoff[i] = Doubled[attempt[i]] /\ backoff[i] \in Nat
      BY <1>0, <1>a, Zenon DEF CycleInv
    <3>4. h \in RetryAfter => h \in Nat
      BY RetryAssumption, Zenon
    <3>5. new[1] = attempt[i] /\ new[2] = moment
      OBVIOUS
    <3> HIDE DEF new
    <3> QED
      BY <3>1, <3>2, <3>3, <3>4, <3>5
  <2> HIDE DEF new
  <2>4. CASE /\ attempt[i] < MaxRetries - 1 /\ Goes(i, "sleeping")
             /\ wake' = [wake EXCEPT ![i] = moment + SleepFor(i, h)]
    <3>1. /\ step' \in [Cycles -> CycleSteps] /\ step'[i] = "sleeping"
          /\ wake' \in [Cycles -> Nat] /\ wake'[i] = moment + Demand(new)
          /\ \A j \in Cycles : j # i => step'[j] = step[j] /\ wake'[j] = wake[j]
      BY <1>0, <2>3, <2>4 DEF Goes, ReasonTyped, CycleSteps
    <3>2. ReasonTyped'
      BY <1>0, <2>1, <2>2, <3>1, Zenon DEF ReasonTyped
    <3>3. ASSUME NEW j \in Cycles PROVE CycleInv(j)'
      <4>1. CASE j # i
        BY <1>0, <2>1, <2>2, <3>1, <4>1, ZenonT(30) DEF CycleInv
      <4>2. CASE j = i
        <5>1. /\ CycleInv(i) /\ attempt[i] \in Nat /\ moment \in Nat /\ attempt[i] \in 0..attempt[i]
          BY <1>0 DEF ReasonTyped
        <5>2. \A l \in limits[i] : /\ l[1] \in 0..attempt[i] /\ l[2] \in Nat /\ Demand(l) \in Nat
                                   /\ l[1] < attempt[i] /\ sentAt[i] >= l[2] + Demand(l)
          BY <2>1, <5>1, Zenon DEF CycleInv
        <5>3. \A l : Demand(l)' = Demand(l)
          BY Zenon DEF Demand
        <5>4. ASSUME NEW l \in limits'[i]
              PROVE  /\ l[1] \in 0..attempt[i] /\ l[2] \in Nat /\ Demand(l) \in Nat
                     /\ l[1] < attempt[i] => sentAt[i] >= l[2] + Demand(l)
                     /\ l[1] = attempt[i] => wake'[i] >= l[2] + Demand(l)
          <6>1. CASE l \in limits[i]
            BY <5>1, <5>2, <6>1
          <6>2. CASE l = new
            <7>1. \A t, d \in Nat : t + d >= t + d
              OBVIOUS
            <7>2. \A k \in Nat : ~(k < k)
              OBVIOUS
            <7> QED
              BY <2>3, <3>1, <5>1, <6>2, <7>1, <7>2, ZenonT(30)
          <6> QED
            BY <2>2, <6>1, <6>2, Zenon
        <5>5. /\ backoff[i] = Doubled[attempt[i]] /\ sentAt[i] <= moment
              /\ requests[i] <= attempt[i] + 1
          BY <5>1, Zenon DEF CycleInv
        <5> QED
          BY <2>1, <2>4, <3>1, <4>2, <5>3, <5>4, <5>5, Zenon DEF CycleInv
      <4> QED
        BY <4>1, <4>2, Zenon
    <3> QED
      BY <3>2, <3>3, Zenon DEF ReasonInv
  <2>5. CASE Goes(i, "noop") /\ UNCHANGED wake
    <3>1. /\ step' \in [Cycles -> CycleSteps] /\ step'[i] = "noop"
          /\ \A j \in Cycles : j # i => step'[j] = step[j]
      BY <1>0, <2>5, Zenon DEF Goes, ReasonTyped, CycleSteps
    <3>2. ReasonTyped'
      BY <1>0, <2>1, <2>2, <2>5, <3>1, Zenon DEF ReasonTyped
    <3>3. ASSUME NEW j \in Cycles PROVE CycleInv(j)'
      <4>1. CASE j # i
        BY <1>0, <2>1, <2>2, <2>5, <3>1, <4>1, Zenon DEF CycleInv
      <4>2. CASE j = i
        BY <1>0, <2>1, <2>2, <2>3, <2>5, <3>1, <4>2 DEF CycleInv, ReasonTyped
      <4> QED
        BY <4>1, <4>2, Zenon
    <3> QED
      BY <3>2, <3>3, Zenon DEF ReasonInv
  <2> QED
    BY <1>6, <2>4, <2>5, Zenon DEF RateLimited
<1>7. ASSUME NEW i \in Cycles, CycleStep(i) PROVE ReasonInv'
  <2>1. CASE AssembleFails(i) \/ ProviderFails(i)
    BY <1>3, <2>1, Zenon DEF AssembleFails, ProviderFails
  <2>2. ASSUME NEW s \in {"acting", "noop"}, ModelAnswers(i, s) PROVE ReasonInv'
    BY <1>3, <2>2, Zenon DEF ModelAnswers
  <2>3. CASE CycleCancelled(i)
    BY <1>3, <2>3, Zenon DEF CycleCancelled
  <2> QED
    BY <1>4, <1>5, <1>6, <1>7, <2>1, <2>2, <2>3, Zenon DEF CycleStep
<1> QED
  BY <1>1, <1>2, <1>7, Zenon DEF ReasonNext

(* For any headers, base delay and number of retries: a cycle sends at     *)
(* most MaxRetries requests, and none before the time the refusals before  *)
(* it asked for (_with_rate_limit_retry).                                  *)
THEOREM RetriesKeepTheirDistance == ReasonSpec => []RetriesAreSpaced
<1>1. ReasonInit => ReasonInv
  BY RetryAssumption, DoubledStep DEF ReasonInit, ReasonInv, ReasonTyped, CycleInv, CycleSteps
<1>2. ReasonInv /\ [ReasonNext]_reasonVars => ReasonInv'
  BY ReasonInvNext, Zenon
<1>3. ReasonInv => RetriesAreSpaced
  BY RetryAssumption DEF ReasonInv, ReasonTyped, CycleInv, RetriesAreSpaced, Demand
<1> QED
  BY <1>1, <1>2, <1>3, PTL DEF ReasonSpec
-----------------------------------------------------------------------------
(* Admission.  The window of a run is trimmed only when the run is asked   *)
(* about, so it may be too long, never too short: from any instant that is *)
(* still in the window on, it counts what was granted.  That it is sorted  *)
(* makes popping its head enough.                                          *)
Since(window, low) == {i \in DOMAIN window : window[i] >= low}

GrantsSince(r, low) == {i \in DOMAIN granted : granted[i][1] = r /\ granted[i][2] >= low}

Sorted(window) == \A i, j \in DOMAIN window : i <= j => window[i] <= window[j]

SameCount(A, B) == /\ IsFiniteSet(A) /\ IsFiniteSet(B)
                   /\ Cardinality(A) = Cardinality(B)

WindowsCount ==
  \A r \in AdmissionRuns :
    /\ Sorted(rateWindows[r])
    /\ \A i \in DOMAIN rateWindows[r] : rateWindows[r][i] <= clock
    /\ \A low \in Int : low >= clock - WindowLength
         => SameCount(Since(rateWindows[r], low), GrantsSince(r, low))

AdmissionTyped ==
  /\ clock \in Nat
  /\ policyFile \in FilePolicies \cup {NoPolicy}
  /\ rateWindows \in [AdmissionRuns -> Seq(Nat)]
  /\ granted \in Seq(AdmissionRuns \X Nat)
  /\ \A i \in DOMAIN granted : granted[i][2] <= clock

AdmissionInv == AdmissionTyped /\ WindowsCount /\ QuotaIsExact

(* Popping the old head of a sorted window leaves a sorted window that     *)
(* counts the same from any instant in the window on (_check_rate_limit).  *)
LEMMA RecentCounts ==
  ASSUME NEW w \in Seq(Nat), Sorted(w), clock \in Nat
  PROVE  /\ Recent(w) \in Seq(Nat)
         /\ Sorted(Recent(w))
         /\ \A i \in DOMAIN Recent(w) : \E j \in DOMAIN w : Recent(w)[i] = w[j]
         /\ \A i \in DOMAIN Recent(w) : Recent(w)[i] >= clock - WindowLength
         /\ \A low \in Int : low >= clock - WindowLength
              => SameCount(Since(Recent(w), low), Since(w, low))
<1> DEFINE bottom == clock - WindowLength
           kept == {i \in DOMAIN w : w[i] >= bottom}
           N == Len(w)
<1>0. bottom \in Int /\ N \in Nat /\ DOMAIN w = 1..N /\ kept \subseteq Nat
  BY AdmissionAssumption
<1>1. ASSUME NEW low \in Int, low >= bottom
      PROVE  Since(w, low) \subseteq kept /\ IsFiniteSet(Since(w, low))
  <2>1. Since(w, low) \subseteq kept
    <3> SUFFICES ASSUME NEW i \in Since(w, low) PROVE i \in kept
      BY Zenon
    <3>1. i \in DOMAIN w /\ w[i] \in Nat /\ w[i] >= low
      BY DEF Since
    <3>2. \A a \in Nat : a >= low => a >= bottom
      BY <1>0, <1>1
    <3> QED
      BY <3>1, <3>2, Zenon
  <2>2. IsFiniteSet(1..N) /\ Since(w, low) \in SUBSET (1..N)
    BY <1>0, FS_Interval DEF Since
  <2> QED
    BY <2>1, <2>2, FS_Subset, Zenon
<1>2. CASE kept = {}
  <2>1. Recent(w) = <<>>
    BY <1>2, Zenon DEF Recent
  <2>2. DOMAIN <<>> = {} /\ <<>> \in Seq(Nat)
    OBVIOUS
  <2>3. ASSUME NEW low \in Int, low >= bottom
        PROVE  SameCount(Since(Recent(w), low), Since(w, low))
    <3>1. Since(w, low) = {} /\ Since(<<>>, low) = {}
      BY <1>1, <1>2, <2>2, <2>3, Zenon DEF Since
    <3> QED
      BY <2>1, <3>1, FS_EmptySet, Zenon DEF SameCount
  <2> QED
    BY <2>1, <2>2, <2>3, Zenon DEF Sorted
<1>3. CASE kept # {}
  <2>1. PICK k : k = Min(kept)
    BY Zenon
  <2>2. k \in kept /\ \A i \in kept : k <= i
    <3>1. \E n \in kept : \A m \in kept : n <= m
      <4> HIDE DEF kept
      <4> QED
        BY <1>0, <1>3, LeastNat, Zenon
    <3> HIDE DEF kept
    <3> QED
      BY <2>1, <3>1, Zenon DEF Min
  <2>3. k \in 1..N /\ N - k + 1 \in Nat
    BY <1>0, <2>2
  <2> DEFINE rest == SubSeq(w, k, N)
  <2>4. Recent(w) = rest
    BY <1>3, <2>1, Zenon DEF Recent
  <2>5. /\ rest \in Seq(Nat) /\ DOMAIN rest = 1..(N - k + 1)
        /\ \A i \in 1..(N - k + 1) : rest[i] = w[i + k - 1] /\ i + k - 1 \in k..N
    BY <1>0, <2>3
  <2> HIDE DEF rest
  <2>6. \A i \in k..N : i \in DOMAIN w /\ w[i] \in Nat /\ w[k] <= w[i]
    <3> SUFFICES ASSUME NEW i \in k..N PROVE i \in DOMAIN w /\ w[i] \in Nat /\ w[k] <= w[i]
      BY Zenon
    <3>1. i \in 1..N /\ k <= i
      BY <1>0, <2>3
    <3>2. i \in DOMAIN w /\ k \in DOMAIN w /\ w[i] \in Nat
      BY <1>0, <2>3, <3>1
    <3> HIDE DEF N
    <3> QED
      BY <3>1, <3>2, Zenon DEF Sorted
  <2>7. \A i \in k..N : w[i] >= bottom
    <3>1. w[k] \in Nat /\ w[k] >= bottom
      BY <2>2, <2>3, <2>6
    <3>2. \A a, b \in Nat : a >= bottom /\ a <= b => b >= bottom
      BY <1>0
    <3> HIDE DEF bottom
    <3> QED
      BY <2>6, <3>1, <3>2, Zenon
  <2>8. Sorted(rest)
    <3> SUFFICES ASSUME NEW i \in DOMAIN rest, NEW j \in DOMAIN rest, i <= j
                 PROVE  rest[i] <= rest[j]
      BY Zenon DEF Sorted
    <3>0. i \in 1..(N - k + 1) /\ j \in 1..(N - k + 1)
      BY <2>5, Zenon
    <3>1. i + k - 1 \in DOMAIN w /\ j + k - 1 \in DOMAIN w /\ i + k - 1 <= j + k - 1
      <4>1. i + k - 1 \in DOMAIN w /\ j + k - 1 \in DOMAIN w
        BY <2>5, <2>6, <3>0, Zenon
      <4>2. \A a, b, c \in Int : a <= b => a + c - 1 <= b + c - 1
        OBVIOUS
      <4>3. i \in Int /\ j \in Int /\ k \in Int
        BY <1>0, <2>3, <3>0
      <4> QED
        BY <4>1, <4>2, <4>3, Zenon
    <3> QED
      BY <2>5, <3>0, <3>1, Zenon DEF Sorted
  <2>9. \A i \in DOMAIN rest : \E j \in DOMAIN w : rest[i] = w[j]
    BY <2>5, <2>6, Zenon
  <2>10. \A i \in DOMAIN rest : rest[i] >= bottom
    <3> HIDE DEF bottom
    <3> QED
      BY <2>5, <2>7, Zenon
  <2>11. ASSUME NEW low \in Int, low >= bottom
         PROVE  SameCount(Since(rest, low), Since(w, low))
    <3> DEFINE f == [i \in Since(w, low) |-> i - (k - 1)]
    <3>1. \A i \in Since(w, low) : i \in k..N
      <4>1. \A i \in Since(w, low) : i \in kept
        BY <1>1, <2>11, Zenon
      <4>2. \A i \in kept : i \in 1..N
        BY <1>0, Zenon
      <4> SUFFICES ASSUME NEW i \in Since(w, low) PROVE i \in k..N
        BY Zenon
      <4>3. i \in 1..N /\ k <= i
        BY <2>2, <4>1, <4>2, Zenon
      <4> QED
        BY <1>0, <2>3, <4>3
    <3>2. \A i \in k..N : /\ i - (k - 1) \in 1..(N - k + 1)
                          /\ (i - (k - 1)) + k - 1 = i
      BY <1>0, <2>3
    <3>3. \A i \in k..N : rest[i - (k - 1)] = w[i]
      BY <2>5, <3>2, Zenon
    <3>4. f \in [Since(w, low) -> Since(rest, low)]
      BY <2>5, <3>1, <3>2, <3>3, Zenon DEF Since
    <3>5. \A i, j \in Since(w, low) : f[i] = f[j] => i = j
      BY <2>3, <3>1
    <3>6. ASSUME NEW i \in Since(rest, low) PROVE \E j \in Since(w, low) : f[j] = i
      <4>1. i \in 1..(N - k + 1) /\ rest[i] >= low
        BY <2>5, Zenon DEF Since
      <4>2. i + k - 1 \in DOMAIN w /\ w[i + k - 1] >= low
        BY <2>5, <2>6, <4>1, Zenon
      <4>3. i + k - 1 \in Since(w, low)
        BY <4>2, Zenon DEF Since
      <4>4. (i + k - 1) - (k - 1) = i
        BY <2>3, <4>1
      <4> QED
        BY <4>3, <4>4, Zenon
    <3>7. f \in Bijection(Since(w, low), Since(rest, low))
      <4> HIDE DEF f
      <4> QED
        BY <3>4, <3>5, <3>6, Zenon DEF Bijection, Injection, Surjection, IsInjective
    <3>8. ExistsBijection(Since(w, low), Since(rest, low))
      BY <3>7, Zenon DEF ExistsBijection
    <3> QED
      BY <1>1, <2>11, <3>8, FS_Bijection, Zenon DEF SameCount
  <2> HIDE DEF bottom
  <2> QED
    BY <2>4, <2>5, <2>8, <2>9, <2>10, <2>11, Zenon DEF bottom
<1> QED
  BY <1>2, <1>3, Zenon

(* The trimmed window is as long as the number of grants in the window.    *)
LEMMA WindowLengthIsCount ==
  ASSUME AdmissionInv, NEW r \in AdmissionRuns
  PROVE  /\ IsFiniteSet(GrantsSince(r, clock - WindowLength))
         /\ Len(Recent(rateWindows[r])) = Cardinality(GrantsSince(r, clock - WindowLength))
<1> DEFINE w == rateWindows[r]
           bottom == clock - WindowLength
<1>1. w \in Seq(Nat) /\ Sorted(w) /\ clock \in Nat /\ bottom \in Int /\ bottom >= bottom
  BY AdmissionAssumption DEF AdmissionInv, AdmissionTyped, WindowsCount
<1>2. SameCount(Since(w, bottom), GrantsSince(r, bottom))
  BY <1>1, Zenon DEF AdmissionInv, WindowsCount
<1>3. /\ Recent(w) \in Seq(Nat)
      /\ \A i \in DOMAIN Recent(w) : Recent(w)[i] >= bottom
      /\ SameCount(Since(Recent(w), bottom), Since(w, bottom))
  BY <1>1, RecentCounts, Zenon
<1>4. PICK n : n = Len(Recent(w))
  BY Zenon
<1>5. n \in Nat /\ Since(Recent(w), bottom) = 1..n
  <2> HIDE DEF w, bottom
  <2> QED
    BY <1>3, <1>4 DEF Since
<1>6. Cardinality(1..n) = n
  <2>1. Cardinality(1..n) = IF 1 > n THEN 0 ELSE n - 1 + 1
    BY <1>5, FS_Interval
  <2> QED
    BY <1>5, <2>1
<1> QED
  BY <1>2, <1>3, <1>4, <1>5, <1>6, Zenon DEF SameCount

(* The reason an action is given says what its window looked like.         *)
LEMMA ReasonOfWindow ==
  ASSUME NEW a \in Actions, NEW policy, policy.perMinute \in Int,
         rateWindows[a.run] \in Seq(Nat), Recent(rateWindows[a.run]) \in Seq(Nat)
  PROVE  /\ Reason(a, policy) = "ok" => Len(Recent(rateWindows[a.run])) < policy.perMinute
         /\ Reason(a, policy) = "quota_exceeded"
              => Len(Recent(rateWindows[a.run])) >= policy.perMinute
<1> DEFINE allowed == PermissionModeAllows(a)
           passed == BindingExists(a) /\ IdempotencyAllows(a, policy) /\ RiskTierAllows(a, policy)
<1>1. CASE ~allowed
  <2>1. Reason(a, policy) = "permission_denied"
    BY <1>1, Zenon DEF Reason
  <2> QED
    BY <2>1, Zenon
<1>2. CASE allowed /\ ~passed
  <2>1. Reason(a, policy) = "policy_denied"
    BY <1>2, Zenon DEF Reason
  <2> QED
    BY <2>1, Zenon
<1>3. CASE allowed /\ passed
  <2>1. Reason(a, policy) = IF RateLimitAllows(a, policy) THEN "ok" ELSE "quota_exceeded"
    BY <1>3, Zenon DEF Reason
  <2>2. Len(Recent(rateWindows[a.run])) \in Nat
    OBVIOUS
  <2>3. CASE RateLimitAllows(a, policy)
    BY <2>1, <2>3, Zenon DEF RateLimitAllows
  <2>4. CASE ~RateLimitAllows(a, policy)
    BY <2>1, <2>2, <2>4 DEF RateLimitAllows
  <2> QED
    BY <2>3, <2>4, Zenon
<1> QED
  BY <1>1, <1>2, <1>3, Zenon

(* A window that an admission is appended to counts one more, up to now.   *)
LEMMA WindowAppends ==
  ASSUME NEW w \in Seq(Nat), NEW c \in Nat, NEW low \in Int
  PROVE  Since(Append(w, c), low) =
           IF c >= low THEN Since(w, low) \cup {Len(w) + 1} ELSE Since(w, low)
<1>1. /\ Len(w) \in Nat /\ DOMAIN w = 1..Len(w) /\ DOMAIN Append(w, c) = 1..(Len(w) + 1)
      /\ Append(w, c)[Len(w) + 1] = c /\ \A i \in 1..Len(w) : Append(w, c)[i] = w[i]
  OBVIOUS
<1>2. 1..(Len(w) + 1) = (1..Len(w)) \cup {Len(w) + 1}
  BY <1>1
<1> QED
  BY <1>1, <1>2, Zenon DEF Since

(* Appending a sorted window's latest instant keeps it sorted.             *)
LEMMA SortedAppends ==
  ASSUME NEW w \in Seq(Nat), NEW c \in Nat, Sorted(w), \A i \in DOMAIN w : w[i] <= c
  PROVE  /\ Sorted(Append(w, c))
         /\ \A i \in DOMAIN Append(w, c) : Append(w, c)[i] <= c
<1> DEFINE v == Append(w, c)
<1>1. /\ Len(w) \in Nat /\ DOMAIN w = 1..Len(w) /\ DOMAIN v = 1..(Len(w) + 1)
      /\ v[Len(w) + 1] = c /\ \A i \in 1..Len(w) : v[i] = w[i] /\ v[i] \in Nat
  OBVIOUS
<1>2. \A i \in DOMAIN v : i \in 1..Len(w) \/ i = Len(w) + 1
  BY <1>1
<1> HIDE DEF v
<1>3. \A i \in DOMAIN v : v[i] <= c
  BY <1>1, <1>2
<1>4. Sorted(v)
  <2> SUFFICES ASSUME NEW i \in DOMAIN v, NEW j \in DOMAIN v, i <= j PROVE v[i] <= v[j]
    BY Zenon DEF Sorted
  <2>1. CASE j = Len(w) + 1
    BY <1>1, <1>3, <2>1, Zenon
  <2>2. CASE j \in 1..Len(w)
    <3>1. i \in 1..Len(w)
      BY <1>1, <1>2, <2>2
    <3> QED
      BY <1>1, <2>2, <3>1, Zenon DEF Sorted
  <2> QED
    BY <1>2, <2>1, <2>2, Zenon
<1> QED
  BY <1>3, <1>4, Zenon DEF v

(* The grants of a run since an instant after one more admission.          *)
LEMMA GrantAppends ==
  ASSUME granted \in Seq(AdmissionRuns \X Nat), NEW r \in AdmissionRuns, NEW c \in Nat,
         granted' = Append(granted, <<r, c>>), NEW q \in AdmissionRuns, NEW low \in Int
  PROVE  GrantsSince(q, low)' =
           IF q = r /\ c >= low THEN GrantsSince(q, low) \cup {Len(granted) + 1}
           ELSE GrantsSince(q, low)
<1>1. /\ Len(granted) \in Nat /\ DOMAIN granted = 1..Len(granted)
      /\ DOMAIN granted' = 1..(Len(granted) + 1)
      /\ granted'[Len(granted) + 1] = <<r, c>>
      /\ \A i \in 1..Len(granted) : granted'[i] = granted[i]
  <2>1. <<r, c>> \in AdmissionRuns \X Nat
    BY Zenon
  <2> QED
    BY <2>1
<1>2. 1..(Len(granted) + 1) = (1..Len(granted)) \cup {Len(granted) + 1}
  BY <1>1
<1>3. <<r, c>>[1] = r /\ <<r, c>>[2] = c
  BY Zenon
<1> QED
  BY <1>1, <1>2, <1>3 DEF GrantsSince

(* What is within the window of an instant that is not before any grant.   *)
LEMMA WithinIsSince ==
  ASSUME granted \in Seq(AdmissionRuns \X Nat), NEW r, NEW low \in Int, NEW c \in Nat,
         \A i \in DOMAIN granted : granted[i][2] <= c
  PROVE  GrantedWithin(r, low, c) = Cardinality(GrantsSince(r, low))
<1>1. \A i \in DOMAIN granted : granted[i][2] \in Nat
  OBVIOUS
<1>2. {i \in DOMAIN granted : granted[i][1] = r /\ granted[i][2] \in low..c} = GrantsSince(r, low)
  BY <1>1 DEF GrantsSince
<1> QED
  BY <1>2, Zenon DEF GrantedWithin

(* A step of the admission service keeps the invariant.                    *)
LEMMA AdmissionInvNext ==
  ASSUME AdmissionInv, [AdmissionNext]_admissionVars
  PROVE  AdmissionInv'
<1> DEFINE bottom == clock - WindowLength
<1>0. /\ clock \in Nat /\ bottom \in Int /\ granted \in Seq(AdmissionRuns \X Nat)
      /\ rateWindows \in [AdmissionRuns -> Seq(Nat)]
      /\ policyFile \in FilePolicies \cup {NoPolicy}
      /\ \A i \in DOMAIN granted : granted[i][2] <= clock
  BY AdmissionAssumption DEF AdmissionInv, AdmissionTyped
<1>a. ASSUME UNCHANGED <<clock, rateWindows, granted>>
      PROVE  WindowsCount' /\ (\A i \in DOMAIN granted : granted[i][2] <= clock)'
  BY <1>0, <1>a, Zenon DEF AdmissionInv, WindowsCount, GrantsSince
<1>1. CASE UNCHANGED admissionVars
  BY <1>1, <1>a, Zenon DEF admissionVars, AdmissionInv, AdmissionTyped, QuotaIsExact, GrantedWithin
<1>2. CASE EditPolicyFile
  BY <1>2, <1>a, Zenon DEF EditPolicyFile, AdmissionInv, AdmissionTyped, QuotaIsExact, GrantedWithin
<1>3. CASE AdmissionTick
  <2>1. clock' = clock + 1 /\ UNCHANGED <<policyFile, rateWindows, granted, answer>>
    BY <1>3, Zenon DEF AdmissionTick
  <2>2. QuotaIsExact'
    BY <2>1, Zenon DEF AdmissionInv, QuotaIsExact, GrantedWithin
  <2>3. AdmissionTyped'
    <3>1. \A i \in DOMAIN granted : granted[i][2] \in Nat
      BY <1>0
    <3>2. \A i \in DOMAIN granted : granted[i][2] <= clock + 1
      BY <1>0, <3>1
    <3> QED
      BY <1>0, <2>1, <3>2 DEF AdmissionTyped
  <2>4. WindowsCount'
    <3> SUFFICES ASSUME NEW r \in AdmissionRuns
                 PROVE  /\ Sorted(rateWindows[r])
                        /\ \A i \in DOMAIN rateWindows[r] : rateWindows[r][i] <= clock + 1
                        /\ \A low \in Int : low >= (clock + 1) - WindowLength
                             => SameCount(Since(rateWindows[r], low), GrantsSince(r, low))
      BY <2>1, Zenon DEF WindowsCount, GrantsSince
    <3>1. \A i \in DOMAIN rateWindows[r] : rateWindows[r][i] \in Nat
      BY <1>0
    <3>2. \A low \in Int : low >= (clock + 1) - WindowLength => low >= clock - WindowLength
      BY <1>0, AdmissionAssumption
    <3> QED
      BY <1>0, <3>1, <3>2 DEF AdmissionInv, WindowsCount
  <2> QED
    BY <2>2, <2>3, <2>4, Zenon DEF AdmissionInv
<1>4. ASSUME NEW a \in Actions, AdmitRaises(a) PROVE AdmissionInv'
  <2>1. /\ answer' = [run |-> a.run, reason |-> "raised", limit |-> 0, at |-> clock]
        /\ UNCHANGED <<clock, policyFile, rateWindows, granted>>
    BY <1>4, Zenon DEF AdmitRaises
  <2>2. QuotaIsExact'
    <3>1. answer'.reason = "raised"
      BY <2>1, Zenon
    <3> QED
      BY <3>1, Zenon DEF QuotaIsExact
  <2> QED
    BY <1>0, <1>a, <2>1, <2>2, Zenon DEF AdmissionInv, AdmissionTyped
<1>5. ASSUME NEW a \in Actions, Admit(a) PROVE AdmissionInv'
  <2> DEFINE r == a.run
             policy == ResolvePolicy(a.ref)
             reason == Reason(a, policy)
             w == rateWindows[r]
             limit == policy.perMinute
  <2>1. /\ answer' = [run |-> r, reason |-> reason, limit |-> limit, at |-> clock]
        /\ rateWindows' = [rateWindows EXCEPT ![r] =
             CASE reason = "ok"             -> Append(Recent(w), clock)
               [] reason = "quota_exceeded" -> Recent(w)
               [] OTHER                     -> w]
        /\ granted' = IF reason = "ok" THEN Append(granted, <<r, clock>>) ELSE granted
        /\ UNCHANGED <<clock, policyFile>>
    BY <1>5, Zenon DEF Admit
  <2>2. r \in AdmissionRuns
    BY Zenon DEF AdmissionRuns
  <2>3. limit \in Int
    <3>1. policy \in FilePolicies \cup {DefaultPolicy, NoPolicy}
      BY <1>0, Zenon DEF ResolvePolicy
    <3>2. NoPolicy.perMinute \in Int
      BY DEF NoPolicy
    <3> HIDE DEF policy
    <3> QED
      BY <3>1, <3>2, AdmissionAssumption, Zenon
  <2>4. w \in Seq(Nat) /\ Sorted(w) /\ \A i \in DOMAIN w : w[i] \in Nat /\ w[i] <= clock
    BY <1>0, <2>2 DEF AdmissionInv, WindowsCount
  <2>5. /\ Recent(w) \in Seq(Nat) /\ Sorted(Recent(w))
        /\ \A i \in DOMAIN Recent(w) : Recent(w)[i] <= clock
        /\ \A low \in Int : low >= bottom => SameCount(Since(Recent(w), low), Since(w, low))
    <3> HIDE DEF w
    <3>1. \A i \in DOMAIN Recent(w) : \E j \in DOMAIN w : Recent(w)[i] = w[j]
      BY <1>0, <2>4, RecentCounts, Zenon
    <3> QED
      BY <1>0, <2>4, <3>1, RecentCounts, Zenon
  <2>6. \A low \in Int : low >= bottom => SameCount(Since(w, low), GrantsSince(r, low))
    BY <2>2, Zenon DEF AdmissionInv, WindowsCount
  <2>7. \A low \in Int : low >= bottom => SameCount(Since(Recent(w), low), GrantsSince(r, low))
    BY <2>5, <2>6, Zenon DEF SameCount
  <2>8. IsFiniteSet(GrantsSince(r, bottom)) /\ Len(Recent(w)) = Cardinality(GrantsSince(r, bottom))
    BY <2>2, WindowLengthIsCount, Zenon
  <2>9. /\ reason = "ok" => Len(Recent(w)) < limit
        /\ reason = "quota_exceeded" => Len(Recent(w)) >= limit
    BY <2>3, <2>4, <2>5, ReasonOfWindow, ZenonT(30)
  <2>10. Len(Recent(w)) \in Nat /\ bottom <= clock
    <3>1. Len(Recent(w)) \in Nat
      <4> HIDE DEF w
      <4> QED
        BY <2>5
    <3>2. bottom <= clock
      BY <1>0, AdmissionAssumption
    <3> QED
      BY <3>1, <3>2, Zenon
  <2>11. /\ answer'.run = r /\ answer'.reason = reason
         /\ answer'.limit = limit /\ answer'.at = clock
    BY <2>1, Zenon
  <2>12. \A q \in AdmissionRuns : q # r =>
           /\ Sorted(rateWindows[q])
           /\ \A i \in DOMAIN rateWindows[q] : rateWindows[q][i] <= clock
           /\ \A low \in Int : low >= bottom
                => SameCount(Since(rateWindows[q], low), GrantsSince(q, low))
    BY Zenon DEF AdmissionInv, WindowsCount
  <2>b. ASSUME NEW v \in Seq(Nat), rateWindows' = [rateWindows EXCEPT ![r] = v],
               Sorted(v), \A i \in DOMAIN v : v[i] <= clock,
               \A low \in Int : low >= bottom => SameCount(Since(v, low), GrantsSince(r, low)'),
               \A q \in AdmissionRuns : q # r =>
                 \A low \in Int : GrantsSince(q, low)' = GrantsSince(q, low)
        PROVE  WindowsCount' /\ rateWindows' \in [AdmissionRuns -> Seq(Nat)]
    <3> HIDE DEF r, w
    <3>1. rateWindows' \in [AdmissionRuns -> Seq(Nat)]
      BY <1>0, <2>b, Zenon
    <3>2. ASSUME NEW q \in AdmissionRuns
          PROVE  /\ Sorted(rateWindows'[q])
                 /\ \A i \in DOMAIN rateWindows'[q] : rateWindows'[q][i] <= clock
                 /\ \A low \in Int : low >= bottom
                      => SameCount(Since(rateWindows'[q], low), GrantsSince(q, low)')
      <4>1. CASE q = r
        <5>1. rateWindows'[q] = v
          BY <1>0, <2>b, <4>1, Zenon
        <5> QED
          BY <2>b, <4>1, <5>1, Zenon
      <4>2. CASE q # r
        <5>1. rateWindows'[q] = rateWindows[q]
          BY <1>0, <2>b, <4>2, Zenon
        <5> QED
          BY <2>12, <2>b, <4>2, <5>1, Zenon
      <4> QED
        BY <4>1, <4>2, Zenon
    <3> HIDE DEF bottom
    <3> QED
      BY <2>1, <3>1, <3>2, Zenon DEF WindowsCount, bottom
  <2> HIDE DEF reason, policy, w, limit
  <2>13. CASE reason = "ok"
    <3>1. rateWindows' = [rateWindows EXCEPT ![r] = Append(Recent(w), clock)]
      BY <2>1, <2>13, Zenon
    <3>2. granted' = Append(granted, <<r, clock>>)
      BY <2>1, <2>13, Zenon
    <3>3. /\ granted' \in Seq(AdmissionRuns \X Nat)
          /\ \A i \in DOMAIN granted' : granted'[i][2] <= clock
      <4>1. <<r, clock>> \in AdmissionRuns \X Nat /\ <<r, clock>>[2] = clock
        BY <1>0, <2>2, Zenon
      <4>2. /\ Len(granted) \in Nat /\ DOMAIN granted = 1..Len(granted)
            /\ DOMAIN granted' = 1..(Len(granted) + 1)
            /\ granted' \in Seq(AdmissionRuns \X Nat)
            /\ granted'[Len(granted) + 1] = <<r, clock>>
            /\ \A i \in 1..Len(granted) : granted'[i] = granted[i]
        BY <1>0, <3>2, <4>1
      <4>3. ASSUME NEW i \in DOMAIN granted' PROVE granted'[i][2] <= clock
        <5>1. i \in 1..Len(granted) \/ i = Len(granted) + 1
          BY <4>2
        <5>2. CASE i \in 1..Len(granted)
          BY <1>0, <4>2, <5>2, Zenon
        <5>3. CASE i = Len(granted) + 1
          BY <1>0, <4>1, <4>2, <5>3
        <5> QED
          BY <5>1, <5>2, <5>3, Zenon
      <4> QED
        BY <4>2, <4>3, Zenon
    <3>4. \A q \in AdmissionRuns, low \in Int :
            GrantsSince(q, low)' = IF q = r /\ clock >= low
                                   THEN GrantsSince(q, low) \cup {Len(granted) + 1}
                                   ELSE GrantsSince(q, low)
      <4> HIDE DEF r
      <4> QED
        BY <1>0, <2>2, <3>2, GrantAppends, Zenon
    <3>5. \A low \in Int : Len(granted) + 1 \notin GrantsSince(r, low)
      BY <1>0 DEF GrantsSince
    <3>6. ASSUME NEW low \in Int, low >= bottom
          PROVE  SameCount(Since(Append(Recent(w), clock), low), GrantsSince(r, low)')
      <4>1. Since(Append(Recent(w), clock), low) =
              IF clock >= low THEN Since(Recent(w), low) \cup {Len(Recent(w)) + 1}
              ELSE Since(Recent(w), low)
        BY <1>0, <2>5, WindowAppends, Zenon
      <4>2. Len(Recent(w)) + 1 \notin Since(Recent(w), low)
        BY <2>5 DEF Since
      <4>3. SameCount(Since(Recent(w), low), GrantsSince(r, low))
        BY <2>7, <3>6, Zenon
      <4>4. CASE clock < low
        <5>1. ~(clock >= low)
          BY <1>0, <4>4
        <5> QED
          BY <2>2, <3>4, <4>1, <4>3, <5>1, Zenon
      <4>5. CASE clock >= low
        <5>1. Since(Append(Recent(w), clock), low) = Since(Recent(w), low) \cup {Len(Recent(w)) + 1}
          BY <4>1, <4>5, Zenon
        <5>2. GrantsSince(r, low)' = GrantsSince(r, low) \cup {Len(granted) + 1}
          BY <2>2, <3>4, <4>5, Zenon
        <5>3. /\ IsFiniteSet(Since(Append(Recent(w), clock), low))
              /\ Cardinality(Since(Append(Recent(w), clock), low)) = Cardinality(Since(Recent(w), low)) + 1
          BY <4>2, <4>3, <5>1, FS_AddElement DEF SameCount
        <5>4. /\ IsFiniteSet(GrantsSince(r, low)')
              /\ Cardinality(GrantsSince(r, low)') = Cardinality(GrantsSince(r, low)) + 1
          BY <3>5, <4>3, <5>2, FS_AddElement DEF SameCount
        <5> QED
          BY <4>3, <5>3, <5>4, Zenon DEF SameCount
      <4> QED
        BY <1>0, <4>4, <4>5
    <3>7. /\ Append(Recent(w), clock) \in Seq(Nat) /\ Sorted(Append(Recent(w), clock))
          /\ \A i \in DOMAIN Append(Recent(w), clock) : Append(Recent(w), clock)[i] <= clock
      BY <1>0, <2>5, SortedAppends
    <3>8. WindowsCount' /\ rateWindows' \in [AdmissionRuns -> Seq(Nat)]
      <4>1. \A q \in AdmissionRuns : q # r =>
              \A low \in Int : GrantsSince(q, low)' = GrantsSince(q, low)
        BY <3>4, Zenon
      <4> QED
        BY <2>b, <3>1, <3>6, <3>7, <4>1, Zenon
    <3>9. GrantedWithin(r, bottom, clock)' = Cardinality(GrantsSince(r, bottom)')
      <4>1. \A i \in DOMAIN granted' : granted'[i][2] \in Nat
        BY <3>3
      <4>2. {i \in DOMAIN granted' : granted'[i][1] = r /\ granted'[i][2] \in bottom..clock}
              = GrantsSince(r, bottom)'
        BY <1>0, <2>1, <3>3, <4>1 DEF GrantsSince
      <4> QED
        BY <2>1, <4>2, Zenon DEF GrantedWithin
    <3>10. Cardinality(GrantsSince(r, bottom)') = Len(Recent(w)) + 1
      <4>1. GrantsSince(r, bottom)' = GrantsSince(r, bottom) \cup {Len(granted) + 1}
        <5>1. clock >= bottom
          BY <1>0, <2>10, Zenon
        <5>2. bottom' = bottom
          BY <2>1, Zenon
        <5>3. GrantsSince(r, bottom)' = {i \in DOMAIN granted' : granted'[i][1] = r /\ granted'[i][2] >= bottom}
          BY <5>2, Zenon DEF GrantsSince
        <5>4. \A low \in Int : clock >= low =>
                {i \in DOMAIN granted' : granted'[i][1] = r /\ granted'[i][2] >= low}
                  = GrantsSince(r, low) \cup {Len(granted) + 1}
          BY <2>2, <3>4, Zenon DEF GrantsSince
        <5> HIDE DEF r, bottom
        <5> QED
          BY <1>0, <5>1, <5>3, <5>4, Zenon
      <4>2. Len(granted) + 1 \notin GrantsSince(r, bottom)
        BY <1>0, <3>5, Zenon
      <4>3. Cardinality(GrantsSince(r, bottom) \cup {Len(granted) + 1})
              = Cardinality(GrantsSince(r, bottom)) + 1
        BY <2>8, <4>2, FS_AddElement, Zenon
      <4> QED
        BY <2>8, <4>1, <4>3, Zenon
    <3>11. QuotaIsExact'
      <4>1. GrantedWithin(r, bottom, clock)' <= limit
        BY <2>3, <2>9, <2>10, <2>13, <3>9, <3>10
      <4> QED
        BY <2>1, <2>11, <2>13, <4>1, Zenon DEF QuotaIsExact, GrantedWithin
    <3> QED
      BY <1>0, <2>1, <3>3, <3>8, <3>11, Zenon DEF AdmissionInv, AdmissionTyped
  <2>14. CASE reason # "ok"
    <3>1. granted' = granted /\ \A q, low : GrantsSince(q, low)' = GrantsSince(q, low)
      BY <2>1, <2>14, Zenon DEF GrantsSince
    <3>2. WindowsCount' /\ rateWindows' \in [AdmissionRuns -> Seq(Nat)]
      <4>1. CASE reason = "quota_exceeded"
        <5>1. rateWindows' = [rateWindows EXCEPT ![r] = Recent(w)]
          BY <2>1, <4>1, Zenon
        <5> QED
          BY <2>5, <2>7, <2>b, <3>1, <5>1, Zenon
      <4>2. CASE reason # "quota_exceeded"
        <5>1. rateWindows' = [rateWindows EXCEPT ![r] = w]
          BY <2>1, <2>14, <4>2, Zenon
        <5> QED
          BY <2>4, <2>6, <2>b, <3>1, <5>1, Zenon
      <4> QED
        BY <4>1, <4>2, Zenon
    <3>3. QuotaIsExact'
      <4>1. CASE reason # "quota_exceeded"
        BY <2>11, <2>14, <4>1, Zenon DEF QuotaIsExact
      <4>2. CASE reason = "quota_exceeded"
        <5>1. GrantedWithin(r, bottom, clock) = Len(Recent(w))
          BY <1>0, <2>8, WithinIsSince, Zenon
        <5>2. GrantedWithin(r, bottom, clock) >= limit
          BY <2>9, <4>2, <5>1, Zenon
        <5> QED
          BY <2>1, <2>11, <3>1, <4>2, <5>2, Zenon DEF QuotaIsExact, GrantedWithin
      <4> QED
        BY <4>1, <4>2, Zenon
    <3> QED
      BY <1>0, <2>1, <3>1, <3>2, <3>3, Zenon DEF AdmissionInv, AdmissionTyped
  <2> QED
    BY <2>13, <2>14, Zenon
<1> QED
  BY <1>1, <1>2, <1>3, <1>4, <1>5, Zenon DEF AdmissionNext

(* For any actions, policies and window: an action is admitted only within *)
(* the limit then in force, and refused for its quota only when the window *)
(* before it was full, although the window is trimmed only when its run is *)
(* asked about and the policy file may change at any time                  *)
(* (_check_rate_limit, admit).                                             *)
THEOREM QuotasAreExact == AdmissionSpec => []QuotaIsExact
<1>1. AdmissionInit => AdmissionInv
  <2> SUFFICES ASSUME AdmissionInit PROVE AdmissionInv
    BY Zenon
  <2>1. /\ clock = 0 /\ policyFile \in FilePolicies /\ granted = <<>>
        /\ rateWindows = [r \in AdmissionRuns |-> <<>>]
        /\ answer = [run |-> "none", reason |-> "none", limit |-> 0, at |-> 0]
    BY Zenon DEF AdmissionInit
  <2>2. DOMAIN <<>> = {} /\ <<>> \in Seq(Nat) /\ <<>> \in Seq(AdmissionRuns \X Nat)
    OBVIOUS
  <2>3. AdmissionTyped
    BY <2>1, <2>2, Zenon DEF AdmissionTyped
  <2>4. WindowsCount
    <3>1. \A r, low : Since(<<>>, low) = {} /\ GrantsSince(r, low) = {}
      BY <2>1, <2>2, Zenon DEF Since, GrantsSince
    <3>2. SameCount({}, {})
      BY FS_EmptySet, Zenon DEF SameCount
    <3> QED
      BY <2>1, <2>2, <3>1, <3>2, Zenon DEF WindowsCount, Sorted
  <2>5. QuotaIsExact
    <3>1. answer.reason = "none"
      BY <2>1, Zenon
    <3> QED
      BY <3>1, Zenon DEF QuotaIsExact
  <2> QED
    BY <2>3, <2>4, <2>5, Zenon DEF AdmissionInv
<1>2. AdmissionInv /\ [AdmissionNext]_admissionVars => AdmissionInv'
  BY AdmissionInvNext, Zenon
<1>3. AdmissionInv => QuotaIsExact
  BY Zenon DEF AdmissionInv
<1> QED
  BY <1>1, <1>2, <1>3, PTL DEF AdmissionSpec
=============================================================================
