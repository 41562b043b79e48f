------------------------------ MODULE SqlProofs ------------------------------
(***************************************************************************)
(* Proofs about the SQL tables that worker processes share: the offsets of *)
(* a run, the atomic dispatch record, and the dedupe store they implement. *)
(***************************************************************************)
EXTENDS SqlStores, FiniteSetTheorems, FunctionTheorems, TLAPS
-----------------------------------------------------------------------------
(* The SQL tables.  The calls that may create a record, and the moves of a *)
(* record the store allows.                                                *)
Inserts == {"atomic", "reserve", "reserve_and_dispatch"}

StoreMoves == {
  <<"absent", "reserved">>, <<"absent", "dispatched">>, <<"reserved", "dispatched">>,
  <<"dispatched", "dispatched">>, <<"dispatched", "acknowledged">>,
  <<"acknowledged", "acknowledged">>, <<"acknowledged", "succeeded">>,
  <<"succeeded", "succeeded">>, <<"dispatched", "unknown_effect">>,
  <<"unknown_effect", "unknown_effect">>}

SqlRecordStates == {"absent", "reserved", "dispatched", "acknowledged", "succeeded",
                    "unknown_effect"}

(* The offsets of a run in a set of rows, and that they are 1..n with one  *)
(* row each.                                                               *)
OffsetsIn(R, r) == {row.offset : row \in {e \in R : e.run = r}}

DenseRows(R, r, n) ==
  /\ OffsetsIn(R, r) = 1..n
  /\ \A d, e \in R : d.run = r /\ e.run = r /\ d.offset = e.offset => d = e

(* What a transaction that holds its lock has written is still right in    *)
(* the committed state: the rows continue the run, the record moves as the *)
(* store allows.                                                           *)
Legit(q, new, state) ==
  /\ \/ new = {} /\ q.op # "atomic"
     \/ /\ new = EventRows(q, NextOffset(q.run))
        /\ q.op = "append" \/ (q.op = "atomic" /\ backend = "colocated")
  /\ state # "absent" => q.op # "append" /\ <<records[q.key], state>> \in StoreMoves
  /\ q.op \in Inserts => state # "absent" /\ records[q.key] = "absent"
  /\ q.op \notin Inserts /\ state # "absent" => records[q.key] # "absent"

Pending(q, c) == q \in DOMAIN answers /\ answers[q] = "none" /\ q.conn = c

(* A reader without the lock has seen a state of the past.                 *)
ReadTx(c) ==
  /\ tx[c].phase = "read" /\ Pending(tx[c].call, c)
  /\ tx[c].call.op = "append" /\ backend # "postgres"
  /\ tx[c].next \in 1..NextOffset(tx[c].call.run)
  /\ backend = "colocated" =>
       /\ tx[c].seen \in 0..version
       /\ tx[c].seen = version => tx[c].next = NextOffset(tx[c].call.run)

WrittenTx(c) ==
  /\ tx[c].phase = "written" /\ Pending(tx[c].call, c)
  /\ Legit(tx[c].call, tx[c].new, tx[c].state)
  /\ locks[LockOf(tx[c].call)] = c

TxInv == \A c \in Conns : tx[c] = NoTx \/ ReadTx(c) \/ WrittenTx(c)

SqlTyped ==
  /\ records \in [SqlKeys -> SqlRecordStates]
  /\ version \in Nat
  /\ locks \in [Lockable -> Conns \cup {"free"}]
  /\ tx = [c \in Conns |-> tx[c]]
  /\ DOMAIN answers \in SqlBatches
  /\ answers \in [DOMAIN answers -> {"none", "ok", "raised", "duplicate", "lost"}]

(* Every run is dense up to the next offset, and the rows of a commit are  *)
(* all there or none is.                                                   *)
RowsInv ==
  /\ \A r \in Streams : NextOffset(r) \in Nat /\ DenseRows(rows, r, NextOffset(r) - 1)
  /\ \A q \in DOMAIN answers :
       /\ answers[q] # "ok" => RowsOf(q) = {}
       /\ answers[q] = "ok" /\ q.op = "atomic" => RowsOf(q) # {}
       /\ RowsOf(q) # {} => \E n \in Nat : RowsOf(q) = EventRows(q, n)

(* The calls that created the record of a key: one if there is a record.   *)
Won(k) == {q \in DOMAIN answers : q.key = k /\ q.op \in Inserts /\ answers[q] = "ok"}

WonInv ==
  \A k \in SqlKeys : /\ records[k] = "absent" => Won(k) = {}
                     /\ records[k] # "absent" => \E q : Won(k) = {q}

SqlInv == SqlTyped /\ TxInv /\ RowsInv /\ WonInv

(* MAX(commit_offset) of a run that is dense up to n.                      *)
LEMMA DenseMax ==
  ASSUME NEW R, NEW r, NEW n \in Nat, DenseRows(R, r, n)
  PROVE  Max({row.offset : row \in {e \in R : e.run = r}} \cup {0}) + 1 = n + 1
<1> DEFINE S == {row.offset : row \in {e \in R : e.run = r}} \cup {0}
<1>1. S = 0..n
  BY DEF DenseRows, OffsetsIn
<1> HIDE DEF S
<1>2. \E x \in S : \A y \in S : x >= y
  BY <1>1
<1>3. Max(S) \in S /\ \A y \in S : Max(S) >= y
  BY <1>2 DEF Max
<1>4. Max(S) = n
  BY <1>1, <1>3
<1> QED
  BY <1>4 DEF S

(* A commit written at the next offset leaves its run dense.               *)
LEMMA DenseGrows ==
  ASSUME NEW R, NEW q, NEW n \in Nat, q.n \in Nat, DenseRows(R, q.run, n)
  PROVE  DenseRows(R \cup EventRows(q, n + 1), q.run, n + q.n)
<1> DEFINE new == EventRows(q, n + 1)
           S == R \cup new
<1>1. \A e \in new : \E i \in 1..q.n :
        e = [run |-> q.run, offset |-> n + 1 + i - 1, commit |-> q.name, index |-> i,
             key |-> q.key]
  BY DEF EventRows
<1>2. ASSUME NEW i \in 1..q.n
      PROVE  \E e \in new : e.run = q.run /\ e.offset = n + i
  <2> DEFINE e == [run |-> q.run, offset |-> n + 1 + i - 1, commit |-> q.name,
                   index |-> i, key |-> q.key]
  <2>1. e \in new
    BY DEF EventRows
  <2>2. e.run = q.run /\ e.offset = n + i
    OBVIOUS
  <2> QED
    BY <2>1, <2>2
<1>3. ASSUME NEW e \in new
      PROVE  e.run = q.run /\ e.offset \in (n + 1)..(n + q.n)
  BY <1>1
<1>4. ASSUME NEW d \in new, NEW e \in new, d.offset = e.offset PROVE d = e
  <2>1. PICK i \in 1..q.n :
          d = [run |-> q.run, offset |-> n + 1 + i - 1, commit |-> q.name, index |-> i,
               key |-> q.key]
    BY <1>1
  <2>2. PICK j \in 1..q.n :
          e = [run |-> q.run, offset |-> n + 1 + j - 1, commit |-> q.name, index |-> j,
               key |-> q.key]
    BY <1>1
  <2>3. i = j
    BY <1>4, <2>1, <2>2
  <2> QED
    BY <2>1, <2>2, <2>3
<1>5. \A e \in R : e.run = q.run => e.offset \in 1..n
  BY DEF DenseRows, OffsetsIn
<1>6. \A i \in 1..n : \E e \in R : e.run = q.run /\ e.offset = i
  BY DEF DenseRows, OffsetsIn
<1> HIDE DEF new
<1>7. ASSUME NEW i \in 1..(n + q.n) PROVE \E e \in S : e.run = q.run /\ e.offset = i
  <2>1. CASE i <= n
    BY <1>6, <2>1
  <2>2. CASE i > n
    <3>1. i - n \in 1..q.n /\ n + (i - n) = i
      BY <2>2
    <3>2. \E e \in new : e.run = q.run /\ e.offset = n + (i - n)
      BY <1>2, <3>1
    <3> QED
      BY <3>1, <3>2
  <2> QED
    BY <2>1, <2>2
<1>8. ASSUME NEW e \in S, e.run = q.run PROVE e.offset \in 1..(n + q.n)
  BY <1>3, <1>5, <1>8
<1>9. OffsetsIn(S, q.run) = 1..(n + q.n)
  <2> HIDE DEF S
  <2>1. ASSUME NEW x \in OffsetsIn(S, q.run) PROVE x \in 1..(n + q.n)
    BY <1>8, <2>1 DEF OffsetsIn
  <2>2. ASSUME NEW x \in 1..(n + q.n) PROVE x \in OffsetsIn(S, q.run)
    BY <1>7, <2>2 DEF OffsetsIn
  <2> QED
    BY <2>1, <2>2, Zenon
<1>10. ASSUME NEW d \in S, NEW e \in S, d.run = q.run, e.run = q.run, d.offset = e.offset
       PROVE  d = e
  <2>1. CASE d \in R /\ e \in R
    BY <1>10, <2>1 DEF DenseRows
  <2>2. CASE d \in new /\ e \in new
    BY <1>4, <1>10, <2>2
  <2>3. CASE d \in R /\ e \in new
    BY <1>3, <1>5, <1>10, <2>3
  <2>4. CASE d \in new /\ e \in R
    BY <1>3, <1>5, <1>10, <2>4
  <2> QED
    BY <2>1, <2>2, <2>3, <2>4
<1> QED
  BY <1>9, <1>10 DEF DenseRows, new

(* A commit to one run leaves the others as they are.                      *)
LEMMA DenseElsewhere ==
  ASSUME NEW R, NEW q, NEW n, NEW r, r # q.run
  PROVE  /\ {e \in R \cup EventRows(q, n) : e.run = r} = {e \in R : e.run = r}
         /\ \A m : DenseRows(R, r, m) => DenseRows(R \cup EventRows(q, n), r, m)
<1>1. \A e \in EventRows(q, n) : e.run = q.run
  BY DEF EventRows
<1>2. {e \in R \cup EventRows(q, n) : e.run = r} = {e \in R : e.run = r}
  BY <1>1
<1> QED
  BY <1>1, <1>2 DEF DenseRows, OffsetsIn

(* Every call has a lock of the database and lives on a connection.        *)
LEMMA CallFacts ==
  ASSUME SqlTyped, NEW q \in DOMAIN answers
  PROVE  /\ q.conn \in Conns /\ q.key \in SqlKeys /\ q.run \in Streams /\ q.n \in Nat
         /\ q.op = "atomic" => q.n > 0
         /\ LockOf(q) \in Lockable
         /\ \A p \in DOMAIN answers : p.name = q.name => p = q
<1>1. /\ q.conn \in Conns /\ q.key \in SqlKeys /\ q.run \in Streams /\ q.n \in Nat
      /\ q.op = "atomic" => q.n > 0
      /\ \A p \in DOMAIN answers : p.name = q.name => p = q
  <2>1. DOMAIN answers \in SqlBatches
    BY DEF SqlTyped
  <2>2. \A batch \in SqlBatches : \A p, o \in batch : p.name = o.name => p = o
    BY SqlAssumption
  <2>3. \A batch \in SqlBatches : \A o \in batch :
          /\ o.conn \in Conns /\ o.key \in SqlKeys /\ o.run \in Streams /\ o.n \in Nat
          /\ o.op = "atomic" => o.n > 0
    BY SqlAssumption
  <2>4. \A p \in DOMAIN answers : p.name = q.name => p = q
    BY <2>1, <2>2
  <2> QED
    BY <2>1, <2>3, <2>4
<1>2. LockOf(q) \in Lockable
  <2>1. CASE backend = "sqlite"
    BY <2>1 DEF LockOf, Lockable
  <2>2. CASE backend = "colocated"
    BY <2>2 DEF LockOf, Lockable
  <2>3. CASE backend # "sqlite" /\ backend # "colocated"
    BY <1>1, <2>3 DEF LockOf, Lockable
  <2> QED
    BY <2>1, <2>2, <2>3
<1> QED
  BY <1>1, <1>2

(* A connection is in one phase of one transaction.                        *)
LEMMA PhaseFacts ==
  ASSUME TxInv, NEW c \in Conns
  PROVE  /\ tx[c].phase = "read" => ReadTx(c)
         /\ tx[c].phase = "written" => WrittenTx(c)
         /\ tx[c].phase = "idle" => tx[c] = NoTx
  BY DEF TxInv, ReadTx, WrittenTx, NoTx

(* The transactions of the other connections do not notice a step of q     *)
(* that leaves tables and their locks alone.                               *)
LEMMA OthersStay ==
  ASSUME SqlInv, NEW q \in DOMAIN answers, NEW c \in Conns, c # q.conn,
         UNCHANGED <<backend, rows, records, version>>,
         DOMAIN answers' = DOMAIN answers,
         \A p \in DOMAIN answers : p # q => answers'[p] = answers[p],
         tx'[c] = tx[c],
         \A l \in Lockable : locks[l] = c => locks'[l] = c
  PROVE  tx'[c] = NoTx \/ ReadTx(c)' \/ WrittenTx(c)'
<1>1. CASE tx[c] = NoTx
  BY <1>1
<1>2. CASE ReadTx(c)
  <2>1. Pending(tx[c].call, c) /\ tx[c].call # q
    BY <1>2 DEF ReadTx, Pending
  <2>2. Pending(tx[c].call, c)'
    BY <2>1 DEF Pending
  <2> QED
    BY <1>2, <2>2 DEF ReadTx, NextOffset
<1>3. CASE WrittenTx(c)
  <2>1. Pending(tx[c].call, c) /\ tx[c].call # q
    BY <1>3, Zenon DEF WrittenTx, Pending
  <2>2. Pending(tx[c].call, c)'
    BY <2>1 DEF Pending
  <2>3. Legit(tx[c].call, tx[c].new, tx[c].state)'
    BY <1>3 DEF WrittenTx, Legit, NextOffset
  <2>4. LockOf(tx[c].call) \in Lockable
    BY <2>1, CallFacts DEF SqlInv, Pending
  <2>5. LockOf(tx[c].call)' = LockOf(tx[c].call)
    BY DEF LockOf
  <2>6. locks'[LockOf(tx[c].call)] = c
    BY <1>3, <2>4 DEF WrittenTx
  <2> QED
    BY <1>3, <2>2, <2>3, <2>5, <2>6 DEF WrittenTx
<1> QED
  BY <1>1, <1>2, <1>3 DEF SqlInv, TxInv

(* A call that ends without effect: rolled back, refused, timed out or     *)
(* dead.                                                                   *)
LEMMA EndKeeps ==
  ASSUME SqlInv, NEW q \in DOMAIN answers, NEW a \in {"raised", "duplicate", "lost"},
         answers[q] = "none", EndWithout(q, a)
  PROVE  SqlInv'
<1>1. q.conn \in Conns
  BY CallFacts DEF SqlInv
<1>2. /\ tx' = [tx EXCEPT ![q.conn] = NoTx]
      /\ locks' = [l \in Lockable |-> IF locks[l] = q.conn THEN "free" ELSE locks[l]]
      /\ answers' = [answers EXCEPT ![q] = a]
      /\ UNCHANGED <<backend, rows, records, version>>
  BY DEF EndWithout, Reply
<1>3. DOMAIN answers' = DOMAIN answers /\ answers'[q] = a
  BY <1>2 DEF SqlInv, SqlTyped
<1>4. \A p \in DOMAIN answers : p # q => answers'[p] = answers[p]
  BY <1>2 DEF SqlInv, SqlTyped
<1>5. SqlTyped'
  <2>1. locks' \in [Lockable -> Conns \cup {"free"}]
    BY <1>2 DEF SqlInv, SqlTyped
  <2>2. tx' = [c \in Conns |-> tx'[c]]
    BY <1>2 DEF SqlInv, SqlTyped
  <2>3. answers' \in [DOMAIN answers -> {"none", "ok", "raised", "duplicate", "lost"}]
    BY <1>2 DEF SqlInv, SqlTyped
  <2> QED
    BY <1>2, <1>3, <2>1, <2>2, <2>3 DEF SqlInv, SqlTyped
<1>6. TxInv'
  <2> SUFFICES ASSUME NEW c \in Conns PROVE tx'[c] = NoTx \/ ReadTx(c)' \/ WrittenTx(c)'
    BY DEF TxInv
  <2>1. CASE c = q.conn
    BY <1>1, <1>2, <2>1 DEF SqlInv, SqlTyped
  <2>2. CASE c # q.conn
    <3>1. tx'[c] = tx[c]
      BY <1>2, <2>2 DEF SqlInv, SqlTyped
    <3>2. \A l \in Lockable : locks[l] = c => locks'[l] = c
      BY <1>2, <2>2
    <3> QED
      BY <1>2, <1>3, <1>4, <2>2, <3>1, <3>2, OthersStay
  <2> QED
    BY <2>1, <2>2
<1>7. RowsInv'
  <2>1. \A p : RowsOf(p)' = RowsOf(p)
    BY <1>2 DEF RowsOf
  <2>2. \A r : NextOffset(r)' = NextOffset(r)
    BY <1>2 DEF NextOffset
  <2>3. RowsOf(q) = {}
    BY DEF SqlInv, RowsInv
  <2> QED
    BY <1>2, <1>3, <1>4, <2>1, <2>2, <2>3 DEF SqlInv, RowsInv
<1>8. WonInv'
  <2>1. ASSUME NEW k PROVE Won(k)' = Won(k)
    BY <1>3, <1>4 DEF Won
  <2> QED
    BY <1>2, <2>1, Zenon DEF SqlInv, WonInv
<1> QED
  BY <1>5, <1>6, <1>7, <1>8 DEF SqlInv

(* A call executes its statements under its lock.                          *)
LEMMA WrittenKeeps ==
  ASSUME SqlInv, NEW q \in DOMAIN answers, NEW new, NEW state,
         answers[q] = "none", Free(q), Legit(q, new, state), Written(q, new, state)
  PROVE  SqlInv'
<1>1. q.conn \in Conns /\ LockOf(q) \in Lockable
  BY CallFacts DEF SqlInv
<1> DEFINE t == [phase |-> "written", call |-> q, new |-> new, state |-> state]
<1>2. /\ tx' = [tx EXCEPT ![q.conn] = t]
      /\ locks' = [locks EXCEPT ![LockOf(q)] = q.conn]
      /\ UNCHANGED <<backend, rows, records, version, answers>>
  BY DEF Written
<1>3. SqlTyped'
  <2>1. locks' \in [Lockable -> Conns \cup {"free"}]
    BY <1>1, <1>2 DEF SqlInv, SqlTyped
  <2>2. tx' = [c \in Conns |-> tx'[c]]
    BY <1>2 DEF SqlInv, SqlTyped
  <2> QED
    BY <1>2, <2>1, <2>2 DEF SqlInv, SqlTyped
<1>4. TxInv'
  <2> SUFFICES ASSUME NEW c \in Conns PROVE tx'[c] = NoTx \/ ReadTx(c)' \/ WrittenTx(c)'
    BY DEF TxInv
  <2>1. CASE c = q.conn
    <3>1. tx'[c] = t
      BY <1>1, <1>2, <2>1 DEF SqlInv, SqlTyped
    <3>2. tx'[c].phase = "written" /\ tx'[c].call = q /\ tx'[c].new = new /\ tx'[c].state = state
      BY <3>1
    <3>3. Pending(q, c)'
      BY <1>2, <2>1 DEF Pending
    <3>4. Legit(q, new, state)'
      BY <1>2 DEF Legit, NextOffset
    <3>5. LockOf(q)' = LockOf(q)
      BY <1>2 DEF LockOf
    <3>6. locks'[LockOf(q)] = c
      BY <1>1, <1>2, <2>1 DEF SqlInv, SqlTyped
    <3> QED
      BY <3>2, <3>3, <3>4, <3>5, <3>6 DEF WrittenTx
  <2>2. CASE c # q.conn
    <3>1. tx'[c] = tx[c]
      BY <1>2, <2>2 DEF SqlInv, SqlTyped
    <3>2. \A l \in Lockable : locks[l] = c => locks'[l] = c
      BY <1>1, <1>2, SqlAssumption DEF Free, SqlInv, SqlTyped
    <3> QED
      BY <1>2, <2>2, <3>1, <3>2, OthersStay
  <2> QED
    BY <2>1, <2>2
<1>5. RowsInv'
  BY <1>2, Zenon DEF SqlInv, RowsInv, RowsOf, NextOffset
<1>6. WonInv'
  BY <1>2, Zenon DEF SqlInv, WonInv, Won
<1> QED
  BY <1>3, <1>4, <1>5, <1>6 DEF SqlInv

(* The next offset of a run is at least 1.                                 *)
LEMMA NextOffsetPositive ==
  ASSUME SqlInv, NEW r \in Streams
  PROVE  NextOffset(r) \in Nat /\ NextOffset(r) >= 1
<1>1. NextOffset(r) \in Nat /\ DenseRows(rows, r, NextOffset(r) - 1)
  BY DEF SqlInv, RowsInv
<1>2. ASSUME NextOffset(r) = 0 PROVE FALSE
  <2> DEFINE S == {row.offset : row \in {e \in rows : e.run = r}} \cup {0}
  <2>1. S = {0}
    BY <1>1, <1>2 DEF DenseRows, OffsetsIn
  <2>2. Max({0}) = 0
    BY DEF Max
  <2>3. NextOffset(r) = Max(S) + 1
    BY DEF NextOffset
  <2> QED
    BY <1>2, <2>1, <2>2, <2>3
<1> QED
  BY <1>1, <1>2

(* A call reads the next offset without the lock.                          *)
LEMMA ReadKeeps ==
  ASSUME SqlInv, NEW q \in DOMAIN answers, SqliteLoadNextOffset(q) \/ ColocatedNextOffset(q)
  PROVE  SqlInv'
<1>1. q.conn \in Conns /\ q.run \in Streams
  BY CallFacts DEF SqlInv
<1> DEFINE t == [phase |-> "read", call |-> q, next |-> NextOffset(q.run),
                 seen |-> IF backend = "colocated" THEN version ELSE 0]
<1>2. /\ tx' = [tx EXCEPT ![q.conn] = t]
      /\ UNCHANGED <<backend, rows, records, version, locks, answers>>
      /\ backend # "postgres" /\ q.op = "append" /\ answers[q] = "none"
  BY DEF SqliteLoadNextOffset, ColocatedNextOffset, Waiting
<1>3. SqlTyped'
  <2>1. tx' = [c \in Conns |-> tx'[c]]
    BY <1>2 DEF SqlInv, SqlTyped
  <2> QED
    BY <1>2, <2>1 DEF SqlInv, SqlTyped
<1>4. TxInv'
  <2> SUFFICES ASSUME NEW c \in Conns PROVE tx'[c] = NoTx \/ ReadTx(c)' \/ WrittenTx(c)'
    BY DEF TxInv
  <2>1. CASE c = q.conn
    <3>1. tx'[c] = t
      BY <1>1, <1>2, <2>1, Zenon DEF SqlInv, SqlTyped
    <3>2. Pending(q, c)'
      BY <1>2, <2>1 DEF Pending
    <3>3. NextOffset(q.run)' = NextOffset(q.run)
      BY <1>2 DEF NextOffset
    <3>4. NextOffset(q.run) \in 1..NextOffset(q.run)
      BY <1>1, NextOffsetPositive DEF SqlInv, RowsInv
    <3>5. version \in Nat
      BY DEF SqlInv, SqlTyped
    <3>6. /\ tx'[c].phase = "read" /\ tx'[c].call = q /\ tx'[c].next = NextOffset(q.run)
          /\ backend = "colocated" => tx'[c].seen = version
      BY <3>1
    <3> QED
      BY <1>2, <3>2, <3>3, <3>4, <3>5, <3>6 DEF ReadTx
  <2>2. CASE c # q.conn
    <3>1. tx'[c] = tx[c]
      BY <1>2, <2>2, Zenon DEF SqlInv, SqlTyped
    <3> QED
      BY <1>2, <2>2, <3>1, OthersStay
  <2> QED
    BY <2>1, <2>2
<1>5. RowsInv'
  BY <1>2, Zenon DEF SqlInv, RowsInv, RowsOf, NextOffset
<1>6. WonInv'
  BY <1>2, Zenon DEF SqlInv, WonInv, Won
<1> QED
  BY <1>3, <1>4, <1>5, <1>6 DEF SqlInv

(* Two transactions that hold their locks are not about the same run, or   *)
(* not about the same key.                                                 *)
LEMMA WritersDiffer ==
  ASSUME SqlInv, NEW c \in Conns, NEW d \in Conns, c # d, WrittenTx(c), WrittenTx(d)
  PROVE  /\ tx[c].new # {} /\ tx[d].new # {} => tx[c].call.run # tx[d].call.run
         /\ tx[c].state # "absent" /\ tx[d].state # "absent" => tx[c].call.key # tx[d].call.key
<1>1. LockOf(tx[c].call) # LockOf(tx[d].call)
  BY DEF WrittenTx
<1>2. /\ tx[c].new # {} => tx[c].call.op = "append" \/ backend = "colocated"
      /\ tx[d].new # {} => tx[d].call.op = "append" \/ backend = "colocated"
      /\ tx[c].state # "absent" => tx[c].call.op # "append"
      /\ tx[d].state # "absent" => tx[d].call.op # "append"
  BY DEF WrittenTx, Legit
<1>3. backend # "colocated"
  BY <1>1 DEF LockOf
<1>4. CASE backend = "sqlite"
  BY <1>1, <1>2, <1>3, <1>4 DEF LockOf
<1>5. CASE backend # "sqlite"
  BY <1>1, <1>2, <1>3, <1>5, Zenon DEF LockOf
<1> QED
  BY <1>4, <1>5

(* The committed rows of each run after the COMMIT of connection c.        *)
LEMMA CommitRows ==
  ASSUME SqlInv, NEW c \in Conns, NEW q, NEW new, WrittenTx(c), q = tx[c].call,
         new = tx[c].new, rows' = rows \cup new
  PROVE  \A r \in Streams :
           /\ NextOffset(r)' \in Nat /\ NextOffset(r)' >= NextOffset(r)
           /\ DenseRows(rows', r, NextOffset(r)' - 1)
           /\ r # q.run \/ new = {} => NextOffset(r)' = NextOffset(r)
<1>1. q \in DOMAIN answers /\ Legit(q, new, tx[c].state)
  BY DEF WrittenTx, Pending
<1>2. q.run \in Streams /\ q.n \in Nat
  BY <1>1, CallFacts DEF SqlInv
<1>3. \A r \in Streams : NextOffset(r) \in Nat /\ DenseRows(rows, r, NextOffset(r) - 1)
  BY DEF SqlInv, RowsInv
<1> SUFFICES ASSUME NEW r \in Streams
             PROVE  /\ NextOffset(r)' \in Nat /\ NextOffset(r)' >= NextOffset(r)
                    /\ DenseRows(rows', r, NextOffset(r)' - 1)
                    /\ r # q.run \/ new = {} => NextOffset(r)' = NextOffset(r)
  BY Zenon
<1>4. CASE new = {}
  <2>1. rows' = rows
    BY <1>4
  <2>2. NextOffset(r)' = NextOffset(r)
    BY <2>1 DEF NextOffset
  <2> QED
    <3>1. NextOffset(r) \in Nat /\ NextOffset(r) >= NextOffset(r)
      BY <1>3
    <3>2. DenseRows(rows, r, NextOffset(r) - 1)
      BY <1>3
    <3> QED
      BY <2>1, <2>2, <3>1, <3>2, Zenon
<1>5. CASE new # {}
  <2>1. new = EventRows(q, NextOffset(q.run))
    BY <1>1, <1>5 DEF Legit
  <2>2. CASE r # q.run
    <3>1. {e \in rows' : e.run = r} = {e \in rows : e.run = r}
      <4> DEFINE m == NextOffset(q.run)
      <4>1. rows' = rows \cup EventRows(q, m)
        BY <2>1
      <4> HIDE DEF m
      <4>2. \A e \in EventRows(q, m) : e.run = q.run
        BY DEF EventRows
      <4> QED
        BY <4>1, <4>2, <2>2
    <3>2. NextOffset(r)' = NextOffset(r)
      BY <3>1, Zenon DEF NextOffset
    <3>3. DenseRows(rows', r, NextOffset(r) - 1)
      <4>1. \A d \in rows' : d.run = r => d \in rows
        BY <3>1, Zenon
      <4> QED
        BY <1>3, <3>1, <4>1 DEF DenseRows, OffsetsIn
    <3> QED
      BY <1>3, <3>2, <3>3
  <2>3. CASE r = q.run
    <3>1. PICK m \in Nat : m = NextOffset(q.run) - 1
      BY <1>2, <1>3, NextOffsetPositive
    <3>2. m + 1 = NextOffset(q.run)
      BY <1>2, <1>3, <3>1
    <3>3. DenseRows(rows, q.run, m)
      BY <1>2, <1>3, <3>1
    <3>4. DenseRows(rows \cup EventRows(q, m + 1), q.run, m + q.n)
      BY <1>2, <3>3, DenseGrows, Zenon
    <3>5. DenseRows(rows', q.run, m + q.n)
      BY <2>1, <3>2, <3>4
    <3>6. NextOffset(q.run)' = m + q.n + 1
      <4>1. m + q.n \in Nat
        BY <1>2
      <4>2. ASSUME NEW R, DenseRows(R, q.run, m + q.n)
            PROVE  Max({row.offset : row \in {e \in R : e.run = q.run}} \cup {0}) + 1 = m + q.n + 1
        BY <4>1, <4>2, DenseMax
      <4> QED
        BY <3>5, <4>2 DEF NextOffset
    <3>7. NextOffset(q.run)' - 1 = m + q.n
      BY <1>2, <3>6
    <3> QED
      BY <1>2, <2>3, <3>2, <3>5, <3>6, <3>7, <1>5
  <2> QED
    BY <2>2, <2>3, Zenon
<1> QED
  BY <1>4, <1>5

(* COMMIT: the rows and the record of the transaction become visible, and  *)
(* what the other connections have read or written stays right.            *)
LEMMA CommitKeeps ==
  ASSUME SqlInv, NEW c \in Conns, CommitTransaction(c)
  PROVE  SqlInv'
<1>1. PICK q, new, state : q = tx[c].call /\ new = tx[c].new /\ state = tx[c].state
  OBVIOUS
<1>2. WrittenTx(c)
  BY PhaseFacts DEF CommitTransaction, SqlInv
<1>3. q \in DOMAIN answers /\ answers[q] = "none" /\ q.conn = c /\ Legit(q, new, state)
  BY <1>1, <1>2 DEF WrittenTx, Pending
<1>4. /\ q.key \in SqlKeys /\ q.run \in Streams /\ q.n \in Nat
      /\ q.op = "atomic" => q.n > 0
      /\ LockOf(q) \in Lockable
      /\ \A p \in DOMAIN answers : p.name = q.name => p = q
  BY <1>3, CallFacts DEF SqlInv
<1>5. /\ rows' = rows \cup new
      /\ records' = IF state = "absent" THEN records ELSE [records EXCEPT ![q.key] = state]
      /\ version' = IF backend = "colocated" THEN version + 1 ELSE version
      /\ locks' = [locks EXCEPT ![LockOf(q)] = "free"]
      /\ answers' = [answers EXCEPT ![q] = "ok"]
      /\ tx' = [tx EXCEPT ![c] = NoTx]
      /\ backend' = backend
  BY <1>1 DEF CommitTransaction, Reply
<1>6. DOMAIN answers' = DOMAIN answers /\ answers'[q] = "ok"
  BY <1>3, <1>5 DEF SqlInv, SqlTyped
<1>7. \A p \in DOMAIN answers : p # q => answers'[p] = answers[p]
  BY <1>5 DEF SqlInv, SqlTyped
<1>8. /\ state # "absent" => records'[q.key] = state
      /\ \A k \in SqlKeys : k # q.key \/ state = "absent" => records'[k] = records[k]
  BY <1>4, <1>5 DEF SqlInv, SqlTyped
<1>9. \A r \in Streams :
        /\ NextOffset(r)' \in Nat /\ NextOffset(r)' >= NextOffset(r)
        /\ DenseRows(rows', r, NextOffset(r)' - 1)
        /\ r # q.run \/ new = {} => NextOffset(r)' = NextOffset(r)
  BY <1>1, <1>2, <1>5, CommitRows, Zenon
<1>10. SqlTyped'
  <2>1. state # "absent" => state \in SqlRecordStates
    BY <1>3 DEF Legit, StoreMoves, SqlRecordStates
  <2>2. records' \in [SqlKeys -> SqlRecordStates]
    BY <1>4, <1>5, <2>1 DEF SqlInv, SqlTyped
  <2>3. locks' \in [Lockable -> Conns \cup {"free"}]
    BY <1>4, <1>5 DEF SqlInv, SqlTyped
  <2>4. tx' = [d \in Conns |-> tx'[d]]
    BY <1>5 DEF SqlInv, SqlTyped
  <2>5. answers' \in [DOMAIN answers -> {"none", "ok", "raised", "duplicate", "lost"}]
    BY <1>5, Zenon DEF SqlInv, SqlTyped
  <2>6. version' \in Nat
    BY <1>5 DEF SqlInv, SqlTyped
  <2> QED
    BY <1>6, <2>2, <2>3, <2>4, <2>5, <2>6 DEF SqlInv, SqlTyped
<1>11. TxInv'
  <2> SUFFICES ASSUME NEW d \in Conns PROVE tx'[d] = NoTx \/ ReadTx(d)' \/ WrittenTx(d)'
    BY DEF TxInv
  <2>1. CASE d = c
    BY <1>5, <2>1 DEF SqlInv, SqlTyped
  <2>2. CASE d # c
    <3>1. tx'[d] = tx[d]
      BY <1>5, <2>2 DEF SqlInv, SqlTyped
    <3>2. CASE tx[d] = NoTx
      BY <3>1, <3>2, Zenon
    <3>3. CASE ReadTx(d)
      <4>1. Pending(tx[d].call, d) /\ tx[d].call # q
        BY <1>3, <2>2, <3>3 DEF ReadTx, Pending
      <4>2. Pending(tx[d].call, d)'
        BY <1>6, <1>7, <3>1, <4>1, Zenon DEF Pending
      <4>3. tx[d].call.run \in Streams
        BY <4>1, CallFacts DEF SqlInv, Pending
      <4>4. tx[d].next \in 1..(NextOffset(tx[d].call.run)')
        <5>1. PICK r \in Streams : r = tx[d].call.run
          BY <4>3, Zenon
        <5>2. tx[d].next \in 1..NextOffset(r) /\ NextOffset(r) \in Nat
          BY <3>3, <5>1 DEF ReadTx, SqlInv, RowsInv
        <5>3. NextOffset(r)' \in Nat /\ NextOffset(r)' >= NextOffset(r)
          BY <1>9
        <5>4. tx[d].next \in 1..(NextOffset(r)')
          BY <5>2, <5>3
        <5>5. NextOffset(tx[d].call.run)' = NextOffset(r)'
          BY <3>1, <5>1
        <5> QED
          BY <5>4, <5>5
      <4>5. backend = "colocated" => tx[d].seen \in 0..version' /\ tx[d].seen # version'
        BY <1>5, <3>3 DEF ReadTx, SqlInv, SqlTyped
      <4> QED
        BY <1>5, <3>1, <3>3, <4>2, <4>4, <4>5, Zenon DEF ReadTx, NextOffset
    <3>4. CASE WrittenTx(d)
      <4>1. PICK p, pnew, pstate : p = tx[d].call /\ pnew = tx[d].new /\ pstate = tx[d].state
        OBVIOUS
      <4>2. /\ p \in DOMAIN answers /\ answers[p] = "none" /\ p.conn = d /\ p # q
            /\ Legit(p, pnew, pstate) /\ locks[LockOf(p)] = d
        BY <1>3, <2>2, <3>4, <4>1 DEF WrittenTx, Pending
      <4>3. /\ p.key \in SqlKeys /\ p.run \in Streams /\ LockOf(p) \in Lockable
        BY <4>2, CallFacts DEF SqlInv
      <4>4. /\ new # {} /\ pnew # {} => q.run # p.run
            /\ state # "absent" /\ pstate # "absent" => q.key # p.key
        BY <1>1, <1>2, <2>2, <3>4, <4>1, WritersDiffer, Zenon
      <4>5. pnew # {} => NextOffset(p.run)' = NextOffset(p.run)
        BY <1>9, <4>3, <4>4
      <4>6. pstate # "absent" => records'[p.key] = records[p.key]
        BY <1>8, <4>3, <4>4
      <4>7. Legit(p, pnew, pstate)'
        <5>1. CASE pnew = {}
          <6>1. p.op # "atomic"
            <7>1. CASE p.op = "atomic"
              <8>1. p.n > 0 /\ p.n \in Nat
                BY <4>2, <7>1, CallFacts DEF SqlInv
              <8>2. pnew = EventRows(p, NextOffset(p.run))
                BY <4>2, <7>1 DEF Legit
              <8>3. 1 \in 1..p.n
                BY <8>1
              <8> QED
                BY <5>1, <8>2, <8>3, Zenon DEF EventRows
            <7> QED
              BY <7>1
          <6> QED
            BY <1>5, <4>2, <4>6, <5>1, <6>1 DEF Legit, Inserts
        <5>2. CASE pnew # {}
          <6>1. pnew = EventRows(p, NextOffset(p.run)')
            BY <4>2, <4>5, <5>2 DEF Legit
          <6>2. p.op = "append" \/ (p.op = "atomic" /\ backend = "colocated")
            BY <4>2, <5>2 DEF Legit
          <6> QED
            BY <1>5, <4>2, <4>6, <6>1, <6>2 DEF Legit, Inserts
        <5> QED
          BY <5>1, <5>2, Zenon
      <4>8. LockOf(p)' = LockOf(p)
        BY <1>5 DEF LockOf
      <4>9. locks[LockOf(q)] = c
        BY <1>1, <1>2 DEF WrittenTx
      <4>10. locks'[LockOf(p)] = d
        BY <1>4, <1>5, <2>2, <4>2, <4>3, <4>9, Zenon DEF SqlInv, SqlTyped
      <4>11. Pending(p, d)'
        BY <1>6, <1>7, <4>2, Zenon DEF Pending
      <4>12. tx'[d].call = p /\ tx'[d].new = pnew /\ tx'[d].state = pstate
        BY <3>1, <4>1, Zenon
      <4>13. tx'[d].phase = "written"
        BY <3>1, <3>4, Zenon DEF WrittenTx
      <4> QED
        BY <4>7, <4>8, <4>10, <4>11, <4>12, <4>13 DEF WrittenTx
    <3> QED
      BY <3>2, <3>3, <3>4 DEF SqlInv, TxInv
  <2> QED
    BY <2>1, <2>2
<1>12. RowsInv'
  <2>1. ASSUME NEW p \in DOMAIN answers, p # q PROVE RowsOf(p)' = RowsOf(p)
    <3>1. p.name # q.name
      BY <1>4, <2>1, Zenon
    <3>2. \A e \in new : e.commit = q.name
      BY <1>3 DEF Legit, EventRows
    <3> QED
      BY <1>5, <3>1, <3>2 DEF RowsOf
  <2>2. RowsOf(q)' = new
    <3>1. RowsOf(q) = {}
      BY <1>3 DEF SqlInv, RowsInv
    <3>2. \A e \in new : e.commit = q.name
      BY <1>3 DEF Legit, EventRows
    <3> QED
      BY <1>5, <3>1, <3>2 DEF RowsOf
  <2>3. new # {} => \E n \in Nat : new = EventRows(q, n)
    <3>1. NextOffset(q.run) \in Nat
      BY <1>4, Zenon DEF SqlInv, RowsInv
    <3> QED
      BY <1>3, <3>1, Zenon DEF Legit
  <2>4. q.op = "atomic" => new # {}
    <3> SUFFICES ASSUME q.op = "atomic" PROVE new # {}
      OBVIOUS
    <3>1. new = EventRows(q, NextOffset(q.run))
      BY <1>3 DEF Legit
    <3>2. 1 \in 1..q.n
      BY <1>4
    <3> QED
      BY <3>1, <3>2, Zenon DEF EventRows
  <2>5. ASSUME NEW p \in DOMAIN answers
        PROVE  /\ answers'[p] # "ok" => RowsOf(p)' = {}
               /\ answers'[p] = "ok" /\ p.op = "atomic" => RowsOf(p)' # {}
               /\ RowsOf(p)' # {} => \E n \in Nat : RowsOf(p)' = EventRows(p, n)
    <3>1. CASE p = q
      BY <1>6, <2>2, <2>3, <2>4, <3>1
    <3>2. CASE p # q
      BY <1>7, <2>1, <3>2 DEF SqlInv, RowsInv
    <3> QED
      BY <3>1, <3>2
  <2> QED
    BY <1>6, <1>9, <2>5 DEF RowsInv
<1>13. WonInv'
  <2> SUFFICES ASSUME NEW k \in SqlKeys
               PROVE  /\ records'[k] = "absent" => Won(k)' = {}
                      /\ records'[k] # "absent" => \E p : Won(k)' = {p}
    BY Zenon DEF WonInv
  <2>1. CASE k = q.key /\ q.op \in Inserts
    <3>1. state # "absent" /\ records[k] = "absent"
      BY <1>3, <2>1 DEF Legit
    <3>2. Won(k) = {}
      BY <3>1 DEF SqlInv, WonInv
    <3>3. Won(k)' = {q}
      BY <1>3, <1>6, <1>7, <2>1, <3>2 DEF Won
    <3> QED
      BY <1>8, <2>1, <3>1, <3>3
  <2>2. CASE ~(k = q.key /\ q.op \in Inserts)
    <3>1. Won(k)' = Won(k)
      BY <1>6, <1>7, <1>3, <2>2 DEF Won
    <3>2. records'[k] = "absent" <=> records[k] = "absent"
      BY <1>3, <1>8, <2>2 DEF Legit
    <3> QED
      BY <3>1, <3>2, Zenon DEF SqlInv, WonInv
  <2> QED
    BY <2>1, <2>2
<1> QED
  BY <1>10, <1>11, <1>12, <1>13 DEF SqlInv

(* A call that creates a record, and a call that moves one: refused, or    *)
(* written under the lock.                                                 *)
LEMMA InsertKeeps ==
  ASSUME SqlInv, NEW q \in DOMAIN answers, NEW new, NEW state \in {"reserved", "dispatched"},
         answers[q] = "none", q.op \in Inserts,
         \/ new = {} /\ q.op # "atomic"
         \/ new = EventRows(q, NextOffset(q.run)) /\ q.op = "atomic" /\ backend = "colocated",
         InsertRecord(q, new, state)
  PROVE  SqlInv'
<1>1. CASE records[q.key] # "absent"
  BY <1>1, EndKeeps DEF InsertRecord
<1>2. CASE records[q.key] = "absent"
  <2>1. Free(q) /\ Written(q, new, state)
    BY <1>2 DEF InsertRecord
  <2>2. <<records[q.key], state>> \in StoreMoves
    BY <1>2 DEF StoreMoves
  <2>3. Legit(q, new, state)
    BY <1>2, <2>2 DEF Legit, Inserts
  <2> QED
    BY <2>1, <2>3, WrittenKeeps
<1> QED
  BY <1>1, <1>2

LEMMA TransitionKeeps ==
  ASSUME SqlInv, NEW q \in DOMAIN answers, NEW from, NEW to,
         answers[q] = "none", q.op \notin Inserts, q.op # "append",
         to # "absent", \A state \in from : state # "absent" /\ <<state, to>> \in StoreMoves,
         Transition(q, from, to)
  PROVE  SqlInv'
<1>1. CASE records[q.key] \notin from
  BY <1>1, EndKeeps DEF Transition
<1>2. CASE records[q.key] \in from
  <2>1. Free(q) /\ Written(q, {}, to)
    BY <1>2 DEF Transition
  <2>2. records[q.key] # "absent" /\ <<records[q.key], to>> \in StoreMoves
    BY <1>2
  <2>3. Legit(q, {}, to)
    BY <2>2 DEF Legit, Inserts
  <2> QED
    BY <2>1, <2>3, WrittenKeeps
<1> QED
  BY <1>1, <1>2

(* A call that takes its first step keeps the invariant of the tables,     *)
(* whichever the backend.                                                  *)
LEMMA BeginKeeps ==
  ASSUME SqlInv, NEW q \in DOMAIN answers, SqlBegin(q)
  PROVE  SqlInv'
<1>1. CASE SqliteLoadNextOffset(q) \/ ColocatedNextOffset(q)
  BY <1>1, ReadKeeps
<1>2. CASE PgAppendActionCommit(q)
  <2>1. /\ q.op = "append" /\ answers[q] = "none" /\ Free(q)
        /\ Written(q, EventRows(q, NextOffset(q.run)), "absent")
    BY <1>2 DEF PgAppendActionCommit, Waiting
  <2>2. Legit(q, EventRows(q, NextOffset(q.run)), "absent")
    BY <2>1 DEF Legit, Inserts
  <2>3. PICK new : new = EventRows(q, NextOffset(q.run))
    OBVIOUS
  <2> QED
    BY <2>1, <2>2, <2>3, WrittenKeeps
<1>3. CASE \/ SqliteReserve(q) \/ ColocatedReserve(q) \/ PgReserve(q)
           \/ SqliteReserveAndDispatch(q) \/ ColocatedReserveAndDispatch(q)
           \/ PgReserveAndDispatch(q)
  <2>1. /\ answers[q] = "none" /\ q.op \in Inserts /\ q.op # "atomic"
        /\ \E state \in {"reserved", "dispatched"} : InsertRecord(q, {}, state)
    BY <1>3 DEF SqliteReserve, ColocatedReserve, PgReserve, SqliteReserveAndDispatch,
                ColocatedReserveAndDispatch, PgReserveAndDispatch, Waiting, Inserts
  <2> QED
    BY <2>1, InsertKeeps, Zenon
<1>4. CASE AtomicDispatchRecord(q)
  <2>1. PICK new : new = EventRows(q, NextOffset(q.run))
    OBVIOUS
  <2>2. /\ answers[q] = "none" /\ q.op = "atomic" /\ backend = "colocated"
        /\ InsertRecord(q, new, "reserved")
    BY <1>4, <2>1 DEF AtomicDispatchRecord, Waiting
  <2>3. q.op \in Inserts
    BY <2>2 DEF Inserts
  <2> QED
    BY <2>1, <2>2, <2>3, InsertKeeps
<1>5. CASE SqliteMarkDispatched(q) \/ ColocatedMarkDispatched(q) \/ PgTransition(q)
           \/ SqliteMarkAcknowledged(q) \/ ColocatedMarkAcknowledged(q)
           \/ SqliteMarkSucceeded(q) \/ ColocatedMarkSucceeded(q)
           \/ SqliteMarkUnknownEffect(q) \/ ColocatedMarkUnknownEffect(q)
  <2>1. /\ answers[q] = "none" /\ q.op \notin Inserts /\ q.op # "append"
        /\ \/ Transition(q, {"reserved", "dispatched"}, "dispatched")
           \/ Transition(q, {"dispatched", "acknowledged"}, "acknowledged")
           \/ Transition(q, {"acknowledged", "succeeded"}, "succeeded")
           \/ Transition(q, {"dispatched", "unknown_effect"}, "unknown_effect")
    BY <1>5 DEF SqliteMarkDispatched, ColocatedMarkDispatched, PgTransition,
                SqliteMarkAcknowledged, ColocatedMarkAcknowledged, SqliteMarkSucceeded,
                ColocatedMarkSucceeded, SqliteMarkUnknownEffect, ColocatedMarkUnknownEffect,
                Waiting, Inserts
  <2>2. CASE Transition(q, {"reserved", "dispatched"}, "dispatched")
    <3>1. \A state \in {"reserved", "dispatched"} :
            state # "absent" /\ <<state, "dispatched">> \in StoreMoves
      BY DEF StoreMoves
    <3> QED
      BY <2>1, <2>2, <3>1, TransitionKeeps
  <2>3. CASE Transition(q, {"dispatched", "acknowledged"}, "acknowledged")
    <3>1. \A state \in {"dispatched", "acknowledged"} :
            state # "absent" /\ <<state, "acknowledged">> \in StoreMoves
      BY DEF StoreMoves
    <3> QED
      BY <2>1, <2>3, <3>1, TransitionKeeps
  <2>4. CASE Transition(q, {"acknowledged", "succeeded"}, "succeeded")
    <3>1. \A state \in {"acknowledged", "succeeded"} :
            state # "absent" /\ <<state, "succeeded">> \in StoreMoves
      BY DEF StoreMoves
    <3> QED
      BY <2>1, <2>4, <3>1, TransitionKeeps
  <2>5. CASE Transition(q, {"dispatched", "unknown_effect"}, "unknown_effect")
    <3>1. \A state \in {"dispatched", "unknown_effect"} :
            state # "absent" /\ <<state, "unknown_effect">> \in StoreMoves
      BY DEF StoreMoves
    <3> QED
      BY <2>1, <2>5, <3>1, TransitionKeeps
  <2> QED
    BY <2>1, <2>2, <2>3, <2>4, <2>5, Zenon
<1>6. CASE BusyTimeout(q)
  BY <1>6, EndKeeps DEF BusyTimeout
<1> QED
  BY <1>1, <1>2, <1>3, <1>4, <1>5, <1>6 DEF SqlBegin

(* Every step of the worker processes keeps the invariant of the tables.   *)
LEMMA SqlInvNext ==
  ASSUME SqlInv, [SqlNext]_sqlVars
  PROVE  SqlInv'
<1>0. CASE UNCHANGED sqlVars
  <2> USE <1>0 DEF sqlVars
  <2>1. SqlTyped'
    BY DEF SqlInv, SqlTyped
  <2>2. TxInv'
    <3>1. ASSUME NEW c \in Conns PROVE ReadTx(c)' <=> ReadTx(c)
      BY Zenon DEF ReadTx, Pending, NextOffset
    <3>2. ASSUME NEW c \in Conns PROVE WrittenTx(c)' <=> WrittenTx(c)
      <4>1. LockOf(tx[c].call)' = LockOf(tx[c].call)
        BY DEF LockOf
      <4>2. Legit(tx[c].call, tx[c].new, tx[c].state)' <=>
              Legit(tx[c].call, tx[c].new, tx[c].state)
        BY DEF Legit, NextOffset
      <4>3. Pending(tx[c].call, c)' <=> Pending(tx[c].call, c)
        BY DEF Pending
      <4> QED
        BY <4>1, <4>2, <4>3 DEF WrittenTx
    <3>3. tx' = tx
      OBVIOUS
    <3> QED
      BY <3>1, <3>2, <3>3, Zenon DEF SqlInv, TxInv
  <2>3. RowsInv'
    BY DEF SqlInv, RowsInv, RowsOf, NextOffset
  <2>4. WonInv'
    BY Zenon DEF SqlInv, WonInv, Won
  <2> QED
    BY <2>1, <2>2, <2>3, <2>4, Zenon DEF SqlInv
<1>1. ASSUME NEW q \in DOMAIN answers, SqlBegin(q) PROVE SqlInv'
  BY <1>1, BeginKeeps
<1>2. ASSUME NEW c \in Conns, SqliteInsertRows(c) PROVE SqlInv'
  <2>1. PICK q, next : q = tx[c].call /\ next = tx[c].next
    OBVIOUS
  <2>2. ReadTx(c) /\ backend = "sqlite" /\ Free(q)
    BY <1>2, <2>1, PhaseFacts DEF SqliteInsertRows, SqlInv
  <2>3. /\ q \in DOMAIN answers /\ answers[q] = "none" /\ q.op = "append"
        /\ next \in 1..NextOffset(q.run)
    BY <2>1, <2>2 DEF ReadTx, Pending
  <2>4. CASE Taken(EventRows(q, next))
    <3>1. EndWithout(q, "raised")
      BY <1>2, <2>1, <2>4 DEF SqliteInsertRows
    <3> QED
      BY <2>3, <3>1, EndKeeps
  <2>5. CASE ~Taken(EventRows(q, next))
    <3>1. Written(q, EventRows(q, next), "absent")
      BY <1>2, <2>1, <2>5 DEF SqliteInsertRows
    <3>2. q.run \in Streams /\ q.n \in Nat
      BY <2>3, CallFacts DEF SqlInv
    <3>3. NextOffset(q.run) \in Nat /\ DenseRows(rows, q.run, NextOffset(q.run) - 1)
      BY <3>2 DEF SqlInv, RowsInv
    <3>4. CASE q.n = 0
      <4>1. EventRows(q, next) = {} /\ EventRows(q, NextOffset(q.run)) = {}
        BY <3>4 DEF EventRows
      <4>2. Legit(q, {}, "absent")
        BY <2>3, Zenon DEF Legit, Inserts
      <4> QED
        BY <2>2, <2>3, <3>1, <4>1, <4>2, WrittenKeeps, Zenon
    <3>5. CASE q.n # 0
      <4>1. next = NextOffset(q.run)
        <5> SUFFICES ASSUME next # NextOffset(q.run) PROVE FALSE
          OBVIOUS
        <5>1. next \in 1..(NextOffset(q.run) - 1)
          BY <2>3, <3>3
        <5>2. PICK e \in rows : e.run = q.run /\ e.offset = next
          BY <3>3, <5>1 DEF DenseRows, OffsetsIn
        <5>3. 1 \in 1..q.n
          BY <3>2, <3>5
        <5> DEFINE b == [run |-> q.run, offset |-> next + 1 - 1, commit |-> q.name,
                         index |-> 1, key |-> q.key]
        <5>4. b \in EventRows(q, next)
          BY <5>3 DEF EventRows
        <5>5. b.run = q.run /\ b.offset = next
          BY <5>1, <3>3
        <5> HIDE DEF b
        <5> QED
          BY <2>5, <5>2, <5>4, <5>5 DEF Taken
      <4>2. Legit(q, EventRows(q, next), "absent")
        BY <2>3, <4>1 DEF Legit, Inserts
      <4>3. PICK new : new = EventRows(q, next)
        OBVIOUS
      <4> QED
        BY <2>2, <2>3, <3>1, <4>2, <4>3, WrittenKeeps, Zenon
    <3> QED
      BY <3>4, <3>5
  <2> QED
    BY <2>4, <2>5
<1>3. ASSUME NEW c \in Conns, ColocatedInsertRows(c) PROVE SqlInv'
  <2>1. PICK q, new : q = tx[c].call /\ new = EventRows(q, tx[c].next)
    OBVIOUS
  <2>2. ReadTx(c) /\ backend = "colocated" /\ Free(q)
    BY <1>3, <2>1, PhaseFacts, Zenon DEF ColocatedInsertRows, SqlInv
  <2>3. q \in DOMAIN answers /\ answers[q] = "none" /\ q.op = "append"
    BY <2>1, <2>2 DEF ReadTx, Pending
  <2>4. CASE tx[c].seen # version
    <3>1. EndWithout(q, "raised")
      BY <1>3, <2>1, <2>4, Zenon DEF ColocatedInsertRows
    <3> QED
      BY <2>3, <3>1, EndKeeps, Zenon
  <2>5. CASE tx[c].seen = version
    <3>1. Written(q, new, "absent")
      BY <1>3, <2>1, <2>5, Zenon DEF ColocatedInsertRows
    <3>2. new = EventRows(q, NextOffset(q.run))
      BY <2>1, <2>2, <2>5, Zenon DEF ReadTx
    <3>3. Legit(q, new, "absent")
      BY <2>3, <3>2 DEF Legit, Inserts
    <3> QED
      BY <2>2, <2>3, <3>1, <3>3, WrittenKeeps, Zenon
  <2> QED
    BY <2>4, <2>5
<1>4. ASSUME NEW c \in Conns, CommitTransaction(c) PROVE SqlInv'
  BY <1>4, CommitKeeps
<1>5. ASSUME NEW c \in Conns, Rollback(c) \/ ProcessDies(c) PROVE SqlInv'
  <2>1. PICK q : q = tx[c].call
    OBVIOUS
  <2>2. Pending(q, c)
    BY <1>5, <2>1 DEF Rollback, ProcessDies, SqlInv, TxInv, ReadTx, WrittenTx, NoTx
  <2>3. \E a \in {"raised", "lost"} : EndWithout(q, a)
    BY <1>5, <2>1 DEF Rollback, ProcessDies
  <2> QED
    BY <2>2, <2>3, EndKeeps DEF Pending
<1> QED
  BY <1>0, <1>1, <1>2, <1>3, <1>4, <1>5, Zenon DEF SqlNext

(* Every state the worker processes can reach satisfies the invariant.     *)
LEMMA SqlInvariant == SqlSpec => []SqlInv
<1>1. SqlInit => SqlInv
  <2> SUFFICES ASSUME SqlInit PROVE SqlInv
    OBVIOUS
  <2>1. PICK batch \in SqlBatches : answers = [q \in batch |-> "none"]
    BY DEF SqlInit
  <2>2. DOMAIN answers = batch /\ \A q \in batch : answers[q] = "none"
    BY <2>1
  <2>3. records = [k \in SqlKeys |-> "absent"]
    BY DEF SqlInit, Store!StoreInit
  <2>4. SqlTyped
    <3>1. answers \in [DOMAIN answers -> {"none", "ok", "raised", "duplicate", "lost"}]
      BY <2>1
    <3>2. locks \in [Lockable -> Conns \cup {"free"}]
      BY DEF SqlInit
    <3>3. tx = [c \in Conns |-> tx[c]]
      BY DEF SqlInit
    <3>4. version \in Nat /\ records \in [SqlKeys -> SqlRecordStates]
      BY <2>3 DEF SqlInit, SqlRecordStates
    <3> QED
      BY <2>2, <3>1, <3>2, <3>3, <3>4 DEF SqlTyped
  <2>5. TxInv
    BY DEF SqlInit, TxInv
  <2>6. RowsInv
    <3>1. rows = {}
      BY DEF SqlInit
    <3>2. ASSUME NEW r \in Streams PROVE DenseRows(rows, r, 0)
      BY <3>1 DEF DenseRows, OffsetsIn
    <3>3. ASSUME NEW r \in Streams
          PROVE  NextOffset(r) \in Nat /\ DenseRows(rows, r, NextOffset(r) - 1)
      <4>1. NextOffset(r) = 0 + 1
        BY <3>2, DenseMax DEF NextOffset
      <4>2. NextOffset(r) \in Nat /\ NextOffset(r) - 1 = 0
        BY <4>1
      <4> QED
        BY <3>2, <4>2
    <3>4. \A q \in DOMAIN answers : RowsOf(q) = {}
      BY <3>1 DEF RowsOf
    <3> QED
      BY <2>2, <3>3, <3>4 DEF RowsInv
  <2>7. WonInv
    BY <2>2, <2>3 DEF WonInv, Won
  <2> QED
    BY <2>4, <2>5, <2>6, <2>7 DEF SqlInv
<1>2. SqlInv /\ [SqlNext]_sqlVars => SqlInv'
  BY SqlInvNext
<1> QED
  BY <1>1, <1>2, PTL DEF SqlSpec

(* A dense run has as many rows as its last offset says.                   *)
LEMMA DenseCount ==
  ASSUME NEW R, NEW r, NEW n \in Nat, DenseRows(R, r, n)
  PROVE  Cardinality({e \in R : e.run = r}) = n
<1> DEFINE mine == {e \in R : e.run = r}
           f == [e \in mine |-> e.offset]
<1>1. \A e \in mine : e.offset \in 1..n
  BY DEF DenseRows, OffsetsIn
<1>2. \A i \in 1..n : \E e \in mine : e.offset = i
  BY DEF DenseRows, OffsetsIn
<1>3. \A d, e \in mine : d.offset = e.offset => d = e
  BY DEF DenseRows
<1> HIDE DEF mine
<1>4. f \in Bijection(mine, 1..n)
  <2>1. f \in [mine -> 1..n]
    BY <1>1
  <2>2. \A d, e \in mine : f[d] = f[e] => d = e
    BY <1>3
  <2>3. \A i \in 1..n : \E e \in mine : f[e] = i
    BY <1>2
  <2> QED
    BY <2>1, <2>2, <2>3 DEF Bijection, Injection, Surjection, IsInjective
<1> HIDE DEF f
<1>5. ExistsBijection(mine, 1..n)
  BY <1>4 DEF ExistsBijection
<1>6. IsFiniteSet(1..n) /\ Cardinality(1..n) = n
  BY FS_Interval
<1>7. ExistsBijection(1..n, mine)
  BY <1>5, Fun_ExistsBijSymmetric
<1>8. Cardinality(mine) = n
  BY <1>6, <1>7, FS_Bijection
<1> QED
  BY <1>8 DEF mine

(* On every backend, however many processes append and whichever of them   *)
(* fail, the log of a run has no gap and no offset twice, and the events   *)
(* of a commit are all there, next to each other (append_action_commit).   *)
THEOREM OffsetsStayDense == SqlSpec => []OffsetsAreDense
<1>1. SqlInv => OffsetsAreDense
  <2> SUFFICES ASSUME SqlInv, NEW r \in Streams
               PROVE  LET mine == {e \in rows : e.run = r} IN
                        /\ {e.offset : e \in mine} = 1..Cardinality(mine)
                        /\ \A q \in DOMAIN answers :
                             RowsOf(q) \cap mine # {} =>
                               \E first \in {e.offset : e \in mine} :
                                 RowsOf(q) = EventRows(q, first)
    BY DEF OffsetsAreDense
  <2> DEFINE mine == {e \in rows : e.run = r}
  <2>1. PICK n \in Nat : n = NextOffset(r) - 1
    BY NextOffsetPositive
  <2>2. DenseRows(rows, r, n)
    BY <2>1 DEF SqlInv, RowsInv
  <2>3. Cardinality(mine) = n
    BY <2>2, DenseCount
  <2>4. {e.offset : e \in mine} = 1..n
    BY <2>2 DEF DenseRows, OffsetsIn
  <2>5. ASSUME NEW q \in DOMAIN answers, RowsOf(q) \cap mine # {}
        PROVE  \E first \in {e.offset : e \in mine} : RowsOf(q) = EventRows(q, first)
    <3>1. PICK first \in Nat : RowsOf(q) = EventRows(q, first)
      BY <2>5 DEF SqlInv, RowsInv
    <3>2. q.n \in Nat
      BY CallFacts DEF SqlInv
    <3>3. PICK d \in RowsOf(q) : d.run = r
      BY <2>5
    <3>4. PICK i \in 1..q.n : d = [run |-> q.run, offset |-> first + i - 1, commit |-> q.name,
                                   index |-> i, key |-> q.key]
      BY <3>1, <3>3, Zenon DEF EventRows
    <3>5. q.run = r /\ 1 \in 1..q.n
      BY <3>2, <3>3, <3>4
    <3> DEFINE e == [run |-> q.run, offset |-> first + 1 - 1, commit |-> q.name,
                     index |-> 1, key |-> q.key]
    <3>6. e \in EventRows(q, first)
      BY <3>5 DEF EventRows
    <3>7. e.run = q.run /\ e.offset = first
      OBVIOUS
    <3> HIDE DEF e
    <3>8. e \in mine
      BY <3>1, <3>5, <3>6, <3>7, Zenon DEF RowsOf
    <3> QED
      BY <3>1, <3>7, <3>8, Zenon
  <2> QED
    BY <2>3, <2>4, <2>5, Zenon
<1> QED
  BY <1>1, SqlInvariant, PTL

(* However many workers race for a key and wherever one dies, a key has a  *)
(* record exactly when one call created it, and the events of an           *)
(* atomic_dispatch_record are there exactly when that call was it.         *)
THEOREM DispatchIsWhole == SqlSpec => []AtomicDispatchIsWhole
<1>1. SqlInv => AtomicDispatchIsWhole
  <2> SUFFICES ASSUME SqlInv, NEW k \in SqlKeys
               PROVE  LET atomic == {q \in DOMAIN answers : q.op = "atomic" /\ q.key = k}
                          others == {q \in DOMAIN answers :
                                       q.op \in {"reserve", "reserve_and_dispatch"} /\ q.key = k
                                       /\ answers[q] = "ok"}
                          wrote  == {q \in atomic : RowsOf(q) # {}}
                      IN  /\ Cardinality(wrote) + Cardinality(others) <= 1
                          /\ records[k] # "absent" =>
                               Cardinality(wrote) + Cardinality(others) = 1
    BY Zenon DEF AtomicDispatchIsWhole
  <2> DEFINE atomic == {q \in DOMAIN answers : q.op = "atomic" /\ q.key = k}
             others == {q \in DOMAIN answers :
                          q.op \in {"reserve", "reserve_and_dispatch"} /\ q.key = k
                          /\ answers[q] = "ok"}
             wrote  == {q \in atomic : RowsOf(q) # {}}
  <2>1. wrote = {q \in Won(k) : q.op = "atomic"}
    <3>1. \A q \in DOMAIN answers : q.op = "atomic" => (RowsOf(q) # {} <=> answers[q] = "ok")
      BY DEF SqlInv, RowsInv
    <3> QED
      BY <3>1 DEF Won, Inserts
  <2>2. others = {q \in Won(k) : q.op # "atomic"}
    BY DEF Won, Inserts
  <2>3. Cardinality({}) = 0
    BY FS_EmptySet
  <2> HIDE DEF wrote, others
  <2>4. CASE records[k] = "absent"
    <3>1. wrote = {} /\ others = {}
      BY <2>1, <2>2, <2>4 DEF SqlInv, WonInv
    <3>2. Cardinality(wrote) = 0 /\ Cardinality(others) = 0
      BY <2>3, <3>1, Zenon
    <3> QED
      BY <2>4, <3>2 DEF wrote, others
  <2>5. CASE records[k] # "absent"
    <3>1. PICK q : Won(k) = {q}
      BY <2>5, Zenon DEF SqlInv, WonInv
    <3>2. Cardinality({q}) = 1
      BY FS_Singleton
    <3>3. \/ wrote = {q} /\ others = {}
          \/ wrote = {} /\ others = {q}
      <4>1. CASE q.op = "atomic"
        BY <2>1, <2>2, <3>1, <4>1
      <4>2. CASE q.op # "atomic"
        BY <2>1, <2>2, <3>1, <4>2
      <4> QED
        BY <4>1, <4>2
    <3>4. \/ Cardinality(wrote) = 1 /\ Cardinality(others) = 0
          \/ Cardinality(wrote) = 0 /\ Cardinality(others) = 1
      BY <2>3, <3>2, <3>3
    <3> QED
      BY <3>4 DEF wrote, others
  <2> QED
    BY <2>4, <2>5, Zenon
<1> QED
  BY <1>1, SqlInvariant, PTL

(* The SQL tables of every backend implement the in-memory store: each     *)
(* commit changes at most one record, by one legal transition.             *)
THEOREM SqlImplementsStore == SqlSpec => SqlStoreIsADedupeStore
<1>1. SqlInit => Store!StoreInit
  BY DEF SqlInit
<1>2. SqlInv /\ [SqlNext]_sqlVars => [Store!StoreNext]_records
  <2> SUFFICES ASSUME SqlInv, [SqlNext]_sqlVars, records' # records
               PROVE  Store!StoreNext
    OBVIOUS
  <2>1. PICK c \in Conns : CommitTransaction(c)
    <3>1. /\ \A q, new, state : Written(q, new, state) => records' = records
          /\ \A q, a : EndWithout(q, a) => records' = records
      BY Zenon DEF Written, EndWithout
    <3>2. /\ \A q, new, state : InsertRecord(q, new, state) => records' = records
          /\ \A q, from, to : Transition(q, from, to) => records' = records
      BY <3>1 DEF InsertRecord, Transition
    <3>3. ASSUME NEW q \in DOMAIN answers PROVE ~SqlBegin(q)
      <4>1. ~SqliteLoadNextOffset(q) /\ ~ColocatedNextOffset(q) /\ ~PgAppendActionCommit(q)
            /\ ~BusyTimeout(q)
        BY <3>1, Zenon DEF SqliteLoadNextOffset, ColocatedNextOffset, PgAppendActionCommit, BusyTimeout
      <4>2. ~SqliteReserve(q) /\ ~ColocatedReserve(q) /\ ~PgReserve(q)
            /\ ~SqliteReserveAndDispatch(q) /\ ~ColocatedReserveAndDispatch(q)
            /\ ~PgReserveAndDispatch(q) /\ ~AtomicDispatchRecord(q)
        BY <3>2 DEF SqliteReserve, ColocatedReserve, PgReserve, SqliteReserveAndDispatch,
                    ColocatedReserveAndDispatch, PgReserveAndDispatch, AtomicDispatchRecord
      <4>3. ~SqliteMarkDispatched(q) /\ ~SqliteMarkAcknowledged(q) /\ ~SqliteMarkSucceeded(q)
            /\ ~SqliteMarkUnknownEffect(q) /\ ~PgTransition(q)
        BY <3>2 DEF SqliteMarkDispatched, SqliteMarkAcknowledged, SqliteMarkSucceeded,
                    SqliteMarkUnknownEffect, PgTransition
      <4>4. ~ColocatedMarkDispatched(q) /\ ~ColocatedMarkAcknowledged(q)
            /\ ~ColocatedMarkSucceeded(q) /\ ~ColocatedMarkUnknownEffect(q)
        BY <3>2, Zenon DEF ColocatedMarkDispatched, ColocatedMarkAcknowledged,
                    ColocatedMarkSucceeded, ColocatedMarkUnknownEffect
      <4> QED
        BY <4>1, <4>2, <4>3, <4>4, Zenon DEF SqlBegin
    <3>4. \A c \in Conns : /\ ~SqliteInsertRows(c) /\ ~ColocatedInsertRows(c)
                           /\ ~Rollback(c) /\ ~ProcessDies(c)
      BY <3>1 DEF SqliteInsertRows, ColocatedInsertRows, Rollback, ProcessDies
    <3>5. SqlNext
      BY DEF sqlVars
    <3> QED
      BY <3>3, <3>4, <3>5, Zenon DEF SqlNext
  <2>2. PICK q, state : q = tx[c].call /\ state = tx[c].state
    OBVIOUS
  <2>3. WrittenTx(c)
    BY <2>1, PhaseFacts, Zenon DEF CommitTransaction, SqlInv
  <2>4. q \in DOMAIN answers /\ Legit(q, tx[c].new, state)
    BY <2>2, <2>3, Zenon DEF WrittenTx, Pending
  <2>5. q.key \in SqlKeys
    BY <2>4, CallFacts, Zenon DEF SqlInv
  <2>6. state # "absent" /\ records' = [records EXCEPT ![q.key] = state]
    BY <2>1, <2>2, Zenon DEF CommitTransaction
  <2>7. <<records[q.key], state>> \in StoreMoves
    BY <2>4, <2>6, Zenon DEF Legit
  <2>8. Store!StoreStep(q.key)
    BY <2>6, <2>7, Zenon DEF StoreMoves, Store!StoreStep, Store!Reserve, Store!ReserveAndDispatch,
                      Store!MarkDispatched, Store!MarkAcknowledged, Store!MarkSucceeded,
                      Store!MarkUnknownEffect, Store!MoveTo
  <2> QED
    BY <2>5, <2>8 DEF Store!StoreNext
<1> QED
  BY <1>1, <1>2, SqlInvariant, PTL DEF SqlSpec, SqlStoreIsADedupeStore, Store!StoreSpec
=============================================================================
