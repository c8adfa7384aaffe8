--------------------------- MODULE DatabaseProofs ---------------------------
(***************************************************************************)
(* Theorems about the two components of src/agent_sdk/db: ConnectionPool,  *)
(* for every finite set of connections and every set of tasks and rows;    *)
(* and ColdStart, for every set of starters, every number of migrations,   *)
(* every number of crashes and retries.                                    *)
(***************************************************************************)
EXTENDS ConnectionPool, ColdStart, FiniteSetTheorems, TLAPS

-----------------------------------------------------------------------------
(* Connections: each is in the pool, closed, or with one task. *)

Held == {t \in Tasks : conn[t] # NoConn}

(* A task has a connection from _acquire to _release. *)
ConnFits == \A t \in Tasks : conn[t] = NoConn <=> pc[t] \in {"idle", "waiting"}

(* No connection is in two places... *)
Distinct ==
    /\ \A i, j \in DOMAIN free : free[i] = free[j] => i = j
    /\ \A i \in DOMAIN free : free[i] \notin closed /\ \A t \in Tasks : conn[t] # free[i]
    /\ \A t \in Tasks : conn[t] \notin closed
    /\ \A t, u \in Tasks : conn[t] = conn[u] /\ conn[t] # NoConn => t = u

(* ... and none in no place. *)
Covered ==
    \A c \in Conns : c \in closed \/ (\E i \in DOMAIN free : free[i] = c) \/ \E t \in Tasks : conn[t] = c

Counted ==
    /\ IsFiniteSet(closed) /\ IsFiniteSet(Held)
    /\ Len(free) + Cardinality(closed) + Cardinality(Held) = Cardinality(Conns)

PoolTyped == /\ free \in Seq(Conns) /\ closed \subseteq Conns
             /\ conn \in [Tasks -> Conns \cup {NoConn}]

PoolInv == PoolTyped /\ Distinct /\ Covered /\ Counted

LEMMA PoolCounts ==
    ASSUME PoolInv
    PROVE  Cardinality(closed) \in Nat /\ Cardinality(Held) \in Nat /\ Len(free) \in Nat
BY FS_CardinalityType DEF PoolInv, PoolTyped, Counted

LEMMA InitPoolInv == Init => PoolInv
<1> SUFFICES ASSUME Init PROVE PoolInv
  OBVIOUS
<1> DEFINE n == Cardinality(Conns)
<1>1. n \in Nat
  BY ConnsAssumption, FS_CardinalityType
<1>2. /\ free \in [1..n -> Conns] /\ \A i, j \in 1..n : free[i] = free[j] => i = j
      /\ closed = {} /\ conn = [t \in Tasks |-> NoConn]
  BY DEF Init, IsInjective
<1>3. free \in Seq(Conns) /\ Len(free) = n /\ DOMAIN free = 1..n
  BY <1>1, <1>2
<1>4. \A c \in Conns : \E i \in DOMAIN free : free[i] = c
  <2>1. free \in Injection(1..n, Conns)
    BY <1>2 DEF Injection, IsInjective
  <2>2. IsFiniteSet(1..n) /\ Cardinality(1..n) = n
    BY <1>1, FS_Interval
  <2>3. free \in Surjection(1..n, Conns)
    BY <2>1, <2>2, ConnsAssumption, FS_Injection
  <2> QED
    BY <1>3, <2>3 DEF Surjection
<1>5. Held = {}
  BY <1>2 DEF Held
<1>6. Counted
  BY <1>1, <1>2, <1>3, <1>5, FS_EmptySet DEF Counted
<1>7. PoolTyped /\ Distinct /\ Covered
  BY <1>2, <1>3, <1>4, NoConnAssumption DEF PoolTyped, Distinct, Covered
<1> QED
  BY <1>6, <1>7 DEF PoolInv

LEMMA PoolKept ==
    ASSUME PoolInv, UNCHANGED <<free, closed, conn>> PROVE PoolInv'
BY DEF PoolInv, PoolTyped, Distinct, Covered, Counted, Held

(* _acquire *)
LEMMA PoolAcquire ==
    ASSUME PoolInv, NEW t \in Tasks, conn[t] = NoConn, free # <<>>,
           conn' = [conn EXCEPT ![t] = Head(free)], free' = Tail(free), UNCHANGED closed
    PROVE  PoolInv'
<1>1. /\ free \in Seq(Conns) /\ Len(free) \in Nat /\ Len(free) > 0 /\ Head(free) = free[1]
      /\ DOMAIN free = 1..Len(free) /\ free[1] \in Conns
  BY DEF PoolInv, PoolTyped
<1>2. /\ free' \in Seq(Conns) /\ Len(free') = Len(free) - 1
      /\ DOMAIN free' = 1..Len(free) - 1
      /\ \A i \in DOMAIN free' : free'[i] = free[i + 1] /\ i + 1 \in DOMAIN free
  BY <1>1
<1>3. /\ conn'[t] = free[1] /\ free[1] # NoConn
      /\ \A u \in Tasks : u # t => conn'[u] = conn[u]
      /\ conn' \in [Tasks -> Conns \cup {NoConn}]
  BY <1>1, NoConnAssumption DEF PoolInv, PoolTyped
<1>4. \A i \in DOMAIN free' : free'[i] # free[1]
  BY <1>1, <1>2 DEF PoolInv, Distinct
<1>5. Distinct'
  <2>1. \A i, j \in DOMAIN free' : free'[i] = free'[j] => i = j
    BY <1>1, <1>2 DEF PoolInv, Distinct
  <2>2. \A i \in DOMAIN free' : free'[i] \notin closed' /\ \A u \in Tasks : conn'[u] # free'[i]
    BY <1>2, <1>3, <1>4 DEF PoolInv, Distinct
  <2>3. \A u \in Tasks : conn'[u] \notin closed'
    BY <1>1, <1>3 DEF PoolInv, Distinct
  <2>4. \A u, v \in Tasks : conn'[u] = conn'[v] /\ conn'[u] # NoConn => u = v
    BY <1>1, <1>3 DEF PoolInv, Distinct
  <2> QED
    BY <2>1, <2>2, <2>3, <2>4 DEF Distinct
<1>6. Covered'
  <2> SUFFICES ASSUME NEW c \in Conns, c \notin closed, \A u \in Tasks : conn'[u] # c
               PROVE  \E i \in DOMAIN free' : free'[i] = c
    BY DEF Covered
  <2>1. c # free[1]
    BY <1>3
  <2>2. \A u \in Tasks : conn[u] # c
    BY <1>3, NoConnAssumption
  <2>3. PICK i \in DOMAIN free : free[i] = c
    BY <2>2 DEF PoolInv, Covered
  <2>4. i - 1 \in DOMAIN free' /\ free'[i - 1] = c
    BY <1>1, <1>2, <2>1, <2>3
  <2> QED
    BY <2>4
<1>7. Counted'
  <2>1. Held' = Held \cup {t} /\ t \notin Held
    BY <1>3 DEF Held
  <2>2. IsFiniteSet(Held') /\ Cardinality(Held') = Cardinality(Held) + 1
    BY <2>1, FS_AddElement DEF PoolInv, Counted
  <2> QED
    BY <1>2, <2>2, PoolCounts DEF PoolInv, Counted
<1> QED
  BY <1>2, <1>3, <1>5, <1>6, <1>7 DEF PoolInv, PoolTyped

(* _release *)
LEMMA PoolRelease ==
    ASSUME PoolInv, NEW t \in Tasks, conn' = [conn EXCEPT ![t] = NoConn],
           free' = Returned(t), UNCHANGED closed
    PROVE  PoolInv'
<1>1. CASE conn[t] = NoConn
  <2>1. conn' = conn /\ free' = free
    BY <1>1 DEF Returned, PoolInv, PoolTyped
  <2> QED
    BY <2>1, PoolKept
<1>2. CASE conn[t] # NoConn
  <2>1. conn[t] \in Conns /\ free' = Append(free, conn[t])
    BY <1>2 DEF Returned, PoolInv, PoolTyped
  <2>2. /\ free' \in Seq(Conns) /\ Len(free') = Len(free) + 1 /\ Len(free) \in Nat
        /\ DOMAIN free = 1..Len(free) /\ DOMAIN free' = 1..Len(free) + 1
        /\ free'[Len(free) + 1] = conn[t]
        /\ \A i \in DOMAIN free : free'[i] = free[i]
    BY <2>1 DEF PoolInv, PoolTyped
  <2>3. /\ conn'[t] = NoConn /\ \A u \in Tasks : u # t => conn'[u] = conn[u]
        /\ conn' \in [Tasks -> Conns \cup {NoConn}]
    BY DEF PoolInv, PoolTyped
  <2>4. Distinct'
    <3>1. \A i, j \in DOMAIN free' : free'[i] = free'[j] => i = j
      BY <2>2 DEF PoolInv, Distinct
    <3>2. \A u \in Tasks : conn'[u] # conn[t]
      BY <1>2, <2>3 DEF PoolInv, Distinct
    <3>3. \A i \in DOMAIN free : \A u \in Tasks : conn'[u] # free[i]
      BY <2>2, <2>3, NoConnAssumption DEF PoolInv, PoolTyped, Distinct
    <3>4. \A i \in DOMAIN free' : free'[i] \notin closed' /\ \A u \in Tasks : conn'[u] # free'[i]
      BY <2>2, <3>2, <3>3 DEF PoolInv, Distinct
    <3>5. \A u \in Tasks : conn'[u] \notin closed'
      BY <2>3, NoConnAssumption DEF PoolInv, PoolTyped, Distinct
    <3>6. \A u, v \in Tasks : conn'[u] = conn'[v] /\ conn'[u] # NoConn => u = v
      BY <2>3 DEF PoolInv, Distinct
    <3> QED
      BY <3>1, <3>4, <3>5, <3>6 DEF Distinct
  <2>5. Covered'
    <3> SUFFICES ASSUME NEW c \in Conns, c \notin closed, \A u \in Tasks : conn'[u] # c
                 PROVE  \E i \in DOMAIN free' : free'[i] = c
      BY DEF Covered
    <3>1. CASE c = conn[t]
      BY <2>2, <3>1
    <3>2. CASE c # conn[t]
      <4>1. \A u \in Tasks : conn[u] # c
        BY <2>3, <3>2
      <4>2. PICK i \in DOMAIN free : free[i] = c
        BY <4>1 DEF PoolInv, Covered
      <4> QED
        BY <2>2, <4>2
    <3> QED
      BY <3>1, <3>2
  <2>6. Counted'
    <3>1. Held' = Held \ {t} /\ t \in Held
      BY <1>2, <2>3 DEF Held
    <3>2. IsFiniteSet(Held') /\ Cardinality(Held') = Cardinality(Held) - 1
      BY <3>1, FS_RemoveElement DEF PoolInv, Counted
    <3> QED
      BY <2>2, <3>2, PoolCounts DEF PoolInv, Counted
  <2> QED
    BY <2>2, <2>3, <2>4, <2>5, <2>6 DEF PoolInv, PoolTyped
<1> QED
  BY <1>1, <1>2

(* close, one connection after the other *)
LEMMA PoolCloseOne ==
    ASSUME PoolInv, free # <<>>, free' = Tail(free), closed' = closed \cup {Head(free)},
           UNCHANGED conn
    PROVE  PoolInv'
<1>1. /\ free \in Seq(Conns) /\ Len(free) \in Nat /\ Len(free) > 0 /\ Head(free) = free[1]
      /\ DOMAIN free = 1..Len(free) /\ free[1] \in Conns /\ 1 \in DOMAIN free
  BY DEF PoolInv, PoolTyped
<1>2. /\ free' \in Seq(Conns) /\ Len(free') = Len(free) - 1
      /\ DOMAIN free' = 1..Len(free) - 1
      /\ \A i \in DOMAIN free' : free'[i] = free[i + 1] /\ i + 1 \in DOMAIN free
  BY <1>1
<1>3. \A i \in DOMAIN free' : free'[i] # free[1]
  BY <1>1, <1>2 DEF PoolInv, Distinct
<1>4. Distinct'
  <2>1. \A i, j \in DOMAIN free' : free'[i] = free'[j] => i = j
    BY <1>1, <1>2 DEF PoolInv, Distinct
  <2>2. \A i \in DOMAIN free' : free'[i] \notin closed' /\ \A u \in Tasks : conn'[u] # free'[i]
    BY <1>1, <1>2, <1>3 DEF PoolInv, Distinct
  <2>3. \A u \in Tasks : conn'[u] \notin closed'
    BY <1>1 DEF PoolInv, Distinct
  <2> QED
    BY <2>1, <2>2, <2>3 DEF PoolInv, Distinct
<1>5. Covered'
  <2> SUFFICES ASSUME NEW c \in Conns, c \notin closed, c # free[1], \A u \in Tasks : conn[u] # c
               PROVE  \E i \in DOMAIN free' : free'[i] = c
    BY <1>1 DEF Covered
  <2>1. PICK i \in DOMAIN free : free[i] = c
    BY DEF PoolInv, Covered
  <2>2. i - 1 \in DOMAIN free' /\ free'[i - 1] = c
    BY <1>1, <1>2, <2>1
  <2> QED
    BY <2>2
<1>6. Counted'
  <2>1. free[1] \notin closed
    BY <1>1 DEF PoolInv, Distinct
  <2>2. IsFiniteSet(closed') /\ Cardinality(closed') = Cardinality(closed) + 1
    BY <1>1, <2>1, FS_AddElement DEF PoolInv, Counted
  <2>3. Held' = Held
    BY DEF Held
  <2> QED
    BY <1>2, <2>2, <2>3, PoolCounts DEF PoolInv, Counted
<1> QED
  BY <1>1, <1>2, <1>4, <1>5, <1>6 DEF PoolInv, PoolTyped

-----------------------------------------------------------------------------
(* Rows: who has asked for them, and where they are. *)

Transactions == [mode : {"none", "open", "read", "write"}, seen : SUBSET Rows, pending : SUBSET Rows]

Fates == {"new", "asked", "done", "failed", "cancelled"}

(* A row in an open statement or body was asked for by that task only. *)
RowsAsked ==
    /\ \A t \in Tasks : \A r \in op[t].rows : fate[r] = "asked"
    /\ \A t, u \in Tasks : op[t].rows \cap op[u].rows # {} => t = u

Single(rows) == \A r, q \in rows : r = q

KindsFit ==
    \A t \in Tasks : /\ pc[t] = "ran" => op[t].kind \in {"execute", "execute_many"}
                     /\ pc[t] = "body" => op[t].kind = "transaction"
                     /\ op[t].kind = "transaction" => op[t].rows \in batches
                     /\ op[t].kind = "execute_many" => op[t].rows \in many
                     /\ op[t].kind = "execute" => Single(op[t].rows)

(* The statements of an execute that have run have left their rows behind. *)
RanRows == \A t \in Tasks : pc[t] = "ran" => op[t].rows \subseteq tx[conn[t]].pending

(* The rows a call may leave behind without having committed them: those   *)
(* of a cancelled call, and those of an execute_many that failed.          *)
Remains(r) == fate[r] = "cancelled" \/ (fate[r] = "failed" /\ \E rows \in many : r \in rows)

(* What a connection has pending belongs to the task that uses it, or is   *)
(* left by an earlier one.                                                 *)
PendingExplained ==
    \A c \in Conns : \A r \in tx[c].pending :
        Remains(r) \/ \E t \in Tasks : conn[t] = c /\ pc[t] \in {"ran", "body"} /\ r \in op[t].rows

CommittedExplained == \A r \in committed : fate[r] = "done" \/ Remains(r)

DoneIsCommitted == \A r \in Rows : fate[r] = "done" => r \in committed

Disturbed == rejected > 0 \/ cancels > 0 \/ batches # {}

FaultsCounted ==
    \A r \in Rows : /\ fate[r] = "failed" => Disturbed
                    /\ fate[r] = "cancelled" => cancels > 0

(* The rows of one transaction() share their fate. *)
BatchesWhole ==
    \A rows \in batches : /\ \A t \in Tasks : op[t].rows \cap rows = {} \/ op[t].rows = rows
                          /\ \A r \in rows : fate[r] # "new"
                          /\ \A r, q \in rows : fate[r] = fate[q]

(* So do those of one execute_many, and they are no transaction()'s... *)
ManyWhole ==
    \A rows \in many : /\ \A t \in Tasks : op[t].rows \cap rows = {} \/ op[t].rows = rows
                       /\ \A r \in rows : fate[r] # "new"
                       /\ \A r, q \in rows : fate[r] = fate[q]
                       /\ \A b \in batches : b \cap rows = {}

(* ... and if it has failed, it has not left all of them. *)
ManyPartial ==
    \A rows \in many : \A r \in rows : fate[r] = "failed" => \E q \in rows : Undone(q)

(* Without rejected statements, cancellations and transactions, the only   *)
(* open transaction is that of an execute about to commit.                 *)
Orderly ==
    ~Disturbed => \A c \in Conns :
        tx[c].mode = "none" \/ (tx[c].mode = "write" /\ Committing(c))

RowsInv == /\ RowsAsked /\ KindsFit /\ RanRows /\ PendingExplained /\ CommittedExplained
           /\ DoneIsCommitted /\ FaultsCounted /\ BatchesWhole
           /\ ManyWhole /\ ManyPartial /\ Orderly

IInv == TypeOK /\ ConnFits /\ PoolInv /\ RowsInv

LEMMA InitIInv == Init => IInv
<1> SUFFICES ASSUME Init PROVE IInv
  OBVIOUS
<1> USE BoundAssumption
<1>1. PoolInv
  BY InitPoolInv
<1>2. /\ tx = [c \in Conns |-> Clean] /\ committed = {} /\ pc = [t \in Tasks |-> "idle"]
      /\ op = [t \in Tasks |-> NoOp] /\ conn = [t \in Tasks |-> NoConn]
      /\ fate = [r \in Rows |-> "new"] /\ batches = {} /\ many = {} /\ closing = FALSE
      /\ calls = 0 /\ rejected = 0 /\ cancels = 0 /\ closes = 0
  BY DEF Init
<1>3. Clean \in Transactions /\ Clean.pending = {} /\ Clean.mode = "none"
  BY DEF Clean, Transactions
<1>4. NoOp \in [kind : Kinds \cup {"none"}, rows : SUBSET Rows] /\ NoOp.rows = {} /\ NoOp.kind = "none"
  BY DEF NoOp
<1>5. tx \in [Conns -> Transactions] /\ \A c \in Conns : tx[c] = Clean
  BY <1>2, <1>3
<1>6. op \in [Tasks -> [kind : Kinds \cup {"none"}, rows : SUBSET Rows]] /\ \A t \in Tasks : op[t] = NoOp
  BY <1>2, <1>4
<1>7. /\ calls \in 0..MaxCalls /\ rejected \in 0..MaxRejected
      /\ cancels \in 0..MaxCancels /\ closes \in 0..MaxCloses
  BY <1>2
<1>8. TypeOK
  <2>1. /\ pc \in [Tasks -> {"idle", "waiting", "ready", "ran", "body"}]
        /\ fate \in [Rows -> Fates]
        /\ \A c \in Conns : tx[c].pending = {}
    BY <1>2, <1>3, <1>5 DEF Fates
  <2> QED
    BY <1>1, <1>2, <1>5, <1>6, <1>7, <2>1 DEF TypeOK, PoolInv, PoolTyped, Transactions, Fates
<1>9. ConnFits
  BY <1>2 DEF ConnFits
<1>10. RowsAsked /\ KindsFit /\ RanRows /\ PendingExplained
  BY <1>2, <1>3, <1>4, <1>5, <1>6 DEF RowsAsked, KindsFit, RanRows, PendingExplained
<1>11. CommittedExplained /\ DoneIsCommitted /\ FaultsCounted /\ BatchesWhole
  BY <1>2 DEF CommittedExplained, DoneIsCommitted, FaultsCounted, BatchesWhole
<1>13. ManyWhole /\ ManyPartial
  BY <1>2 DEF ManyWhole, ManyPartial
<1>12. Orderly
  BY <1>3, <1>5 DEF Orderly
<1> QED
  BY <1>1, <1>8, <1>9, <1>10, <1>11, <1>12, <1>13 DEF IInv, RowsInv

(* A row that is told failed is in nobody's hands any more: if nothing is  *)
(* left of it, nothing comes of it later.                                  *)
LEMMA ManyPartialKept ==
    ASSUME IInv, many' = many,
           \A r \in Rows : fate'[r] = "failed" => fate[r] = "failed",
           NEW t \in Tasks,
           \A c \in Conns : tx'[c].pending \subseteq tx[c].pending \cup op[t].rows,
           \A r \in committed' : r \in committed \/ \E c \in Conns : r \in tx[c].pending
    PROVE  ManyPartial'
<1> SUFFICES ASSUME NEW rows \in many, NEW r \in rows, fate'[r] = "failed"
             PROVE  \E q \in rows : Undone(q)'
  BY DEF ManyPartial
<1>1. rows \subseteq Rows
  BY DEF IInv, TypeOK
<1>2. fate[r] = "failed"
  BY <1>1
<1>3. PICK q \in rows : Undone(q)
  BY <1>2 DEF IInv, RowsInv, ManyPartial
<1>4. fate[q] = "failed"
  BY <1>2 DEF IInv, RowsInv, ManyWhole
<1>5. q \notin op[t].rows
  BY <1>4 DEF IInv, RowsInv, RowsAsked
<1> QED
  BY <1>3, <1>5 DEF Undone

(* No two tasks with a connection share it, and no task has the one at the *)
(* head of the pool.                                                       *)
LEMMA OwnConnection ==
    ASSUME IInv, NEW t \in Tasks, pc[t] \in {"ready", "ran", "body"}
    PROVE  conn[t] \in Conns /\ \A u \in Tasks : conn[u] = conn[t] => u = t
BY DEF IInv, ConnFits, PoolInv, PoolTyped, Distinct

(* A statement of a call that goes on: it moves the transaction of its     *)
(* connection from tx[conn[t]] to x.                                       *)
LEMMA StatementStep ==
    ASSUME IInv, NEW t \in Tasks, pc[t] \in {"ready", "body"},
           NEW x \in Transactions, tx' = [tx EXCEPT ![conn[t]] = x],
           NEW p \in {"ran", "body"}, pc' = [pc EXCEPT ![t] = p],
           UNCHANGED <<pool, committed, op, conn, fate, history, calls, faults, shutdown>>,
           x.pending # {} => x.mode = "write",
           tx[conn[t]].pending \subseteq x.pending \/ x.pending = {},
           x.pending \subseteq tx[conn[t]].pending \cup op[t].rows,
           p = "ran" => op[t].kind \in {"execute", "execute_many"} /\ op[t].rows \subseteq x.pending /\ x.mode = "write",
           p = "body" => op[t].kind = "transaction"
    PROVE  IInv'
<1>1. /\ UNCHANGED <<free, closed, committed, op, conn, fate, batches, many, calls, rejected, cancels,
                     closing, closes>>
      /\ conn[t] \in Conns /\ \A u \in Tasks : conn[u] = conn[t] => u = t
  BY OwnConnection DEF pool, history, faults, shutdown
<1>2. /\ tx \in [Conns -> Transactions] /\ pc \in [Tasks -> {"idle", "waiting", "ready", "ran", "body"}]
      /\ \A c \in Conns : tx[c].pending # {} => tx[c].mode = "write"
  BY DEF IInv, TypeOK, Transactions
<1>3. /\ tx' \in [Conns -> Transactions] /\ tx'[conn[t]] = x
      /\ \A c \in Conns : c # conn[t] => tx'[c] = tx[c]
  BY <1>1, <1>2
<1>4. /\ pc' \in [Tasks -> {"idle", "waiting", "ready", "ran", "body"}] /\ pc'[t] = p
      /\ \A u \in Tasks : u # t => pc'[u] = pc[u]
  BY <1>2
<1>5. TypeOK'
  <2>1. \A c \in Conns : tx'[c].pending # {} => tx'[c].mode = "write"
    BY <1>2, <1>3
  <2> QED
    BY <1>1, <1>3, <1>4, <2>1 DEF IInv, TypeOK, Transactions
<1>6. PoolInv'
  BY <1>1, PoolKept DEF IInv
<1>7. ConnFits'
  BY <1>1, <1>4 DEF IInv, ConnFits
<1>8. /\ RowsAsked' /\ CommittedExplained' /\ DoneIsCommitted' /\ FaultsCounted' /\ BatchesWhole'
      /\ ManyWhole'
  BY <1>1 DEF IInv, RowsInv, RowsAsked, CommittedExplained, Remains, DoneIsCommitted, FaultsCounted,
      Disturbed, BatchesWhole, ManyWhole
<1>13. ManyPartial'
  BY <1>1, <1>3, ManyPartialKept
<1>9. KindsFit'
  BY <1>1, <1>4 DEF IInv, RowsInv, KindsFit
<1>10. RanRows'
  <2> SUFFICES ASSUME NEW u \in Tasks, pc'[u] = "ran"
               PROVE  op'[u].rows \subseteq tx'[conn'[u]].pending
    BY DEF RanRows
  <2>1. CASE u = t
    BY <1>1, <1>3, <1>4, <2>1
  <2>2. CASE u # t
    <3>1. pc[u] = "ran" /\ conn[u] # conn[t] /\ conn[u] \in Conns
      BY <1>1, <1>4, <2>2, OwnConnection
    <3> QED
      BY <1>1, <1>3, <3>1 DEF IInv, RowsInv, RanRows
  <2> QED
    BY <2>1, <2>2
<1>11. PendingExplained'
  <2> SUFFICES ASSUME NEW c \in Conns, NEW r \in tx'[c].pending
               PROVE  \/ Remains(r)
                      \/ \E u \in Tasks : conn[u] = c /\ pc'[u] \in {"ran", "body"} /\ r \in op[u].rows
    BY <1>1 DEF PendingExplained, Remains
  <2>1. CASE r \in tx[c].pending /\ ~Remains(r)
    <3>1. PICK u \in Tasks : conn[u] = c /\ pc[u] \in {"ran", "body"} /\ r \in op[u].rows
      BY <2>1 DEF IInv, RowsInv, PendingExplained
    <3>2. pc'[u] \in {"ran", "body"}
      BY <1>4, <3>1
    <3> QED
      BY <3>1, <3>2
  <2>2. CASE r \notin tx[c].pending
    <3>1. c = conn[t] /\ r \in op[t].rows
      BY <1>3, <2>2
    <3> QED
      BY <1>4, <3>1
  <2> QED
    BY <2>1, <2>2
<1>12. Orderly'
  <2> SUFFICES ASSUME ~Disturbed, NEW c \in Conns
               PROVE  tx'[c].mode = "none" \/ (tx'[c].mode = "write" /\ Committing(c)')
    BY <1>1 DEF Orderly, Disturbed
  <2>1. p = "ran"
    BY DEF IInv, RowsInv, KindsFit, Disturbed
  <2>2. CASE c = conn[t]
    BY <1>1, <1>3, <1>4, <2>1, <2>2 DEF Committing
  <2>3. CASE c # conn[t]
    <3>1. tx'[c] = tx[c]
      BY <1>3, <2>3
    <3>2. ASSUME Committing(c) PROVE Committing(c)'
      BY <1>1, <1>4, <2>3, <3>2 DEF Committing
    <3> QED
      BY <3>1, <3>2 DEF IInv, RowsInv, Orderly
  <2> QED
    BY <2>2, <2>3
<1> QED
  BY <1>5, <1>6, <1>7, <1>8, <1>9, <1>10, <1>11, <1>12, <1>13 DEF IInv, RowsInv

LEMMA StatementKeepsIInv ==
    ASSUME IInv, NEW t \in Tasks, Execute(t) \/ Begin(t) \/ BodyFetches(t) \/ BodyWrites(t)
    PROVE  IInv'
<1> DEFINE c == conn[t]
<1>1. /\ tx \in [Conns -> Transactions] /\ op[t].rows \in SUBSET Rows /\ committed \in SUBSET Rows
      /\ pc \in [Tasks -> {"idle", "waiting", "ready", "ran", "body"}]
      /\ \A d \in Conns : tx[d].pending # {} => tx[d].mode = "write"
  BY DEF IInv, TypeOK, Transactions
<1>2. c \in Conns
  BY OwnConnection DEF Execute, Begin, BodyFetches, BodyWrites, At, AtWrite
<1>3. tx[c] \in Transactions
  BY <1>1, <1>2
<1>4. CASE Execute(t)
  <2> DEFINE x == Locking(c, op[t].rows)
  <2>1. /\ x \in Transactions /\ x.mode = "write" /\ x.pending = tx[c].pending \cup op[t].rows
    BY <1>1, <1>3 DEF Locking, Transactions
  <2>2. /\ pc[t] = "ready" /\ op[t].kind \in {"execute", "execute_many"} /\ tx' = [tx EXCEPT ![conn[t]] = x]
        /\ pc' = [pc EXCEPT ![t] = "ran"]
        /\ UNCHANGED <<pool, committed, op, conn, fate, history, calls, faults, shutdown>>
    BY <1>4 DEF Execute, At, AtWrite
  <2> HIDE DEF x
  <2> QED
    BY <2>1, <2>2, StatementStep
<1>5. CASE Begin(t)
  <2> DEFINE x == Began(c)
  <2>1. /\ pc[t] = "ready" /\ op[t].kind = "transaction" /\ tx[c].mode = "none"
        /\ tx' = [tx EXCEPT ![conn[t]] = x] /\ pc' = [pc EXCEPT ![t] = "body"]
        /\ UNCHANGED <<pool, committed, op, conn, fate, history, calls, faults, shutdown>>
    BY <1>5 DEF Begin, At
  <2>2. x \in Transactions /\ x.pending = {}
    BY <2>1 DEF Began, Clean, Transactions
  <2> HIDE DEF x
  <2> QED
    BY <2>1, <2>2, StatementStep
<1>6. CASE BodyFetches(t)
  <2> DEFINE x == AfterSelect(c)
  <2>1. /\ pc[t] = "body" /\ tx[c].mode = "open" /\ tx' = [tx EXCEPT ![conn[t]] = x]
        /\ pc' = [pc EXCEPT ![t] = "body"] /\ op[t].kind = "transaction"
        /\ UNCHANGED <<pool, committed, op, conn, fate, history, calls, faults, shutdown>>
    BY <1>1, <1>6 DEF BodyFetches, tasks, IInv, RowsInv, KindsFit
  <2>2. x \in Transactions /\ x.pending = {}
    BY <1>1, <2>1 DEF AfterSelect, Fixed, Clean, Transactions
  <2> HIDE DEF x
  <2> QED
    BY <2>1, <2>2, StatementStep
<1>7. CASE BodyWrites(t)
  <2>1. PICK r \in Unwritten(t) : tx' = [tx EXCEPT ![conn[t]] = Locking(c, {r})]
    BY <1>7 DEF BodyWrites
  <2> DEFINE x == Locking(c, {r})
  <2>2. /\ pc[t] = "body" /\ op[t].kind = "transaction" /\ pc' = [pc EXCEPT ![t] = "body"]
        /\ UNCHANGED <<pool, committed, op, conn, fate, history, calls, faults, shutdown>>
    BY <1>1, <1>7 DEF BodyWrites, tasks, IInv, RowsInv, KindsFit
  <2>3. r \in op[t].rows /\ r \in Rows
    BY <1>1 DEF Unwritten
  <2>4. x \in Transactions /\ x.mode = "write" /\ x.pending = tx[c].pending \cup {r}
    BY <1>1, <1>3, <2>3 DEF Locking, Transactions
  <2>5. tx' = [tx EXCEPT ![conn[t]] = x]
    BY <2>1
  <2> HIDE DEF x
  <2> QED
    BY <2>2, <2>3, <2>4, <2>5, StatementStep
<1> QED
  BY <1>4, <1>5, <1>6, <1>7

(* The end of a call: `rows` of it get the fate `result`, `kept` is        *)
(* committed, `left` stays pending of a failed execute_many, and its       *)
(* connection, if it has one, goes back.                                   *)
Ended(t, result, rows, kept, left) ==
    /\ pc[t] # "idle" /\ free' = Returned(t) /\ Leave(t)
    /\ rows = op[t].rows \/ (rows = {} /\ pc[t] = "ready")
    /\ fate' = [r \in Rows |-> IF r \in rows THEN result ELSE fate[r]]
    /\ result = "done" => rows \subseteq committed'
    /\ result = "failed" => Disturbed'
    /\ result = "cancelled" => cancels' > 0
    /\ rejected' \in rejected..MaxRejected /\ cancels' \in cancels..MaxCancels
    /\ committed' = committed \cup kept
    /\ \/ kept = {}
       \/ pc[t] \in {"ran", "body"} /\ kept = tx[conn[t]].pending /\ result # "failed"
    /\ left \subseteq rows
    /\ result = "failed" => pc[t] # "idle" /\ rows = op[t].rows /\ (rows = {} \/ left # rows)
    /\ left # {} => pc[t] = "ready" /\ result = "failed" /\ op[t].kind = "execute_many"
    /\ tx' \in [Conns -> Transactions]
    /\ \A c \in Conns : c # conn[t] => tx'[c] = tx[c]
    /\ conn[t] # NoConn =>
         /\ tx'[conn[t]].pending \subseteq tx[conn[t]].pending \cup left
         /\ tx'[conn[t]].pending # {} => tx'[conn[t]].mode = "write"
         /\ pc[t] = "ready" \/ result = "cancelled" \/ tx'[conn[t]].pending = {}
         /\ ~Disturbed' => tx'[conn[t]].mode = "none"

LEMMA EndStep ==
    ASSUME IInv, NEW t \in Tasks, NEW result \in {"done", "failed", "cancelled"}, NEW rows, NEW kept,
           NEW left, Ended(t, result, rows, kept, left)
    PROVE  IInv'
<1> USE DEF Ended
<1>1. /\ conn' = [conn EXCEPT ![t] = NoConn] /\ pc' = [pc EXCEPT ![t] = "idle"]
      /\ op' = [op EXCEPT ![t] = NoOp]
      /\ UNCHANGED <<closed, batches, many, calls, closing, closes>>
  BY DEF Leave, history, shutdown
<1>2. /\ committed \in SUBSET Rows /\ op \in [Tasks -> [kind : Kinds \cup {"none"}, rows : SUBSET Rows]]
      /\ tx \in [Conns -> Transactions] /\ conn \in [Tasks -> Conns \cup {NoConn}]
      /\ pc \in [Tasks -> {"idle", "waiting", "ready", "ran", "body"}]
      /\ fate \in [Rows -> Fates] /\ rejected \in 0..MaxRejected /\ cancels \in 0..MaxCancels
      /\ batches \subseteq SUBSET Rows /\ many \subseteq SUBSET Rows
      /\ \A c \in Conns : tx[c].pending # {} => tx[c].mode = "write"
  BY DEF IInv, TypeOK, Transactions, Fates
<1>3. /\ conn'[t] = NoConn /\ pc'[t] = "idle" /\ op'[t].rows = {} /\ op'[t].kind = "none"
      /\ \A u \in Tasks : u # t => conn'[u] = conn[u] /\ pc'[u] = pc[u] /\ op'[u] = op[u]
      /\ op' \in [Tasks -> [kind : Kinds \cup {"none"}, rows : SUBSET Rows]]
      /\ pc' \in [Tasks -> {"idle", "waiting", "ready", "ran", "body"}]
  BY <1>1, <1>2 DEF NoOp
<1>4. op[t].rows \in SUBSET Rows /\ rows \in SUBSET Rows /\ rows \subseteq op[t].rows
  BY <1>2
<1>5. kept \in SUBSET Rows
  BY <1>2, OwnConnection DEF Transactions
<1>6. /\ rejected' \in 0..MaxRejected /\ cancels' \in 0..MaxCancels
      /\ rejected' >= rejected /\ cancels' >= cancels
      /\ Disturbed => Disturbed'
  BY <1>1, <1>2, BoundAssumption DEF Disturbed
<1>7. PoolInv'
  BY <1>1, PoolRelease DEF IInv
<1>8. conn[t] \in Conns \cup {NoConn}
  BY <1>2
<1>9. TypeOK'
  <2>1. \A c \in Conns : tx'[c].pending # {} => tx'[c].mode = "write"
    BY <1>2, <1>8, NoConnAssumption
  <2>2. fate' \in [Rows -> Fates]
    BY <1>2 DEF Fates
  <2>3. free' \in Seq(Conns) /\ closed' \subseteq Conns /\ conn' \in [Tasks -> Conns \cup {NoConn}]
    BY <1>7 DEF PoolInv, PoolTyped
  <2>4. committed' \subseteq Rows
    BY <1>2, <1>5
  <2>5. calls' \in 0..MaxCalls /\ closing' \in BOOLEAN /\ closes' \in 0..MaxCloses /\ batches' \subseteq SUBSET Rows
        /\ many' \subseteq SUBSET Rows
    BY <1>1, <1>2 DEF IInv, TypeOK
  <2> QED
    BY <1>3, <1>6, <2>1, <2>2, <2>3, <2>4, <2>5 DEF TypeOK, Transactions, Fates
<1>10. ConnFits'
  BY <1>3 DEF IInv, ConnFits
<1>11. \A r \in Rows : IF r \in rows THEN fate'[r] = result /\ fate[r] = "asked" ELSE fate'[r] = fate[r]
  BY <1>4 DEF IInv, RowsInv, RowsAsked
<1>12. RowsAsked'
  <2>1. \A u \in Tasks : u # t => op[u].rows \cap rows = {} /\ op[u].rows \in SUBSET Rows
    BY <1>2, <1>4 DEF IInv, RowsInv, RowsAsked
  <2>2. \A u \in Tasks : \A r \in op'[u].rows : fate'[r] = "asked"
    BY <1>3, <1>11, <2>1 DEF IInv, RowsInv, RowsAsked
  <2>3. \A u, v \in Tasks : op'[u].rows \cap op'[v].rows # {} => u = v
    BY <1>3 DEF IInv, RowsInv, RowsAsked
  <2> QED
    BY <2>2, <2>3 DEF RowsAsked
<1>13. KindsFit'
  BY <1>1, <1>3 DEF IInv, RowsInv, KindsFit
<1>14. RanRows'
  <2> SUFFICES ASSUME NEW u \in Tasks, pc'[u] = "ran"
               PROVE  op'[u].rows \subseteq tx'[conn'[u]].pending
    BY DEF RanRows
  <2>1. u # t /\ pc[u] = "ran" /\ conn'[u] = conn[u] /\ op'[u] = op[u]
    BY <1>3
  <2>2. conn[u] \in Conns /\ conn[u] # conn[t]
    BY <2>1, OwnConnection
  <2>3. tx'[conn[u]] = tx[conn[u]]
    BY <2>2
  <2> QED
    BY <2>1, <2>3 DEF IInv, RowsInv, RanRows
<1>21. \A r \in Rows : Remains(r) => Remains(r)'
  BY <1>1, <1>11 DEF Remains
<1>15. PendingExplained'
  <2> SUFFICES ASSUME NEW c \in Conns, NEW r \in tx'[c].pending
               PROVE  \/ Remains(r)'
                      \/ \E u \in Tasks : conn'[u] = c /\ pc'[u] \in {"ran", "body"} /\ r \in op'[u].rows
    BY DEF PendingExplained
  <2>1. r \in tx[c].pending \/ r \in left
    BY <1>8, NoConnAssumption
  <2>2. r \in Rows
    BY <1>2, <1>4, <2>1 DEF Transactions
  <2>3. CASE r \in left
    <3>1. result = "failed" /\ op[t].kind = "execute_many" /\ r \in rows /\ rows = op[t].rows
      BY <2>3
    <3>2. fate'[r] = "failed"
      BY <1>11, <2>2, <3>1
    <3>3. op[t].rows \in many
      BY <3>1 DEF IInv, RowsInv, KindsFit
    <3> QED
      BY <1>1, <3>1, <3>2, <3>3 DEF Remains
  <2>4. CASE Remains(r)
    BY <1>21, <2>2, <2>4
  <2>5. CASE \E u \in Tasks : conn[u] = c /\ pc[u] \in {"ran", "body"} /\ r \in op[u].rows
    <3>1. PICK u \in Tasks : conn[u] = c /\ pc[u] \in {"ran", "body"} /\ r \in op[u].rows
      BY <2>5
    <3>2. CASE u # t
      BY <1>3, <3>1, <3>2
    <3>3. CASE u = t
      <4>1. result = "cancelled"
        BY <3>1, <3>3, NoConnAssumption
      <4>2. rows = op[t].rows
        BY <3>1, <3>3
      <4> QED
        BY <1>11, <2>2, <3>1, <3>3, <4>1, <4>2 DEF Remains
    <3> QED
      BY <3>2, <3>3
  <2> QED
    BY <2>1, <2>3, <2>4, <2>5 DEF IInv, RowsInv, PendingExplained
<1>16. CommittedExplained'
  <2> SUFFICES ASSUME NEW r \in committed' PROVE fate'[r] = "done" \/ Remains(r)'
    BY DEF CommittedExplained
  <2>1. r \in Rows
    BY <1>2, <1>5
  <2>2. CASE r \in committed
    BY <1>11, <1>21, <2>1, <2>2 DEF IInv, RowsInv, CommittedExplained
  <2>3. CASE r \notin committed
    <3>1. pc[t] \in {"ran", "body"} /\ r \in tx[conn[t]].pending /\ result # "failed"
      BY <2>3
    <3>2. conn[t] \in Conns /\ \A u \in Tasks : conn[u] = conn[t] => u = t
      BY <3>1, OwnConnection
    <3>3. Remains(r) \/ r \in op[t].rows
      BY <3>1, <3>2 DEF IInv, RowsInv, PendingExplained
    <3>4. rows = op[t].rows
      BY <3>1
    <3> QED
      BY <1>11, <1>21, <2>1, <3>1, <3>3, <3>4 DEF Remains
  <2> QED
    BY <2>2, <2>3
<1>22. ManyWhole'
  <2> SUFFICES ASSUME NEW m \in many
               PROVE  /\ \A u \in Tasks : op'[u].rows \cap m = {} \/ op'[u].rows = m
                      /\ \A r \in m : fate'[r] # "new"
                      /\ \A r, q \in m : fate'[r] = fate'[q]
                      /\ \A b \in batches : b \cap m = {}
    BY <1>1 DEF ManyWhole
  <2>1. /\ \A u \in Tasks : op[u].rows \cap m = {} \/ op[u].rows = m
        /\ \A r \in m : fate[r] # "new" /\ r \in Rows
        /\ \A r, q \in m : fate[r] = fate[q]
        /\ \A b \in batches : b \cap m = {}
    BY <1>2 DEF IInv, RowsInv, ManyWhole
  <2>2. rows \cap m = {} \/ rows = m
    BY <2>1
  <2> QED
    BY <1>3, <1>11, <2>1, <2>2
<1>23. ManyPartial'
  <2>1. \A c \in Conns : tx'[c].pending \subseteq tx[c].pending \cup op[t].rows
    BY <1>4, <1>8, NoConnAssumption
  <2>2. \A r \in committed' : r \in committed \/ \E c \in Conns : r \in tx[c].pending
    BY OwnConnection
  <2>3. CASE result # "failed"
    <3>1. \A r \in Rows : fate'[r] = "failed" => fate[r] = "failed"
      BY <1>11, <2>3
    <3> QED
      BY <1>1, <2>1, <2>2, <3>1, ManyPartialKept
  <2>4. CASE result = "failed"
    <3> SUFFICES ASSUME NEW m \in many, NEW r \in m, fate'[r] = "failed"
                 PROVE  \E q \in m : Undone(q)'
      BY <1>1 DEF ManyPartial
    <3>1. m \subseteq Rows
      BY <1>2
    <3>2. CASE fate[r] = "failed"
      <4>1. PICK q \in m : Undone(q)
        BY <3>2 DEF IInv, RowsInv, ManyPartial
      <4>2. fate[q] = "failed"
        BY <3>2 DEF IInv, RowsInv, ManyWhole
      <4>3. q \notin op[t].rows
        BY <4>2 DEF IInv, RowsInv, RowsAsked
      <4> QED
        BY <2>1, <2>2, <4>1, <4>3 DEF Undone
    <3>3. CASE fate[r] # "failed"
      <4>1. r \in rows /\ rows = op[t].rows /\ left # rows
        BY <1>11, <2>4, <3>1, <3>3
      <4>2. m = op[t].rows
        BY <4>1 DEF IInv, RowsInv, ManyWhole
      <4>3. PICK q \in m : q \notin left
        BY <4>1, <4>2
      <4>4. fate[q] = "asked" /\ q \in Rows
        BY <3>1, <4>2, <4>3 DEF IInv, RowsInv, RowsAsked
      <4>5. q \notin committed /\ kept = {}
        BY <2>4, <4>4 DEF IInv, RowsInv, CommittedExplained, Remains
      <4>6. ASSUME NEW c \in Conns, q \in tx'[c].pending PROVE FALSE
        <5>1. q \in tx[c].pending
          BY <1>8, <4>3, <4>6, NoConnAssumption
        <5>2. PICK u \in Tasks : conn[u] = c /\ pc[u] \in {"ran", "body"} /\ q \in op[u].rows
          BY <4>4, <5>1 DEF IInv, RowsInv, PendingExplained, Remains
        <5>3. u = t
          BY <4>2, <5>2 DEF IInv, RowsInv, RowsAsked
        <5> QED
          BY <2>4, <4>6, <5>2, <5>3, NoConnAssumption
      <4> QED
        BY <4>5, <4>6 DEF Undone
    <3> QED
      BY <3>2, <3>3
  <2> QED
    BY <2>3, <2>4
<1>17. DoneIsCommitted'
  BY <1>11 DEF IInv, RowsInv, DoneIsCommitted
<1>18. FaultsCounted'
  <2>1. cancels > 0 => cancels' > 0
    BY <1>2, <1>6, BoundAssumption
  <2> QED
    BY <1>6, <1>11, <2>1 DEF IInv, RowsInv, FaultsCounted
<1>19. BatchesWhole'
  <2> SUFFICES ASSUME NEW b \in batches
               PROVE  /\ \A u \in Tasks : op'[u].rows \cap b = {} \/ op'[u].rows = b
                      /\ \A r \in b : fate'[r] # "new"
                      /\ \A r, q \in b : fate'[r] = fate'[q]
    BY <1>1 DEF BatchesWhole
  <2>1. /\ \A u \in Tasks : op[u].rows \cap b = {} \/ op[u].rows = b
        /\ \A r \in b : fate[r] # "new" /\ r \in Rows
        /\ \A r, q \in b : fate[r] = fate[q]
    BY <1>2 DEF IInv, RowsInv, BatchesWhole
  <2>2. rows \cap b = {} \/ rows = b
    BY <2>1
  <2> QED
    BY <1>3, <1>11, <2>1, <2>2
<1>20. Orderly'
  <2> SUFFICES ASSUME ~Disturbed', NEW c \in Conns
               PROVE  tx'[c].mode = "none" \/ (tx'[c].mode = "write" /\ Committing(c)')
    BY DEF Orderly
  <2>1. CASE c = conn[t]
    BY <2>1, NoConnAssumption
  <2>2. CASE c # conn[t]
    <3>1. tx'[c] = tx[c]
      BY <2>2
    <3>2. ASSUME Committing(c) PROVE Committing(c)'
      BY <1>3, <2>2, <3>2 DEF Committing
    <3> QED
      BY <1>6, <3>1, <3>2 DEF IInv, RowsInv, Orderly
  <2> QED
    BY <2>1, <2>2
<1> QED
  BY <1>7, <1>9, <1>10, <1>12, <1>13, <1>14, <1>15, <1>16, <1>17, <1>18, <1>19, <1>20,
     <1>22, <1>23 DEF IInv, RowsInv

LEMMA CallEndsKeepIInv ==
    ASSUME IInv, NEW t \in Tasks,
           \/ Fetch(t) \/ ExecuteRejected(t) \/ ExecuteLocked(t) \/ BeginFails(t)
           \/ BodyFails(t) \/ Commit(t) \/ Cancel(t)
    PROVE  IInv'
<1> DEFINE c == conn[t]
<1>1. /\ tx \in [Conns -> Transactions] /\ op[t].rows \in SUBSET Rows /\ committed \in SUBSET Rows
      /\ rejected \in 0..MaxRejected /\ cancels \in 0..MaxCancels /\ fate \in [Rows -> Fates]
      /\ \A d \in Conns : tx[d].pending # {} => tx[d].mode = "write"
  BY DEF IInv, TypeOK, Transactions, Fates
<1>2. pc[t] \in {"ready", "ran", "body"} => c \in Conns /\ tx[c] \in Transactions
  BY <1>1, OwnConnection
<1>3. pc[t] \in {"idle", "waiting"} => c = NoConn
  BY DEF IInv, ConnFits
<1>4. Clean \in Transactions /\ Clean.pending = {} /\ Clean.mode = "none"
  BY DEF Clean, Transactions
<1>5. /\ UNCHANGED rejected => rejected' \in rejected..MaxRejected
      /\ UNCHANGED cancels => cancels' \in cancels..MaxCancels
      /\ rejected < MaxRejected /\ rejected' = rejected + 1 =>
           rejected' \in rejected..MaxRejected /\ rejected' > 0
      /\ cancels < MaxCancels /\ cancels' = cancels + 1 =>
           cancels' \in cancels..MaxCancels /\ cancels' > 0
  BY <1>1, BoundAssumption
<1>6. ASSUME NEW x \in Transactions, c \in Conns, tx' = [tx EXCEPT ![conn[t]] = x]
      PROVE  tx' \in [Conns -> Transactions] /\ tx'[c] = x /\ \A d \in Conns : d # c => tx'[d] = tx[d]
  BY <1>1, <1>6
<1>7. CASE Fetch(t)
  <2> DEFINE x == AfterSelect(c)
  <2>1. /\ pc[t] = "ready" /\ tx' = [tx EXCEPT ![conn[t]] = x] /\ free' = Returned(t) /\ Leave(t)
        /\ UNCHANGED <<committed, fate, rejected, cancels>>
    BY <1>7 DEF Fetch, At, faults
  <2>2. x \in Transactions /\ x.pending \subseteq tx[c].pending /\ (x.pending # {} => x.mode = "write")
    BY <1>1, <1>2, <2>1 DEF AfterSelect, Fixed, Clean, Transactions
  <2>3. ~Disturbed' => x.mode = "none"
    <3>1. SUFFICES ASSUME ~Disturbed PROVE x.mode = "none"
      BY <2>1 DEF Disturbed, Leave, history
    <3>2. ~Committing(c)
      BY <1>2, <2>1, OwnConnection DEF Committing
    <3>3. tx[c].mode = "none"
      BY <1>2, <2>1, <3>1, <3>2 DEF IInv, RowsInv, Orderly
    <3> QED
      BY <3>3 DEF AfterSelect
  <2>4. fate' = [r \in Rows |-> IF r \in {} THEN "done" ELSE fate[r]]
    BY <1>1, <2>1
  <2>5. committed' = committed \cup {} /\ tx' \in [Conns -> Transactions] /\ tx'[c] = x
        /\ \A d \in Conns : d # c => tx'[d] = tx[d]
    BY <1>2, <1>6, <2>1, <2>2
  <2> HIDE DEF x
  <2>6. Ended(t, "done", {}, {}, {})
    BY <1>5, <2>1, <2>2, <2>3, <2>4, <2>5 DEF Ended
  <2> QED
    BY <2>6, EndStep
<1>8. CASE ExecuteRejected(t)
  <2>1. PICK done \in SomeDone(t) : tx' = [tx EXCEPT ![conn[t]] = Locking(c, done)]
    BY <1>8 DEF ExecuteRejected
  <2> DEFINE x == Locking(c, done)
  <2>2. /\ pc[t] = "ready" /\ tx' = [tx EXCEPT ![conn[t]] = x] /\ free' = Returned(t) /\ Leave(t)
        /\ Ends(t, "failed") /\ rejected < MaxRejected /\ rejected' = rejected + 1
        /\ UNCHANGED <<committed, cancels>> /\ op[t].kind \in {"execute", "execute_many"}
    <3>1. AtWrite(t) /\ Raises(t) /\ rejected < MaxRejected /\ rejected' = rejected + 1
      BY <1>8 DEF ExecuteRejected
    <3> QED
      BY <2>1, <3>1 DEF AtWrite, At, Raises
  <2>3. done \subseteq op[t].rows /\ done # op[t].rows /\ done \in SUBSET Rows
    BY <1>1, <2>1 DEF SomeDone
  <2>4. op[t].kind = "execute" => done = {}
    BY <2>3 DEF IInv, RowsInv, KindsFit, Single
  <2>5. x \in Transactions /\ x.pending = tx[c].pending \cup done /\ x.mode = "write"
    BY <1>2, <2>2, <2>3 DEF Locking, Transactions
  <2>6. Disturbed'
    BY <1>5, <2>2 DEF Disturbed
  <2>7. committed' = committed \cup {} /\ tx' \in [Conns -> Transactions] /\ tx'[c] = x
        /\ \A d \in Conns : d # c => tx'[d] = tx[d]
    BY <1>2, <1>6, <2>2, <2>5
  <2> HIDE DEF x
  <2>8. Ended(t, "failed", op[t].rows, {}, done)
    BY <1>5, <2>2, <2>3, <2>4, <2>5, <2>6, <2>7 DEF Ended, Ends
  <2> QED
    BY <2>8, EndStep
<1>9. CASE ExecuteLocked(t)
  <2> DEFINE x == Began(c)
  <2>1. /\ pc[t] = "ready" /\ tx' = [tx EXCEPT ![conn[t]] = x] /\ free' = Returned(t) /\ Leave(t)
        /\ Ends(t, "failed") /\ UNCHANGED <<rejected, committed, cancels>> /\ LockedOut(c)
    BY <1>9 DEF ExecuteLocked, AtWrite, At, Raises
  <2>2. x \in Transactions /\ x.pending \subseteq tx[c].pending /\ (x.pending # {} => x.mode = "write")
    BY <1>1, <1>2, <2>1 DEF Began, Clean, Transactions
  <2>3. Disturbed
    <3>1. SUFFICES ASSUME ~Disturbed PROVE FALSE
      OBVIOUS
    <3>2. \A d \in Conns : tx[d].mode = "none" \/ (tx[d].mode = "write" /\ Committing(d))
      BY <3>1 DEF IInv, RowsInv, Orderly
    <3> QED
      BY <1>2, <2>1, <3>2 DEF LockedOut, Stale, Holders
  <2>4. Disturbed'
    BY <2>1, <2>3 DEF Disturbed, Leave, history
  <2>5. committed' = committed \cup {} /\ tx' \in [Conns -> Transactions] /\ tx'[c] = x
        /\ \A d \in Conns : d # c => tx'[d] = tx[d]
    BY <1>2, <1>6, <2>1, <2>2
  <2> HIDE DEF x
  <2>6. Ended(t, "failed", op[t].rows, {}, {})
    BY <1>5, <2>1, <2>2, <2>4, <2>5 DEF Ended, Ends
  <2> QED
    BY <2>6, EndStep
<1>10. CASE BeginFails(t)
  <2>1. /\ pc[t] = "ready" /\ tx' = [tx EXCEPT ![conn[t]] = Clean] /\ free' = Returned(t) /\ Leave(t)
        /\ Ends(t, "failed") /\ UNCHANGED <<rejected, committed, cancels>>
        /\ op[t].kind = "transaction"
    BY <1>10 DEF BeginFails, At, Raises, RolledBack
  <2>2. Disturbed'
    BY <2>1 DEF IInv, RowsInv, KindsFit, Disturbed, Leave, history
  <2>3. committed' = committed \cup {} /\ tx' \in [Conns -> Transactions] /\ tx'[c] = Clean
        /\ \A d \in Conns : d # c => tx'[d] = tx[d]
    BY <1>2, <1>4, <1>6, <2>1
  <2>4. Ended(t, "failed", op[t].rows, {}, {})
    BY <1>4, <1>5, <2>1, <2>2, <2>3 DEF Ended, Ends
  <2> QED
    BY <2>4, EndStep
<1>11. CASE BodyFails(t)
  <2>1. /\ pc[t] = "body" /\ tx' = [tx EXCEPT ![conn[t]] = Clean] /\ free' = Returned(t) /\ Leave(t)
        /\ Ends(t, "failed") /\ UNCHANGED <<committed, cancels>>
        /\ \/ rejected < MaxRejected /\ rejected' = rejected + 1
           \/ UNCHANGED rejected
    BY <1>11 DEF BodyFails, Raises, RolledBack
  <2>2. Disturbed'
    BY <2>1 DEF IInv, RowsInv, KindsFit, Disturbed, Leave, history
  <2>3. committed' = committed \cup {} /\ tx' \in [Conns -> Transactions] /\ tx'[c] = Clean
        /\ \A d \in Conns : d # c => tx'[d] = tx[d]
    BY <1>2, <1>4, <1>6, <2>1
  <2>4. Ended(t, "failed", op[t].rows, {}, {})
    BY <1>4, <1>5, <2>1, <2>2, <2>3 DEF Ended, Ends
  <2> QED
    BY <2>4, EndStep
<1>12. ASSUME Committable(t)
       PROVE  pc[t] \in {"ran", "body"} /\ op[t].rows \subseteq tx[c].pending
  BY <1>12 DEF Committable, Unwritten, IInv, RowsInv, RanRows
<1>13. CASE Commit(t)
  <2>1. /\ committed' = committed \cup tx[c].pending /\ tx' = [tx EXCEPT ![conn[t]] = Clean]
        /\ free' = Append(free, conn[t]) /\ Leave(t) /\ Ends(t, "done")
        /\ UNCHANGED <<rejected, cancels>>
    BY <1>13 DEF Commit, CommitsAll, Kept, faults
  <2>2. pc[t] \in {"ran", "body"} /\ op[t].rows \subseteq committed'
    BY <1>12, <1>13, <2>1 DEF Commit
  <2>3. tx' \in [Conns -> Transactions] /\ tx'[c] = Clean
        /\ \A d \in Conns : d # c => tx'[d] = tx[d]
    BY <1>2, <1>4, <1>6, <2>1, <2>2
  <2>4. free' = Returned(t)
    BY <1>2, <2>1, <2>2, NoConnAssumption DEF Returned
  <2>5. Ended(t, "done", op[t].rows, tx[c].pending, {})
    BY <1>4, <1>5, <2>1, <2>2, <2>3, <2>4 DEF Ended, Ends
  <2> QED
    BY <2>5, EndStep
<1>14. CASE Cancel(t)
  <2>1. /\ pc[t] \in {"waiting", "ran", "body"} /\ cancels < MaxCancels /\ cancels' = cancels + 1
        /\ Ends(t, "cancelled") /\ free' = Returned(t) /\ Leave(t) /\ UNCHANGED rejected
        /\ UNCHANGED <<tx, committed>> \/ (Committable(t) /\ CommitsAll(t))
    BY <1>14 DEF Cancel
  <2>2. Disturbed' /\ cancels' > 0 /\ cancels' \in cancels..MaxCancels /\ rejected' \in rejected..MaxRejected
    BY <1>5, <2>1 DEF Disturbed
  <2>3. CASE UNCHANGED <<tx, committed>>
    <3>1. committed' = committed \cup {} /\ tx' \in [Conns -> Transactions]
          /\ \A d \in Conns : tx'[d] = tx[d]
      BY <1>1, <2>3
    <3>2. c # NoConn => /\ tx'[conn[t]].pending \subseteq tx[conn[t]].pending
                        /\ tx'[conn[t]].pending # {} => tx'[conn[t]].mode = "write"
      BY <1>1, <1>2, <1>3, <2>1, <2>3
    <3>3. Ended(t, "cancelled", op[t].rows, {}, {})
      BY <2>1, <2>2, <3>1, <3>2 DEF Ended, Ends
    <3> QED
      BY <3>3, EndStep
  <2>4. CASE Committable(t) /\ CommitsAll(t)
    <3>1. committed' = committed \cup tx[c].pending /\ tx' = [tx EXCEPT ![conn[t]] = Clean]
          /\ pc[t] \in {"ran", "body"}
      BY <1>12, <2>4 DEF CommitsAll, Kept
    <3>2. tx' \in [Conns -> Transactions] /\ tx'[c] = Clean
          /\ \A d \in Conns : d # c => tx'[d] = tx[d]
      BY <1>2, <1>4, <1>6, <3>1
    <3>3. Ended(t, "cancelled", op[t].rows, tx[c].pending, {})
      BY <1>4, <2>1, <2>2, <3>1, <3>2 DEF Ended, Ends
    <3> QED
      BY <3>3, EndStep
  <2> QED
    BY <2>1, <2>3, <2>4
<1> QED
  BY <1>7, <1>8, <1>9, <1>10, <1>11, <1>13, <1>14

LEMMA CallKeepsIInv ==
    ASSUME IInv, NEW t \in Tasks, Call(t)
    PROVE  IInv'
<1>1. PICK kind \in Kinds, rows \in SUBSET {r \in Rows : fate[r] = "new"} :
        /\ op' = [op EXCEPT ![t] = [kind |-> kind, rows |-> rows]]
        /\ fate' = [r \in Rows |-> IF r \in rows THEN "asked" ELSE fate[r]]
        /\ batches' = IF kind = "transaction" THEN batches \cup {rows} ELSE batches
        /\ many' = IF kind = "execute_many" THEN many \cup {rows} ELSE many
        /\ IsFiniteSet(rows) /\ Cardinality(rows) = Size[kind]
  BY DEF Call
<1>2. /\ pc[t] = "idle" /\ calls < MaxCalls /\ calls' = calls + 1
      /\ pc' = [pc EXCEPT ![t] = "waiting"]
      /\ UNCHANGED <<free, closed, tx, committed, conn, rejected, cancels, closing, closes>>
  BY DEF Call, pool, faults, shutdown
<1>3. /\ committed \in SUBSET Rows /\ op \in [Tasks -> [kind : Kinds \cup {"none"}, rows : SUBSET Rows]]
      /\ tx \in [Conns -> Transactions] /\ pc \in [Tasks -> {"idle", "waiting", "ready", "ran", "body"}]
      /\ fate \in [Rows -> Fates] /\ calls \in 0..MaxCalls
      /\ batches \subseteq SUBSET Rows /\ many \subseteq SUBSET Rows
  BY DEF IInv, TypeOK, Transactions, Fates
<1>4. /\ op'[t].kind = kind /\ op'[t].rows = rows /\ pc'[t] = "waiting"
      /\ \A u \in Tasks : u # t => op'[u] = op[u] /\ pc'[u] = pc[u]
      /\ op' \in [Tasks -> [kind : Kinds \cup {"none"}, rows : SUBSET Rows]]
      /\ pc' \in [Tasks -> {"idle", "waiting", "ready", "ran", "body"}]
  BY <1>1, <1>2, <1>3
<1>5. \A r \in Rows : IF r \in rows THEN fate'[r] = "asked" /\ fate[r] = "new" ELSE fate'[r] = fate[r]
  BY <1>1
<1>6. TypeOK'
  <2>1. calls' \in 0..MaxCalls
    BY <1>2, <1>3, BoundAssumption
  <2>2. fate' \in [Rows -> Fates] /\ batches' \subseteq SUBSET Rows /\ many' \subseteq SUBSET Rows
    BY <1>1, <1>3 DEF Fates
  <2> QED
    BY <1>2, <1>4, <2>1, <2>2 DEF IInv, TypeOK, Fates
<1>7. PoolInv'
  BY <1>2, PoolKept DEF IInv
<1>8. ConnFits'
  BY <1>2, <1>4 DEF IInv, ConnFits
<1>9. \A u \in Tasks : u # t => op[u].rows \cap rows = {} /\ op[u].rows \in SUBSET Rows
  BY <1>3 DEF IInv, RowsInv, RowsAsked
<1>10. RowsAsked'
  BY <1>4, <1>5, <1>9 DEF IInv, RowsInv, RowsAsked
<1>11. KindsFit'
  <2>1. ASSUME kind = "execute" PROVE Single(rows)
    <3>1. IsFiniteSet(rows) /\ Cardinality(rows) = 1
      BY <1>1, <2>1 DEF Size
    <3>2. \E r : rows = {r}
      BY <3>1, FS_Singleton
    <3> QED
      BY <3>2 DEF Single
  <2>2. batches \subseteq batches' /\ many \subseteq many'
    BY <1>1
  <2>3. /\ kind = "transaction" => rows \in batches'
        /\ kind = "execute_many" => rows \in many'
    BY <1>1
  <2> QED
    BY <1>4, <2>1, <2>2, <2>3 DEF IInv, RowsInv, KindsFit
<1>19. \A r \in Rows : Remains(r) => Remains(r)'
  BY <1>1, <1>5 DEF Remains
<1>12. RanRows'
  BY <1>2, <1>4 DEF IInv, RowsInv, RanRows
<1>13. PendingExplained'
  <2> SUFFICES ASSUME NEW c \in Conns, NEW r \in tx[c].pending
               PROVE  \/ Remains(r)'
                      \/ \E u \in Tasks : conn[u] = c /\ pc'[u] \in {"ran", "body"} /\ r \in op'[u].rows
    BY <1>2 DEF PendingExplained
  <2>1. r \in Rows
    BY <1>3 DEF Transactions
  <2>2. CASE Remains(r)
    BY <1>19, <2>1, <2>2
  <2>3. CASE \E u \in Tasks : conn[u] = c /\ pc[u] \in {"ran", "body"} /\ r \in op[u].rows
    BY <1>2, <1>4, <2>3
  <2> QED
    BY <2>2, <2>3 DEF IInv, RowsInv, PendingExplained
<1>14. CommittedExplained' /\ DoneIsCommitted'
  BY <1>2, <1>3, <1>5, <1>19 DEF IInv, RowsInv, CommittedExplained, DoneIsCommitted
<1>20. ManyWhole'
  <2> SUFFICES ASSUME NEW m \in many'
               PROVE  /\ \A u \in Tasks : op'[u].rows \cap m = {} \/ op'[u].rows = m
                      /\ \A r \in m : fate'[r] # "new"
                      /\ \A r, q \in m : fate'[r] = fate'[q]
                      /\ \A b \in batches' : b \cap m = {}
    BY DEF ManyWhole
  <2>1. \A b \in batches \cup many : b \cap rows = {}
    BY DEF IInv, RowsInv, BatchesWhole, ManyWhole
  <2>2. CASE m = rows /\ kind = "execute_many"
    BY <1>1, <1>4, <1>5, <1>9, <2>1, <2>2
  <2>3. CASE m \in many
    <3>1. /\ \A u \in Tasks : op[u].rows \cap m = {} \/ op[u].rows = m
          /\ \A r \in m : fate[r] # "new" /\ r \in Rows
          /\ \A r, q \in m : fate[r] = fate[q]
          /\ \A b \in batches : b \cap m = {}
      BY <1>3, <2>3 DEF IInv, RowsInv, ManyWhole
    <3>2. rows \cap m = {} /\ \A b \in batches' : b \cap m = {}
      BY <1>1, <2>1, <2>3, <3>1
    <3> QED
      BY <1>4, <1>5, <3>1, <3>2
  <2> QED
    BY <1>1, <2>2, <2>3
<1>21. ManyPartial'
  <2> SUFFICES ASSUME NEW m \in many', NEW r \in m, fate'[r] = "failed"
               PROVE  \E q \in m : Undone(q)
    BY <1>2 DEF ManyPartial, Undone
  <2>1. m \in many /\ fate[r] = "failed"
    BY <1>1, <1>3, <1>5
  <2> QED
    BY <2>1 DEF IInv, RowsInv, ManyPartial
<1>15. Disturbed => Disturbed'
  BY <1>1, <1>2 DEF Disturbed
<1>16. FaultsCounted'
  BY <1>2, <1>5, <1>15 DEF IInv, RowsInv, FaultsCounted
<1>17. BatchesWhole'
  <2> SUFFICES ASSUME NEW b \in batches'
               PROVE  /\ \A u \in Tasks : op'[u].rows \cap b = {} \/ op'[u].rows = b
                      /\ \A r \in b : fate'[r] # "new"
                      /\ \A r, q \in b : fate'[r] = fate'[q]
    BY DEF BatchesWhole
  <2>1. CASE b = rows
    BY <1>4, <1>5, <1>9, <2>1
  <2>2. CASE b \in batches
    <3>1. /\ \A u \in Tasks : op[u].rows \cap b = {} \/ op[u].rows = b
          /\ \A r \in b : fate[r] # "new" /\ r \in Rows
          /\ \A r, q \in b : fate[r] = fate[q]
      BY <1>3, <2>2 DEF IInv, RowsInv, BatchesWhole
    <3>2. rows \cap b = {}
      BY <3>1
    <3> QED
      BY <1>4, <1>5, <3>1, <3>2
  <2> QED
    BY <1>1, <2>1, <2>2
<1>18. Orderly'
  <2>1. \A c \in Conns : Committing(c) => Committing(c)'
    BY <1>2, <1>4 DEF Committing
  <2> QED
    BY <1>2, <1>15, <2>1 DEF IInv, RowsInv, Orderly
<1> QED
  BY <1>6, <1>7, <1>8, <1>10, <1>11, <1>12, <1>13, <1>14, <1>16, <1>17, <1>18,
     <1>20, <1>21 DEF IInv, RowsInv

LEMMA AcquireKeepsIInv ==
    ASSUME IInv, NEW t \in Tasks, Acquire(t)
    PROVE  IInv'
<1>1. /\ pc[t] = "waiting" /\ free # <<>> /\ conn' = [conn EXCEPT ![t] = Head(free)] /\ free' = Tail(free)
      /\ pc' = [pc EXCEPT ![t] = "ready"]
      /\ UNCHANGED <<closed, tx, committed, op, fate, batches, many, calls, rejected, cancels, closing, closes>>
  BY DEF Acquire, history, faults, shutdown
<1>2. /\ pc \in [Tasks -> {"idle", "waiting", "ready", "ran", "body"}]
      /\ conn \in [Tasks -> Conns \cup {NoConn}] /\ free \in Seq(Conns)
  BY DEF IInv, TypeOK
<1>3. /\ conn'[t] \in Conns /\ pc'[t] = "ready"
      /\ \A u \in Tasks : u # t => conn'[u] = conn[u] /\ pc'[u] = pc[u]
      /\ pc' \in [Tasks -> {"idle", "waiting", "ready", "ran", "body"}]
  BY <1>1, <1>2
<1>4. PoolInv'
  <2>1. conn[t] = NoConn
    BY <1>1 DEF IInv, ConnFits
  <2> QED
    BY <1>1, <2>1, PoolAcquire DEF IInv
<1>5. TypeOK'
  BY <1>1, <1>3, <1>4 DEF IInv, TypeOK, PoolInv, PoolTyped
<1>6. ConnFits'
  BY <1>3, NoConnAssumption DEF IInv, ConnFits
<1>7. /\ RowsAsked' /\ CommittedExplained' /\ DoneIsCommitted' /\ FaultsCounted' /\ BatchesWhole'
      /\ ManyWhole' /\ ManyPartial'
  BY <1>1 DEF IInv, RowsInv, RowsAsked, CommittedExplained, Remains, DoneIsCommitted, FaultsCounted,
      Disturbed, BatchesWhole, ManyWhole, ManyPartial, Undone
<1>8. KindsFit' /\ RanRows'
  BY <1>1, <1>3 DEF IInv, RowsInv, KindsFit, RanRows
<1>9. PendingExplained'
  <2> SUFFICES ASSUME NEW c \in Conns, NEW r \in tx[c].pending
               PROVE  \/ Remains(r)
                      \/ \E u \in Tasks : conn'[u] = c /\ pc'[u] \in {"ran", "body"} /\ r \in op[u].rows
    BY <1>1 DEF PendingExplained, Remains
  <2> QED
    BY <1>1, <1>3 DEF IInv, RowsInv, PendingExplained
<1>10. Orderly'
  <2>1. \A c \in Conns : Committing(c) => Committing(c)'
    BY <1>1, <1>3 DEF Committing
  <2> QED
    BY <1>1, <2>1 DEF IInv, RowsInv, Orderly, Disturbed
<1> QED
  BY <1>4, <1>5, <1>6, <1>7, <1>8, <1>9, <1>10 DEF IInv, RowsInv

(* A connection that close() finds in the pool is no task's. *)
LEMMA CloseOneKeepsIInv == IInv /\ CloseOne => IInv'
<1> SUFFICES ASSUME IInv, CloseOne PROVE IInv'
  OBVIOUS
<1> DEFINE h == Head(free)
<1>1. /\ free # <<>> /\ free' = Tail(free) /\ closed' = closed \cup {h} /\ tx' = [tx EXCEPT ![h] = Clean]
      /\ UNCHANGED <<committed, pc, op, conn, fate, batches, many, calls, rejected, cancels, closing, closes>>
  BY DEF CloseOne, tasks, history, faults, shutdown
<1>2. /\ tx \in [Conns -> Transactions] /\ free \in Seq(Conns)
      /\ \A c \in Conns : tx[c].pending # {} => tx[c].mode = "write"
  BY DEF IInv, TypeOK, Transactions
<1>3. h \in Conns /\ h = free[1] /\ 1 \in DOMAIN free
  BY <1>1, <1>2
<1>4. \A u \in Tasks : conn[u] # h
  BY <1>3 DEF IInv, PoolInv, Distinct
<1>5. Clean \in Transactions /\ Clean.pending = {} /\ Clean.mode = "none"
  BY DEF Clean, Transactions
<1> HIDE DEF h
<1>6. tx' \in [Conns -> Transactions] /\ tx'[h] = Clean /\ \A c \in Conns : c # h => tx'[c] = tx[c]
  BY <1>1, <1>2, <1>3, <1>5
<1>7. PoolInv'
  BY <1>1, PoolCloseOne DEF IInv, h
<1>8. TypeOK'
  <2>1. \A c \in Conns : tx'[c].pending # {} => tx'[c].mode = "write"
    BY <1>2, <1>5, <1>6
  <2> QED
    BY <1>1, <1>6, <1>7, <2>1 DEF IInv, TypeOK, PoolInv, PoolTyped, Transactions
<1>9. /\ ConnFits' /\ RowsAsked' /\ KindsFit' /\ CommittedExplained' /\ DoneIsCommitted' /\ FaultsCounted'
      /\ BatchesWhole' /\ ManyWhole'
  <2>1. ConnFits' /\ RowsAsked' /\ KindsFit'
    BY <1>1 DEF IInv, RowsInv, ConnFits, RowsAsked, KindsFit
  <2>2. CommittedExplained' /\ DoneIsCommitted' /\ FaultsCounted'
    BY <1>1 DEF IInv, RowsInv, CommittedExplained, Remains, DoneIsCommitted, FaultsCounted, Disturbed
  <2>3. BatchesWhole' /\ ManyWhole'
    BY <1>1 DEF IInv, RowsInv, BatchesWhole, ManyWhole
  <2> QED
    BY <2>1, <2>2, <2>3
<1>13. ManyPartial'
  BY <1>1, <1>5, <1>6 DEF IInv, RowsInv, ManyPartial, Undone
<1>10. RanRows'
  <2> SUFFICES ASSUME NEW u \in Tasks, pc[u] = "ran" PROVE op[u].rows \subseteq tx'[conn[u]].pending
    BY <1>1 DEF RanRows
  <2>1. conn[u] \in Conns /\ conn[u] # h
    BY <1>4, OwnConnection
  <2> QED
    BY <1>6, <2>1 DEF IInv, RowsInv, RanRows
<1>11. PendingExplained'
  BY <1>1, <1>5, <1>6 DEF IInv, RowsInv, PendingExplained, Remains
<1>12. Orderly'
  BY <1>1, <1>5, <1>6 DEF IInv, RowsInv, Orderly, Disturbed, Committing
<1> QED
  BY <1>7, <1>8, <1>9, <1>10, <1>11, <1>12, <1>13 DEF IInv, RowsInv

LEMMA NextIInv == IInv /\ [Next]_vars => IInv'
<1> SUFFICES ASSUME IInv, [Next]_vars PROVE IInv'
  OBVIOUS
<1>1. ASSUME UNCHANGED <<pool, tx, committed, tasks, fate, history, calls, faults>>,
             closing' \in BOOLEAN, closes' \in 0..MaxCloses
      PROVE  IInv'
  <2>1. UNCHANGED <<free, closed, tx, committed, pc, op, conn, fate, batches, many, calls, rejected, cancels>>
    BY <1>1 DEF pool, tasks, history, faults
  <2>2. PoolInv'
    BY <2>1, PoolKept DEF IInv
  <2>3. TypeOK' /\ ConnFits'
    BY <1>1, <2>1 DEF IInv, TypeOK, ConnFits
  <2>4. RowsInv'
    <3>1. RowsAsked' /\ KindsFit' /\ RanRows' /\ BatchesWhole' /\ ManyWhole'
      BY <2>1 DEF IInv, RowsInv, RowsAsked, KindsFit, RanRows, BatchesWhole, ManyWhole
    <3>2. PendingExplained' /\ CommittedExplained' /\ DoneIsCommitted'
      BY <2>1 DEF IInv, RowsInv, PendingExplained, CommittedExplained, Remains, DoneIsCommitted
    <3>3. FaultsCounted' /\ Orderly'
      BY <2>1 DEF IInv, RowsInv, FaultsCounted, Disturbed, Orderly, Committing
    <3>4. ManyPartial'
      BY <2>1 DEF IInv, RowsInv, ManyPartial, Undone
    <3> QED
      BY <3>1, <3>2, <3>3, <3>4 DEF RowsInv
  <2> QED
    BY <2>2, <2>3, <2>4 DEF IInv
<1>2. closing \in BOOLEAN /\ closes \in 0..MaxCloses
  BY DEF IInv, TypeOK
<1>3. ASSUME NEW t \in Tasks, Call(t) \/ Step(t) \/ Cancel(t) PROVE IInv'
  <2>1. CASE Call(t)
    BY <2>1, CallKeepsIInv
  <2>2. CASE Acquire(t)
    BY <2>2, AcquireKeepsIInv
  <2>3. CASE Execute(t) \/ Begin(t) \/ BodyFetches(t) \/ BodyWrites(t)
    BY <2>3, StatementKeepsIInv
  <2>4. CASE \/ Fetch(t) \/ ExecuteRejected(t) \/ ExecuteLocked(t) \/ BeginFails(t)
             \/ BodyFails(t) \/ Commit(t) \/ Cancel(t)
    BY <2>4, CallEndsKeepIInv
  <2> QED
    BY <1>3, <2>1, <2>2, <2>3, <2>4 DEF Step
<1>4. CASE Close
  BY <1>1, <1>2, <1>4, BoundAssumption DEF Close
<1>5. CASE CloseOne
  BY <1>5, CloseOneKeepsIInv
<1>6. CASE CloseReturns
  BY <1>1, <1>2, <1>6 DEF CloseReturns
<1>7. CASE UNCHANGED vars
  BY <1>1, <1>2, <1>7 DEF vars, shutdown
<1> QED
  BY <1>3, <1>4, <1>5, <1>6, <1>7 DEF Next

LEMMA AlwaysIInv == Spec => []IInv
BY InitIInv, NextIInv, PTL DEF Spec

-----------------------------------------------------------------------------
(* Every variable of the pool keeps its type. *)
THEOREM PoolTypeCorrect == Spec => []TypeOK
<1>1. IInv => TypeOK
  BY DEF IInv
<1> QED
  BY <1>1, AlwaysIInv, PTL

(* However calls end, and whenever close() runs, each connection is in the *)
(* pool, closed or with one task: _release gives back what _acquire took,  *)
(* once.                                                                   *)
THEOREM ConnectionsStayConserved == Spec => []ConnectionsConserved
<1>1. IInv => ConnectionsConserved
  <2> SUFFICES ASSUME IInv PROVE ConnectionsConserved
    OBVIOUS
  <2>1. ToSet(free) = {free[i] : i \in DOMAIN free}
    BY DEF ToSet
  <2>2. Conns = ToSet(free) \cup closed \cup {conn[t] : t \in Held}
    <3>1. /\ \A i \in DOMAIN free : free[i] \in Conns
          /\ closed \subseteq Conns /\ \A t \in Held : conn[t] \in Conns
      BY DEF IInv, PoolInv, PoolTyped, Held
    <3>2. \A c \in Conns : c \in closed \/ (\E i \in DOMAIN free : free[i] = c) \/ \E t \in Held : conn[t] = c
      BY NoConnAssumption DEF IInv, PoolInv, Covered, Held
    <3> QED
      BY <2>1, <3>1, <3>2
  <2>3. Len(free) + Cardinality(closed) + Cardinality(Held) = Cardinality(Conns)
    BY DEF IInv, PoolInv, Counted
  <2> QED
    BY <2>2, <2>3 DEF ConnectionsConserved, Held
<1> QED
  BY <1>1, AlwaysIInv, PTL

(* What execute and transaction() tell their callers is true: a write they *)
(* report is committed, and one that raises leaves nothing on its          *)
(* connection for a later commit to keep; only an execute_many may leave   *)
(* some of its rows, and it never leaves all.                              *)
THEOREM ReportsStayTrue == Spec => []ReportsAreTrue
<1>1. IInv => ReportsAreTrue
  <2> SUFFICES ASSUME IInv, NEW r \in Rows
               PROVE  /\ fate[r] = "done" => r \in committed
                      /\ fate[r] = "failed" =>
                           /\ Undone(r) \/ \E rows \in many : r \in rows /\ \E q \in rows : Undone(q)
                           /\ rejected > 0 \/ cancels > 0 \/ batches # {}
    BY DEF ReportsAreTrue
  <2>1. ASSUME fate[r] = "failed", ~Undone(r) PROVE \E rows \in many : r \in rows
    <3>1. CASE r \in committed
      BY <2>1, <3>1 DEF IInv, RowsInv, CommittedExplained, Remains
    <3>2. CASE \E c \in Conns : r \in tx[c].pending
      BY <2>1, <3>2 DEF IInv, RowsInv, PendingExplained, Remains, RowsAsked
    <3> QED
      BY <2>1, <3>1, <3>2 DEF Undone
  <2>2. fate[r] = "failed" => Undone(r) \/ \E rows \in many : r \in rows /\ \E q \in rows : Undone(q)
    BY <2>1 DEF IInv, RowsInv, ManyPartial
  <2> QED
    BY <2>2 DEF IInv, RowsInv, DoneIsCommitted, FaultsCounted, Disturbed
<1> QED
  BY <1>1, AlwaysIInv, PTL

(* transaction() is atomic as long as no task is cancelled: the rows of    *)
(* one share their fate, and of those committed each one is done.          *)
THEOREM TransactionsStayAtomic == Spec => []TransactionAtomic
<1>1. IInv => TransactionAtomic
  <2> SUFFICES ASSUME IInv, cancels = 0, NEW b \in batches, NEW r \in b, r \in committed, NEW q \in b
               PROVE  q \in committed
    BY DEF TransactionAtomic
  <2>1. b \subseteq Rows
    BY DEF IInv, TypeOK
  <2>2. fate[r] = "done"
    BY <2>1 DEF IInv, RowsInv, CommittedExplained, Remains, FaultsCounted, ManyWhole
  <2> QED
    BY <2>1, <2>2 DEF IInv, RowsInv, BatchesWhole, DoneIsCommitted
<1> QED
  BY <1>1, AlwaysIInv, PTL

(* Without rejected statements, cancellations and transactions no          *)
(* connection in the pool has a snapshot, and every fetch sees all that    *)
(* was committed before: what the other modules assume of the database.    *)
THEOREM ReadsSeeCommits == Spec => UndisturbedReadsSeeCommits
<1> DEFINE Fresh == rejected = 0 /\ cancels = 0 /\ batches = {} => \A t \in Tasks : FreshRead(t)
<1>1. ASSUME IInv PROVE Fresh
  <2> SUFFICES ASSUME rejected = 0, cancels = 0, batches = {}, NEW t \in Tasks, At(t, "fetch")
               PROVE  committed \subseteq Visible(conn[t])
    BY DEF FreshRead
  <2>1. conn[t] \in Conns
    BY <1>1, OwnConnection DEF At
  <2>2. ~Disturbed
    BY DEF Disturbed
  <2>3. tx[conn[t]].mode # "read"
    BY <1>1, <2>1, <2>2 DEF IInv, RowsInv, Orderly
  <2> QED
    BY <2>3 DEF Visible
<1>2. IInv /\ [Next]_vars => [Fresh]_vars
  BY <1>1
<1> QED
  BY <1>2, AlwaysIInv, PTL DEF Spec, UndisturbedReadsSeeCommits

-----------------------------------------------------------------------------
(* ColdStart. *)

(* The recorded versions have no gap... *)
NoGap == \E n \in 0..LastVersion : versions = 1..n

(* ... and each of them its tables. *)
Complete == \A v \in versions : \A i \in 1..Parts : <<v, i>> \in created

(* A starter in the loop has the versions before its own behind it, and    *)
(* the statements before its own of the migration it is at.                *)
Behind(s) ==
    /\ at[s][1] \in Versions
    /\ \A w \in 1..at[s][1] - 1 : w \in versions
    /\ \A i \in 1..at[s][2] - 1 : <<at[s][1], i>> \in created

InLoop == \A s \in Starters : stage[s] = "creating" => Behind(s)

(* The loop ends when all is recorded. *)
Done == \A s \in Starters \ Direct : stage[s] = "started" => versions = Versions

StartInv == StartersTypeOK /\ NoGap /\ Complete /\ InLoop /\ Done

-----------------------------------------------------------------------------

(* current_version: the greatest of versions without a gap is their number.*)
LEMMA MaxOfInterval ==
    ASSUME NEW n \in Nat, n # 0
    PROVE  Max(1..n) = n
<1>1. /\ n \in 1..n
      /\ \A m \in 1..n : n >= m
  OBVIOUS
<1>2. \A k \in 1..n : (\A m \in 1..n : k >= m) => k = n
  BY <1>1
<1> QED
  BY <1>1, <1>2 DEF Max

LEMMA CurrentIsCount ==
    ASSUME NEW n \in 0..LastVersion, versions = 1..n
    PROVE  CurrentVersion = n
<1>1. CASE n = 0
  <2>1. 1..n = {}
    BY <1>1
  <2> QED
    BY <1>1, <2>1 DEF CurrentVersion
<1>2. CASE n # 0
  <2>1. n \in Nat /\ n \in 1..n
    BY <1>2, MigrationAssumption
  <2>2. versions # {}
    BY <2>1
  <2> QED
    BY <1>2, <2>1, <2>2, MaxOfInterval DEF CurrentVersion
<1> QED
  BY <1>1, <1>2

(* The invariant holds at first: nothing is recorded, nobody has begun. *)
LEMMA InitStartInv == ColdInit => StartInv
<1> SUFFICES ASSUME ColdInit PROVE StartInv
  OBVIOUS
<1> USE MigrationAssumption, CrashAssumption
<1>1. StartersTypeOK
  <2>1. <<1, 1>> \in (1..LastVersion + 1) \X (1..Parts + 1)
    OBVIOUS
  <2>2. at \in [Starters -> (1..LastVersion + 1) \X (1..Parts + 1)]
    BY <2>1 DEF ColdInit
  <2>3. /\ created \subseteq Statements /\ versions \subseteq Versions
        /\ tries \in [Starters -> 0..MaxTries]
        /\ crashes \in 0..MaxCrashes
    BY DEF ColdInit
  <2> QED
    BY <2>2, <2>3 DEF ColdInit, StartersTypeOK
<1>2. NoGap
  <2>1. versions = 1..0
    BY DEF ColdInit
  <2> QED
    BY <2>1 DEF NoGap
<1>3. Complete /\ InLoop /\ Done
  BY StarterAssumption DEF ColdInit, Complete, InLoop, Done
<1> QED
  BY <1>1, <1>2, <1>3 DEF StartInv

(* Every step keeps it. *)
LEMMA NextStartInv == StartInv /\ [ColdNext]_startVars => StartInv'
<1> SUFFICES ASSUME StartInv, [ColdNext]_startVars PROVE StartInv'
  OBVIOUS
<1> USE MigrationAssumption, CrashAssumption DEF StartInv
<1>1. ASSUME NEW s \in Starters, Start(s) PROVE StartInv'
  <2>1. StartersTypeOK'
    <3>1. tries' \in [Starters -> 0..MaxTries]
      BY <1>1 DEF Start, StartersTypeOK
    <3>2. pooled' \in [Starters -> BOOLEAN]
      BY <1>1 DEF Start, StartersTypeOK
    <3>3. stage' \in [Starters ->
            {"off", "connecting", "reading", "creating", "started", "raised"}]
      BY <1>1 DEF Start, Goto, StartersTypeOK
    <3> QED
      BY <1>1, <3>1, <3>2, <3>3 DEF Start, database, StartersTypeOK
  <2>2. (NoGap /\ Complete)'
    BY <1>1 DEF Start, database, NoGap, Complete
  <2>3. InLoop'
    BY <1>1 DEF Start, Goto, database, StartersTypeOK, InLoop, Behind
  <2>4. Done'
    BY <1>1 DEF Start, Goto, database, StartersTypeOK, Done
  <2> QED
    BY <2>1, <2>2, <2>3, <2>4
<1>2. ASSUME NEW s \in Starters, Connect(s) PROVE StartInv'
  <2>1. StartersTypeOK'
    BY <1>2 DEF Connect, Goto, database, StartersTypeOK
  <2>2. (NoGap /\ Complete)'
    BY <1>2 DEF Connect, database, NoGap, Complete
  <2>3. InLoop'
    BY <1>2 DEF Connect, Goto, database, StartersTypeOK, InLoop, Behind
  <2>4. Done'
    BY <1>2 DEF Connect, Goto, database, StartersTypeOK, Done
  <2> QED
    BY <2>1, <2>2, <2>3, <2>4
<1>3. ASSUME NEW s \in Starters, ReadVersion(s) PROVE StartInv'
  <2>1. PICK n \in 0..LastVersion : versions = 1..n
    BY DEF NoGap
  <2>2. CurrentVersion = n
    BY <2>1, CurrentIsCount
  <2>3. at' = [at EXCEPT ![s] = <<n + 1, 1>>]
    BY <1>3, <2>2 DEF ReadVersion
  <2>4. <<n + 1, 1>> \in (1..LastVersion + 1) \X (1..Parts + 1)
    OBVIOUS
  <2>5. stage' = [stage EXCEPT ![s] = IF n = LastVersion THEN "started" ELSE "creating"]
    BY <1>3, <2>2 DEF ReadVersion, Goto
  <2>6. UNCHANGED <<created, versions, locked, pooled, tries, crashes>>
    BY <1>3 DEF ReadVersion, database
  <2>7. StartersTypeOK'
    BY <2>3, <2>4, <2>5, <2>6 DEF StartersTypeOK
  <2>8. (NoGap /\ Complete)'
    BY <2>6 DEF NoGap, Complete
  <2>9. InLoop'
    <3>1. SUFFICES ASSUME NEW t \in Starters, stage'[t] = "creating" PROVE Behind(t)'
      BY DEF InLoop
    <3>2. CASE t = s
      <4>1. n # LastVersion /\ at'[t] = <<n + 1, 1>>
        BY <2>3, <2>5, <3>1, <3>2 DEF StartersTypeOK
      <4> QED
        BY <4>1, <2>1, <2>6 DEF Behind, Versions
    <3>3. CASE t # s
      BY <2>3, <2>5, <2>6, <3>1, <3>3 DEF StartersTypeOK, InLoop, Behind
    <3> QED
      BY <3>2, <3>3
  <2>10. Done'
    BY <2>1, <2>5, <2>6 DEF StartersTypeOK, Done, Versions
  <2> QED
    BY <2>7, <2>8, <2>9, <2>10
<1>4. ASSUME NEW s \in Starters, Create(s) PROVE StartInv'
  <2>1. /\ at[s][1] \in Versions
        /\ at[s][2] \in 1..Parts
        /\ at[s] = <<at[s][1], at[s][2]>>
    BY <1>4 DEF Create, StartersTypeOK, InLoop, Behind
  <2>2. at' = [at EXCEPT ![s] = <<at[s][1], at[s][2] + 1>>]
    BY <1>4 DEF Create, NextPart
  <2>3. created' = created \cup {<<at[s][1], at[s][2]>>}
    BY <1>4, <2>1 DEF Create
  <2>4. UNCHANGED <<versions, locked, stage, pooled, tries, crashes>>
    BY <1>4 DEF Create
  <2>5. StartersTypeOK'
    <3>1. <<at[s][1], at[s][2]>> \in Statements
      BY <2>1 DEF Statements
    <3>2. <<at[s][1], at[s][2] + 1>> \in (1..LastVersion + 1) \X (1..Parts + 1)
      BY <2>1 DEF Versions
    <3> QED
      BY <2>2, <2>3, <2>4, <3>1, <3>2 DEF StartersTypeOK
  <2>6. (NoGap /\ Complete)'
    BY <2>3, <2>4 DEF NoGap, Complete
  <2>7. InLoop'
    <3>1. SUFFICES ASSUME NEW t \in Starters, stage'[t] = "creating" PROVE Behind(t)'
      BY DEF InLoop
    <3>2. Behind(t)
      BY <2>4, <3>1 DEF InLoop
    <3>3. CASE t = s
      <4>1. at'[t] = <<at[s][1], at[s][2] + 1>>
        BY <2>2, <3>3 DEF StartersTypeOK
      <4>2. \A i \in 1..at[s][2] : <<at[s][1], i>> \in created'
        BY <2>1, <2>3, <3>2, <3>3 DEF Behind
      <4> QED
        BY <2>1, <2>4, <3>2, <3>3, <4>1, <4>2 DEF Behind
    <3>4. CASE t # s
      BY <2>2, <2>3, <2>4, <3>2, <3>4 DEF StartersTypeOK, Behind
    <3> QED
      BY <3>3, <3>4
  <2>8. Done'
    BY <2>4 DEF Done
  <2> QED
    BY <2>5, <2>6, <2>7, <2>8
<1>5. ASSUME NEW s \in Starters, Record(s) PROVE StartInv'
  <2> DEFINE v == at[s][1]
  <2>1. /\ stage[s] = "creating"
        /\ at[s][2] = Parts + 1
        /\ v \in Versions
        /\ \A w \in 1..v - 1 : w \in versions
        /\ \A i \in 1..Parts : <<v, i>> \in created
    BY <1>5 DEF Record, AtRecord, StartersTypeOK, InLoop, Behind
  <2>2. /\ v \notin versions
        /\ versions' = versions \cup {v}
        /\ at' = [at EXCEPT ![s] = <<v + 1, 1>>]
        /\ stage' = [stage EXCEPT ![s] = IF v < LastVersion THEN "creating" ELSE "started"]
    BY <1>5 DEF Record, Goto, NextVersion
  <2>3. UNCHANGED <<created, locked, pooled, tries, crashes>>
    BY <1>5 DEF Record
  <2>4. versions' = 1..v
    <3>1. PICK n \in 0..LastVersion : versions = 1..n
      BY DEF NoGap
    <3>2. n = v - 1
      BY <2>1, <2>2, <3>1 DEF Versions
    <3> QED
      BY <2>1, <2>2, <3>1, <3>2 DEF Versions
  <2>5. StartersTypeOK'
    <3>1. <<v + 1, 1>> \in (1..LastVersion + 1) \X (1..Parts + 1)
      BY <2>1 DEF Versions
    <3> QED
      BY <2>1, <2>2, <2>3, <3>1 DEF StartersTypeOK
  <2>6. NoGap'
    BY <2>1, <2>4 DEF NoGap, Versions
  <2>7. Complete'
    BY <2>1, <2>2, <2>3 DEF Complete
  <2>8. InLoop'
    <3>1. SUFFICES ASSUME NEW t \in Starters, stage'[t] = "creating" PROVE Behind(t)'
      BY DEF InLoop
    <3>2. CASE t = s
      <4>1. v < LastVersion /\ at'[t] = <<v + 1, 1>>
        BY <2>2, <3>1, <3>2 DEF StartersTypeOK
      <4> QED
        BY <2>1, <2>4, <4>1 DEF Behind, Versions
    <3>3. CASE t # s
      BY <2>2, <2>3, <3>1, <3>3 DEF StartersTypeOK, InLoop, Behind
    <3> QED
      BY <3>2, <3>3
  <2>9. Done'
    <3>1. SUFFICES ASSUME NEW t \in Starters \ Direct, stage'[t] = "started"
                   PROVE versions' = Versions
      BY DEF Done
    <3>2. CASE t = s
      <4>1. v = LastVersion
        BY <2>1, <2>2, <3>1, <3>2 DEF StartersTypeOK, Versions
      <4> QED
        BY <2>4, <4>1 DEF Versions
    <3>3. CASE t # s
      <4>1. versions = Versions
        BY <2>2, <3>1, <3>3 DEF StartersTypeOK, Done
      <4> QED
        BY <2>1, <2>2, <4>1
    <3> QED
      BY <3>2, <3>3
  <2> QED
    BY <2>5, <2>6, <2>7, <2>8, <2>9
<1>6. ASSUME NEW s \in Starters, RecordRejected(s) \/ StartLockedOut(s) PROVE StartInv'
  <2>1. /\ stage' = [stage EXCEPT ![s] = "raised"]
        /\ locked' \in BOOLEAN
        /\ UNCHANGED <<created, versions, at, pooled, tries, crashes>>
    BY <1>6 DEF RecordRejected, StartLockedOut, Goto, database, locals, StartersTypeOK
  <2>2. StartersTypeOK'
    BY <2>1 DEF StartersTypeOK
  <2>3. (NoGap /\ Complete)'
    BY <2>1 DEF NoGap, Complete
  <2>4. InLoop'
    BY <2>1 DEF StartersTypeOK, InLoop, Behind
  <2>5. Done'
    BY <2>1 DEF StartersTypeOK, Done
  <2> QED
    BY <2>2, <2>3, <2>4, <2>5
<1>7. ASSUME Unlock PROVE StartInv'
  BY <1>7 DEF Unlock, locals, StartersTypeOK, NoGap, Complete, InLoop, Behind, Done
<1>8. ASSUME Crash PROVE StartInv'
  <2>1. StartersTypeOK'
    <3>1. stage' \in [Starters ->
            {"off", "connecting", "reading", "creating", "started", "raised"}]
      BY <1>8 DEF Crash
    <3>2. /\ tries' \in [Starters -> 0..MaxTries]
          /\ pooled' \in [Starters -> BOOLEAN]
      BY <1>8 DEF Crash
    <3>3. crashes' \in 0..MaxCrashes
      BY <1>8 DEF Crash, StartersTypeOK
    <3>5. locked' \in BOOLEAN
      BY <1>8 DEF Crash
    <3>4. UNCHANGED <<created, versions, at>>
      BY <1>8 DEF Crash
    <3> QED
      BY <3>1, <3>2, <3>3, <3>4, <3>5 DEF StartersTypeOK
  <2>2. (NoGap /\ Complete)'
    BY <1>8 DEF Crash, NoGap, Complete
  <2>3. \A s \in Starters : stage'[s] = "off"
    BY <1>8 DEF Crash
  <2>4. (InLoop /\ Done)'
    BY <2>3 DEF InLoop, Done
  <2> QED
    BY <2>1, <2>2, <2>4
<1>9. ASSUME UNCHANGED startVars PROVE StartInv'
  BY <1>9 DEF startVars, database, locals, StartersTypeOK, NoGap, Complete, InLoop, Behind, Done
<1>10. ASSUME NEW s \in Starters, Start(s) \/ StartStep(s) PROVE StartInv'
  <2>1. CASE Start(s)
    BY <2>1, <1>1
  <2>2. CASE Connect(s) \/ ReadVersion(s)
    BY <2>2, <1>2, <1>3
  <2>3. CASE Create(s) \/ Record(s)
    BY <2>3, <1>4, <1>5
  <2>4. CASE RecordRejected(s) \/ StartLockedOut(s)
    BY <2>4, <1>6
  <2> QED
    BY <1>10, <2>1, <2>2, <2>3, <2>4 DEF StartStep
<1> QED
  BY <1>7, <1>8, <1>9, <1>10 DEF ColdNext

-----------------------------------------------------------------------------

LEMMA AlwaysStartInv == ColdStartSpec => []StartInv
<1> QED
  BY InitStartInv, NextStartInv, PTL DEF ColdStartSpec

(* The variables of the model keep their types: no starter gets past the   *)
(* last migration, or past the last statement of one.                      *)
THEOREM StartersTypeCorrect == ColdStartSpec => []StartersTypeOK
<1> QED
  BY AlwaysStartInv, PTL DEF StartInv

(* MAX(version) tells which migrations are there: a version that is        *)
(* recorded has its tables and all versions before it.                     *)
THEOREM VersionsAreReliable == ColdStartSpec => []RecordedMeansCreated
<1>1. StartInv => RecordedMeansCreated
  <2> SUFFICES ASSUME StartInv, NEW v \in versions, NEW w \in 1..v
               PROVE  w \in versions /\ {w} \X (1..Parts) \subseteq created
    BY DEF RecordedMeansCreated
  <2>1. PICK n \in 0..LastVersion : versions = 1..n
    BY DEF StartInv, NoGap
  <2>2. w \in versions
    BY <2>1, MigrationAssumption
  <2> QED
    BY <2>2 DEF StartInv, Complete
<1> QED
  BY <1>1, AlwaysStartInv, PTL

(* An agent that has started finds every table of every migration. *)
THEOREM StartIsComplete == ColdStartSpec => []StartedFindsTables
<1>1. StartInv => StartedFindsTables
  <2> SUFFICES ASSUME StartInv, NEW s \in Starters \ Direct, stage[s] = "started"
               PROVE  Statements \subseteq created
    BY DEF StartedFindsTables
  <2>1. versions = Versions
    BY DEF StartInv, Done
  <2> QED
    BY <2>1 DEF StartInv, Complete, Statements
<1> QED
  BY <1>1, AlwaysStartInv, PTL

=============================================================================
