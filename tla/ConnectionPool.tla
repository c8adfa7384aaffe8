--------------------------- MODULE ConnectionPool ---------------------------
(***************************************************************************)
(* The pool of SQLite connections of src/agent_sdk/db/connection.py.  What *)
(* a statement does to the transaction of its connection is external code: *)
(* sqlite3 in its legacy transaction mode, on a database in WAL mode.  An  *)
(* INSERT, UPDATE or DELETE begins a transaction if there is none, takes   *)
(* the one write lock, and leaves the transaction open when it fails; a    *)
(* SELECT begins none, but inside of one it fixes what the connection sees.*)
(*                                                                         *)
(* A row stands for what one write statement does; executemany runs one    *)
(* such statement after another.  Everything between two awaits is one     *)
(* action; the thread of a connection finishes a statement whose task was  *)
(* cancelled before it does anything else, so that a cancellation counts   *)
(* as one that comes when the statement has run.                           *)
(***************************************************************************)
EXTENDS Integers, Sequences, FiniteSets, SequencesExt

CONSTANTS
    Conns,          \* connections; pool_size of them
    NoConn,
    Tasks,          \* asyncio tasks that use the database
    Rows,
    Kinds,          \* the methods they call: see Size
    MaxCalls,       \* bound: calls
    MaxRejected,    \* bound: statements, or bodies of transaction(), that raise
    MaxCancels,     \* bound: tasks cancelled
    MaxCloses       \* bound: calls of close

ASSUME ConnsAssumption == IsFiniteSet(Conns)
ASSUME NoConnAssumption == NoConn \notin Conns
ASSUME KindsAssumption == Kinds \subseteq {"fetch", "execute", "execute_many", "transaction"}
ASSUME BoundAssumption == {MaxCalls, MaxRejected, MaxCancels, MaxCloses} \subseteq Nat

VARIABLES
    free,           \* _pool
    closed,         \* connections that were closed
    tx,             \* the transaction of each connection
    committed,      \* rows in the database
    pc, op, conn,   \* what each task is doing: where, which call, with which connection
    fate,           \* what became of each row's statement, for the task that asked for it
    batches,        \* history: the sets of rows written in one transaction()
    many,           \* history: the sets of rows written in one execute_many
    closing,        \* close() is in progress
    calls, rejected, cancels, closes

pool == <<free, closed>>
history == <<batches, many>>
tasks == <<pc, op, conn>>
faults == <<rejected, cancels>>
shutdown == <<closing, closes>>
vars == <<pool, tx, committed, tasks, fate, history, calls, faults, shutdown>>

-----------------------------------------------------------------------------
(* SQLite. *)

(* mode: "none", or a transaction that has only begun ("open"), that has a *)
(* snapshot ("read"), or that holds the write lock ("write").              *)
Clean == [mode |-> "none", seen |-> {}, pending |-> {}]

Visible(c) == (IF tx[c].mode = "read" THEN tx[c].seen ELSE committed) \cup tx[c].pending

(* A write on a snapshot that is not the latest fails at once, for ever.   *)
Stale(c) == tx[c].mode = "read" /\ tx[c].seen # committed

Holders(c) == {d \in Conns \ {c} : tx[d].mode = "write"}

Writable(c) == Holders(c) = {} /\ ~Stale(c)

(* The wait for the lock ends with "database is locked" after 5 seconds.   *)
(* They are enough for an execute that has the lock to commit.             *)
Committing(d) == \E t \in Tasks : conn[t] = d /\ pc[t] = "ran"
LockedOut(c) == Stale(c) \/ \E d \in Holders(c) : ~Committing(d)

Began(c) == IF tx[c].mode = "none" THEN [Clean EXCEPT !.mode = "open"] ELSE tx[c]
Locking(c, rows) == [mode |-> "write", seen |-> {}, pending |-> tx[c].pending \cup rows]
Fixed(c) == [Clean EXCEPT !.mode = "read", !.seen = committed]

SnapshotOfItsOwn(c) ==                  \* mutant: a SELECT begins a transaction
    IF tx[c].mode \in {"none", "open"} THEN Fixed(c) ELSE tx[c]
AfterSelect(c) == IF tx[c].mode = "open" THEN Fixed(c) ELSE tx[c]

-----------------------------------------------------------------------------

NoOp == [kind |-> "none", rows |-> {}]

Init ==
    /\ free \in {s \in [1..Cardinality(Conns) -> Conns] : IsInjective(s)}
    /\ closed = {}
    /\ tx = [c \in Conns |-> Clean]
    /\ committed = {}
    /\ pc = [t \in Tasks |-> "idle"]
    /\ op = [t \in Tasks |-> NoOp]
    /\ conn = [t \in Tasks |-> NoConn]
    /\ fate = [r \in Rows |-> "new"]
    /\ batches = {} /\ many = {}
    /\ closing = FALSE
    /\ calls = 0 /\ rejected = 0 /\ cancels = 0 /\ closes = 0

(* A task calls fetch_one or fetch_all, execute, execute_many with two     *)
(* rows, or transaction() with a body that writes two rows.                *)
Size == [fetch |-> 0, execute |-> 1, execute_many |-> 2, transaction |-> 2]

Call(t) ==
    /\ pc[t] = "idle"
    /\ calls < MaxCalls
    /\ calls' = calls + 1
    /\ \E kind \in Kinds, rows \in SUBSET {r \in Rows : fate[r] = "new"} :
         /\ IsFiniteSet(rows) /\ Cardinality(rows) = Size[kind]
         /\ op' = [op EXCEPT ![t] = [kind |-> kind, rows |-> rows]]
         /\ fate' = [r \in Rows |-> IF r \in rows THEN "asked" ELSE fate[r]]
         /\ batches' = IF kind = "transaction" THEN batches \cup {rows} ELSE batches
         /\ many' = IF kind = "execute_many" THEN many \cup {rows} ELSE many
    /\ pc' = [pc EXCEPT ![t] = "waiting"]
    /\ UNCHANGED <<pool, tx, committed, conn, faults, shutdown>>

(* _acquire: a task that comes along may be served before one that waits.  *)
Acquire(t) ==
    /\ pc[t] = "waiting"
    /\ free # <<>>
    /\ conn' = [conn EXCEPT ![t] = Head(free)]
    /\ free' = Tail(free)
    /\ pc' = [pc EXCEPT ![t] = "ready"]
    /\ UNCHANGED <<closed, tx, committed, op, fate, history, calls, faults, shutdown>>

At(t, kind) == pc[t] = "ready" /\ op[t].kind = kind
AtWrite(t) == At(t, "execute") \/ At(t, "execute_many")

NotReturned(t) == free                  \* mutant: only a call that succeeds gives it back
ReturnedAnyway(t) == Append(free, conn[t])    \* mutant: a waiting call gives back, too
Returned(t) == IF conn[t] = NoConn THEN free ELSE Append(free, conn[t])

(* The end of a call; _release is in a finally block, after _acquire. *)
Leave(t) ==
    /\ conn' = [conn EXCEPT ![t] = NoConn]
    /\ pc' = [pc EXCEPT ![t] = "idle"]
    /\ op' = [op EXCEPT ![t] = NoOp]
    /\ UNCHANGED <<closed, history, calls, shutdown>>

Ends(t, result) == fate' = [r \in Rows |-> IF r \in op[t].rows THEN result ELSE fate[r]]

Raises(t) ==
    /\ Ends(t, "failed")
    /\ free' = Returned(t)
    /\ Leave(t)
    /\ UNCHANGED <<committed, cancels>>

Fetch(t) ==
    /\ At(t, "fetch")
    /\ tx' = [tx EXCEPT ![conn[t]] = AfterSelect(conn[t])]
    /\ free' = Returned(t)
    /\ Leave(t)
    /\ UNCHANGED <<committed, fate, faults>>

(* The statement of an execute, or all those of an execute_many; the       *)
(* commit is another await.                                                *)
Execute(t) ==
    /\ AtWrite(t)
    /\ Writable(conn[t])
    /\ tx' = [tx EXCEPT ![conn[t]] = Locking(conn[t], op[t].rows)]
    /\ pc' = [pc EXCEPT ![t] = "ran"]
    /\ UNCHANGED <<pool, committed, op, conn, fate, history, calls, faults, shutdown>>

SomeDone(t) == (SUBSET op[t].rows) \ {op[t].rows}

(* A statement breaks a constraint: nobody rolls back, and what the earlier*)
(* ones of an execute_many wrote stays pending.                            *)
ExecuteRejected(t) ==
    /\ AtWrite(t)
    /\ Writable(conn[t])
    /\ rejected < MaxRejected
    /\ rejected' = rejected + 1
    /\ \E done \in SomeDone(t) : tx' = [tx EXCEPT ![conn[t]] = Locking(conn[t], done)]
    /\ Raises(t)

ExecuteLocked(t) ==
    /\ AtWrite(t)
    /\ LockedOut(conn[t])
    /\ tx' = [tx EXCEPT ![conn[t]] = Began(conn[t])]
    /\ Raises(t)
    /\ UNCHANGED rejected

(* transaction(): BEGIN fails inside of a transaction, and rolls that back.*)
Begin(t) ==
    /\ At(t, "transaction")
    /\ tx[conn[t]].mode = "none"
    /\ tx' = [tx EXCEPT ![conn[t]] = Began(conn[t])]
    /\ pc' = [pc EXCEPT ![t] = "body"]
    /\ UNCHANGED <<pool, committed, op, conn, fate, history, calls, faults, shutdown>>

StillOpen(c) == tx[c]                   \* mutant: transaction() does not roll back
RolledBack(c) == Clean

BeginFails(t) ==
    /\ At(t, "transaction")
    /\ tx[conn[t]].mode # "none"
    /\ tx' = [tx EXCEPT ![conn[t]] = RolledBack(conn[t])]
    /\ Raises(t)
    /\ UNCHANGED rejected

Unwritten(t) == op[t].rows \ tx[conn[t]].pending

BodyFetches(t) ==
    /\ pc[t] = "body"
    /\ tx[conn[t]].mode = "open"
    /\ tx' = [tx EXCEPT ![conn[t]] = AfterSelect(conn[t])]
    /\ UNCHANGED <<pool, committed, tasks, fate, history, calls, faults, shutdown>>

BodyWrites(t) ==
    /\ pc[t] = "body"
    /\ Writable(conn[t])
    /\ \E r \in Unwritten(t) : tx' = [tx EXCEPT ![conn[t]] = Locking(conn[t], {r})]
    /\ UNCHANGED <<pool, committed, tasks, fate, history, calls, faults, shutdown>>

(* A statement of the body is rejected or locked out, or the body raises.  *)
BodyFails(t) ==
    /\ pc[t] = "body"
    /\ \/ rejected < MaxRejected /\ rejected' = rejected + 1
       \/ Unwritten(t) # {} /\ LockedOut(conn[t]) /\ UNCHANGED rejected
    /\ tx' = [tx EXCEPT ![conn[t]] = RolledBack(conn[t])]
    /\ Raises(t)

Committable(t) == pc[t] = "ran" \/ (pc[t] = "body" /\ Unwritten(t) = {})

NothingKept(t) == {}                    \* mutant: no commit
Kept(t) == tx[conn[t]].pending

(* commit keeps all that is pending on the connection. *)
CommitsAll(t) ==
    /\ committed' = committed \cup Kept(t)
    /\ tx' = [tx EXCEPT ![conn[t]] = Clean]

Commit(t) ==
    /\ Committable(t)
    /\ CommitsAll(t)
    /\ Ends(t, "done")
    /\ free' = Append(free, conn[t])
    /\ Leave(t)
    /\ UNCHANGED faults

(* CancelledError: `except Exception` does not catch it, so the connection *)
(* goes back as it is.  A commit its thread has begun is not stopped.      *)
Cancel(t) ==
    /\ pc[t] \in {"waiting", "ran", "body"}
    /\ cancels < MaxCancels
    /\ cancels' = cancels + 1
    /\ Ends(t, "cancelled")
    /\ free' = Returned(t)
    /\ Leave(t)
    /\ UNCHANGED <<tx, committed>> \/ (Committable(t) /\ CommitsAll(t))
    /\ UNCHANGED rejected

-----------------------------------------------------------------------------
(* close: it closes what is in the pool. *)

Close ==
    /\ ~closing
    /\ closes < MaxCloses
    /\ closing' = TRUE
    /\ closes' = closes + 1
    /\ UNCHANGED <<pool, tx, committed, tasks, fate, history, calls, faults>>

CloseOne ==
    /\ closing
    /\ free # <<>>
    /\ free' = Tail(free)
    /\ closed' = closed \cup {Head(free)}
    /\ tx' = [tx EXCEPT ![Head(free)] = Clean]
    /\ UNCHANGED <<committed, tasks, fate, history, calls, faults, shutdown>>

CloseReturns ==
    /\ closing
    /\ free = <<>>
    /\ closing' = FALSE
    /\ UNCHANGED <<pool, tx, committed, tasks, fate, history, calls, faults, closes>>

-----------------------------------------------------------------------------

Step(t) == \/ Acquire(t) \/ Fetch(t) \/ Execute(t) \/ ExecuteRejected(t) \/ ExecuteLocked(t)
           \/ Begin(t) \/ BeginFails(t) \/ BodyFetches(t) \/ BodyWrites(t) \/ BodyFails(t)
           \/ Commit(t)

Next == \/ \E t \in Tasks : Call(t) \/ Step(t) \/ Cancel(t)
        \/ Close \/ CloseOne \/ CloseReturns

Spec == Init /\ [][Next]_vars

(* Threads run the statements they are given, bodies of transaction() end, *)
(* and a task that waits for a connection gets one in the end: the calls   *)
(* of the others, that could be served before it, are finitely many.       *)
FairSpec == /\ Spec
            /\ \A t \in Tasks : WF_vars(Step(t))
            /\ WF_vars(CloseOne) /\ WF_vars(CloseReturns)

-----------------------------------------------------------------------------

(* The pool, the transactions of its connections, the tasks, the rows. *)
TypeOK ==
    /\ free \in Seq(Conns)
    /\ closed \subseteq Conns
    /\ tx \in [Conns -> [mode : {"none", "open", "read", "write"},
                         seen : SUBSET Rows, pending : SUBSET Rows]]
    /\ committed \subseteq Rows
    /\ pc \in [Tasks -> {"idle", "waiting", "ready", "ran", "body"}]
    /\ op \in [Tasks -> [kind : Kinds \cup {"none"}, rows : SUBSET Rows]]
    /\ conn \in [Tasks -> Conns \cup {NoConn}]
    /\ fate \in [Rows -> {"new", "asked", "done", "failed", "cancelled"}]
    /\ \A c \in Conns : tx[c].pending # {} => tx[c].mode = "write"
    /\ batches \subseteq SUBSET Rows /\ many \subseteq SUBSET Rows
    /\ closing \in BOOLEAN
    /\ calls \in 0..MaxCalls /\ rejected \in 0..MaxRejected
    /\ cancels \in 0..MaxCancels /\ closes \in 0..MaxCloses

(* Every connection is in the pool once, or closed, or in the hands of one *)
(* task, however calls end: none gets lost and no two tasks share one.     *)
ConnectionsConserved ==
    LET held == {t \in Tasks : conn[t] # NoConn}
    IN  /\ Conns = ToSet(free) \cup closed \cup {conn[t] : t \in held}
        /\ Len(free) + Cardinality(closed) + Cardinality(held) = Cardinality(Conns)

Undone(r) == r \notin committed /\ \A c \in Conns : r \notin tx[c].pending

(* What the caller of a write is told is true.  A write that was reported  *)
(* is in the database; one that raised leaves nothing that could be        *)
(* committed with what another task does on its connection later, but for  *)
(* an execute_many, which may leave some of its rows and never all; and    *)
(* none raises unless a statement was rejected, a task cancelled or a      *)
(* transaction in its way.                                                 *)
ReportsAreTrue ==
    \A r \in Rows :
        /\ fate[r] = "done" => r \in committed
        /\ fate[r] = "failed" =>
             /\ Undone(r) \/ \E rows \in many : r \in rows /\ \E q \in rows : Undone(q)
             /\ rejected > 0 \/ cancels > 0 \/ batches # {}

(* Of the rows of a transaction() all or none are in the database, as long *)
(* as no task is cancelled in the middle of one.  connection.py:93:        *)
(* "Atomic transaction context manager."                                   *)
TransactionAtomic ==
    cancels = 0 => \A rows \in batches : rows \subseteq committed \/ rows \cap committed = {}

(* A fetch returns what was committed before it... *)
FreshRead(t) == At(t, "fetch") /\ pc'[t] = "idle" => committed \subseteq Visible(conn[t])

(* ... as long as no statement was rejected, no task cancelled and no      *)
(* write locked out by a transaction: what the other modules assume, but   *)
(* for AgentRun, which leaves connections in transactions (disturbed).     *)
UndisturbedReadsSeeCommits ==
    [][rejected = 0 /\ cancels = 0 /\ batches = {} => \A t \in Tasks : FreshRead(t)]_vars

(* Every call ends, however many there are for each connection and however *)
(* they end, as long as close() is not called.                             *)
CallsEnd == \A t \in Tasks : pc[t] # "idle" ~> pc[t] = "idle" \/ closes > 0

=============================================================================
