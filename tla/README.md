# A verification of agent_sdk

`agent_sdk` is a Python SDK for LLM agents on asyncio and SQLite. An `Agent`
takes a message, calls a model, runs the tools the model asks for and repeats
until there is a final answer; everything it says and does is kept in tables,
so that a session can be continued, resumed after a crash, shared by concurrent
calls and kept apart from those of other users. Around it there are streams,
approvals, checkpoints, a memory, a queue with workers, a circuit breaker with
retries, a rate limiter and a pool of slots, a connection pool and migrations.

This directory holds TLA+ models of the parts that carry the program's logic,
the TLC configurations that check them on small instances, and proofs, checked
by TLAPS, of what matters most for instances of any size. `PROJECT.json` maps
every definition to the lines it models.

    tlc -config AgentRunConcurrent.cfg MCAgentRun     # one run
    tlapm AgentRunProofs.tla                          # one set of proofs

## 1. The system

All code of one process runs on one asyncio event loop: a task runs without
interruption from one `await` to the next. That is the grain of every model
here: **one action is what the code does between two awaits** (in a generator,
between two awaits or yields). Several processes can share a database file.

| Part | Source (`src/agent_sdk/`) | State | Operations | What is hard | Module |
|---|---|---|---|---|---|
| `Agent.run` | `core/agent.py`, `session.py`, `step.py` | locals of a call; rows of sessions, messages, steps | `run`, session status changes | calls interleave on one session; a crash or an error between two commits; resume | **AgentRun**, **StepLog** |
| `Agent.stream`, HTTP stream | `core/agent.py`, `composability/server.py` | locals of a generator; the user scope of the task | `stream`; pull, close, drop | a consumer stops anywhere; the scope belongs to the task and not to the generator | **AgentStream** |
| Message history | `persistence/history.py` | messages | `append`, `get`, `count`, `truncate` | the ordinal is counted in one statement and used in the next | AgentRun (append, get) |
| Sessions, steps | `persistence/session_store.py`, `db/repositories/session_repo.py`, `step_repo.py` | sessions, steps | create, load, set status, delete | deletion under a running call; uniqueness of step numbers | AgentRun, Approvals (deletion) |
| Tenant isolation | `isolation/` | the user of the task | scoped queries | ownership is checked once, used many times | AgentRun, AgentStream, Approvals, Durability |
| Crash detection | `durability/recovery.py` | - | `detect_incomplete`, `auto_resume` | what a crash leaves to be detected | AgentRun |
| Checkpoints, replay, idempotency | `durability/checkpoint.py`, `replay.py`, `idempotency.py` | checkpoints of step rows, keys | `save`, `load_latest`, `resume_from`, `check`, `record`, `clear` | what a crash lets the latest row say; keys that users share | **Durability** |
| Approvals, rules | `governance/approval.py`, `rules.py`, `policy.py`, `db/repositories/approval_repo.py` | approval rows | `request_approval`, `wait_for_resolution`, `resolve`, `evaluate` | a decision near the time-out; two decisions; deciders of other users | **Approvals** |
| Memory | `persistence/memory.py` | memory rows | `add_short_term`, `summarize_and_promote`, `clear`, recall | a crash between copy and delete; page limits; adds meanwhile | **Memory** |
| Rate limiter, concurrency pool | `scale/rate_limiter.py`, `pool.py` | bucket; semaphore, its waiters | `acquire`, `try_acquire`, `available_tokens` | cancelled waiters; late wake-ups; starvation | **Admission** |
| Circuit breaker, retry | `scale/circuit_breaker.py`, `retry.py` | state, counters | `call`, `with_retry`, `reset` | results that come in after the circuit has changed | **CircuitBreaker** |
| Request queue | `scale/queue.py` | heap, futures, workers | `submit`, `get_result`, `cancel`, `start`, `stop` | cancellation and time-outs against workers | **RequestQueue** |
| Connection pool | `db/connection.py` | free connections, SQLite transactions | `fetch_*`, `execute*`, `transaction`, `close` | failed or cancelled statements on a connection that is used again | **ConnectionPool** |
| Start-up, migrations | `db/migrations.py`, `Agent.initialize` | schema, `schema_version` | `initialize`, `run` | crashes between statements; two starters | **ColdStart** |
| Knowledge store, audit log, service registry | `persistence/knowledge.py`, `governance/audit.py`, `composability/discovery.py` | independent rows | one statement each | no protocol | not modelled |
| Client, MCP, LLM client, tools | `composability/`, `core/llm.py`, `core/tool.py` | - | calls across a network | what a call may do is a choice of the model | their outcomes only |

How they interact: `Agent.run` and `Agent.stream` hold no state between calls;
all of it goes through repositories, each of whose methods is one or two
statements of `DatabaseConnection`, which takes a connection from the pool,
runs the statement, commits and gives the connection back. `ConnectionPool` is
therefore the layer below the others: they assume that every statement runs on
a connection without an open transaction, that what was committed is seen and
that a statement that cannot run raises. ConnectionPool shows when that is so
(`UndisturbedReadsSeeCommits`, the last part of `ReportsAreTrue`); section 4
says when it is not. AgentRun does not assume it of writes: a call cut off
between a statement and its commit, or whose statement is rejected, leaves its
connection in a transaction (`left`, `disturbed`), and a row left pending lands
when a later call commits there. Durability lets a worker whose INSERT is
rejected die with its connections. `ColdStart` sits before all of them. The approvals,
checkpoints, memory, queue, breaker, limiter and pool are libraries that
nothing in the repository connects to `Agent.run`; their models have the
callers they are written for.

`PROJECT.json` lists, under `hazards`, the lines where this code can go wrong
in a way that a unit test hardly reaches, each with the properties that would
catch it.

## 2. The modules

### AgentRun, StepLog, AgentRunProofs

A member of `Runs` is one call of `Agent.run`. `pc[t]` names the await it is
at and `run[t]` holds the locals of the coroutine; `status`, `owner`,
`messages` and `steps` are the tables; `executed` is a history of tool
executions, which no table of the program records. `left` are the writes that
were executed on a connection and not committed, because their call was
cancelled in between; `disturbed` says that some connection was left in a
transaction, with a row or without. The actions follow the code
from top to bottom:

| `pc` | Action(s) | Code (`core/agent.py` unless named) |
|---|---|---|
| `idle` | `StartNew`, `StartOn` | the call, with or without a session id, resumed or not |
| `create` | `CreateSession` | a new session |
| `load` | `LoadSession` | the scoped SELECT and the branches on the result |
| `unpause` | `Unpause` | `resume=True`: status back to active |
| `latest` | `ReadLatest` | `resumed_from_step` |
| `count`, `insert` | `CountMessages`, `InsertMessage`, `InsertFails`, `EncodeFails` | `HistoryManager.append`, `history.py` 23-50 |
| `history` | `ReadHistory` | `get_history(limit=200)` |
| `llm` | `LLMAnswers`, `LLMFails` | the answer: text or up to `MaxCalls` tool calls |
| `tools` | `ExecuteTool` | the tool loop, one await a tool |
| `persist` | `PersistStep`, `PersistFails` | `StepRepository.create` with its UNIQUE constraint and its foreign key |
| `reread`, `lastStep`, `mark` | `RereadStep`, `ReadLastStep`, `MarkStep` | look the row up again, set it completed |
| `close` | `CloseSession` | session completed, result returned |
| any | `Abort`, `Crash` | the task is cancelled with nothing done, or a read fails; the process dies with all its calls and connections |
| a write | `CutOff` | cancelled between `conn.execute` and `conn.commit`, or failed: `_release` without commit or rollback (`connection.py` 50-58) |
| a write | `LockedOut` | "database is locked": another connection holds the write lock |
| - | `Land` | a later commit on a connection where a write was left takes it along |
| - | `SetStatus`, `DeleteSession` | what users do to sessions meanwhile |

After `llm` a final answer goes through `count`, `insert`, `persist`, `reread`,
`lastStep`, `mark` and `close`; an answer with tool calls through `count`,
`insert`, `tools`, `count` and `insert` for every result, `persist`, `reread`,
`mark`, and then `history` again or the end, at `max_steps`. `Exclusive = TRUE` restricts callers to one call
per session at a time, which some properties need and the SDK does not enforce;
what goes wrong without it is in section 4. A read is taken to see every earlier
commit. `RowsBelongToOwner`, `StepNumbersContiguous`, `EffectsAreRequested` and
`ImplementsStepLog` hold whatever is left on connections, and none of them rests
on how recent a count or a latest step number is: UNIQUE and the foreign keys are checked
when a row is written. The other safety properties do rest on it, and are
stated for as long as `disturbed` is false.

Contents of messages are abstracted to where they come from (call, step, place
in the step), a tool's result to whether `json.dumps` takes it, a step's output
to the call that wrote it. The `uuid4` of a session is a fresh member of
`Sessions`.

`StepLog` is the abstract promise of the steps table: per session a log that
grows at its end, whose entries go from pending to completed and that
disappears only as a whole. `AgentRun!Log` maps the table to it and
`ImplementsStepLog` is the refinement, checked by `agent_run_concurrent` and
proved by `StepsTableIsALog`.

### AgentStream, AgentStreamProofs

A member of `Streams` is one call of `Agent.stream`, an async generator. It runs
in the task that pulls it, up to its next `yield`; `pc[g]` is the await or the
yield it is at. `scope[t]` is the ContextVar `_current_user_id` of task `t`, and
`gen[g].token` what `set_user_scope` replaced. The generator proper:

| `pc` | Action(s) | Code (`core/agent.py` unless named) |
|---|---|---|
| `made` | `OpenNew`, `OpenOn` | the first pull: `set_user_scope`, then create or load |
| `create`, `load` | `CreateSession`, `LoadSession`, `LoadFails` | the session |
| `append` | `AppendMessage` | every `add_message`: of the user, the model, a tool |
| `history` | `ReadHistory` | `get_history` |
| `llm` | `PassOnChunk`, `AnswerEnds`, `AnswerFails` | `chat_stream` of `core/llm.py`, chunk by chunk |
| `tool` | `ExecuteTool`, `EncodeFails` | one tool, then `json.dumps` |
| `start`, `event`, `told`, `result`, `end`, `done` | `Pull...` | what follows the yield |
| any yield | `Close`, `Drop` | `aclose()` in the same task; a consumer that just stops |
| any await | `Abort` | cancellation, or the database |

`Drop` leaves the scope as it is: the event loop closes the generator in
another context, where `reset` of the token raises. With `Overlap = FALSE` a
task pulls no second stream while one of its streams is suspended. Deletion and
ordinals are AgentRun's subject and are left out.

### Approvals, ApprovalsProofs

A waiter is a tool call: `Ask` evaluates the rules (`Evaluate`), and then, in
an await each, the request is inserted, read back and polled until it is
resolved or `Timeout` polls are over. A decider is a call of `resolve`: of the
endpoint (`AnswerResolved`) or of the manager (`AnswerReread`). The status
`other` stands for any string the endpoint stores. `late` is a history of
requests decided when their waiter had no poll left. `DecideOnce` says that a
user decides a request at most once; without it the code lets a later decision
overwrite an earlier one.

### Durability, DurabilityProofs

`CheckpointManager`, `ReplayEngine` and `IdempotencyTracker`, with the worker
they are made for: `LoadLatest` and `ReplayStep` are `resume_from`; then for
every step `LookForRow`, `CreateRow` if there is none, `CheckKey`,
`ExecuteTool`, `RecordKey`, `FindRow` and `SaveCheckpoint`, an await each. The
key of a step is drawn when its row is inserted (`uuid4`, or the caller's own)
and read from the row after that (`stepKey`); this order is the caller's choice,
and the only one under which a key outlives a crash, because `Step` and
`StepRepository.create` draw a new one each time. Two users may give the same
key, two steps of one user do not. A worker whose INSERT meets the row of
another one gets an IntegrityError, and its connection keeps the write lock
(ConnectionPool); the protocol is that it dies, which closes the connection,
and starts again, as after a `Crash`. `ClearKeys` is for a session that is
finished and on which nobody works. `executed`, `recorded` and `before` (what
was recorded when a worker called `resume_from`) are histories.

### Memory, MemoryProofs

The short-term rows of sessions and the long-term summaries. A promotion is
`ReadBuffer`, `AddSummary` and one `DeletePromoted` per row; a clear is
`ReadPage` and one `DeleteCleared` per row; a recall reads the buffer and then
the summaries. Ids grow with `created_at`. `AddShortTerm` happens at any time
and `Die` between any two statements. The text of a summary is the set of
entries it stands for. `due` and `cut` in the locals, `cleared` and `promoted`
are histories.

### Admission, AdmissionProofs

A task takes tokens from the `RateLimiter` and then a slot of the
`ConcurrencyPool`. Time comes in ticks, tokens are whole; a task that sleeps
may notice any number of ticks too late. `elapsed` is capped at `Horizon`, when
the bucket is full anyway. asyncio's `Semaphore` is modelled future by future
(external code: `waiters`, `future`, `GiveSlots`), because what a cancelled
waiter does to it is the question. `backlog` is a history: the greatest excess of the
tokens granted over what the rate earned, over all windows that end now.

### CircuitBreaker

`CircuitBreaker.call` around `with_retry`, as `ARCHITECTURE.md` D10 composes
them. A member of `Calls` is a caller that makes one call after another. Time is
the flag `expired` ("`recovery_timeout` has passed since the last failure"), set
by `TimePasses` at any moment; the property `state`, which changes the circuit
when somebody looks at it, is `CurrentState` with `SlotsInUse`, and `Observe` is
a look by anybody else. `failures` is counted up to the threshold, above which
the code does not tell numbers apart. `probes` is a history variable.

### RequestQueue

Clients (`GetResult`, `Deliver`, `TimeOut`), workers (`Take`, `Handled`,
`HandlerCancelled`, `Poll`, `Leave`, `Interrupt`), and whoever starts and stops the queue (`Start`,
`Stop`, `StopReturns`). `doomed` are workers that were cancelled and have not
noticed yet. A handler that raises `CancelledError` of its own accord
(`HandlerCancelled`) is not caught by `except Exception`: the task of its worker
ends, and its future stays pending (phase `lost`). Entries of equal priority leave the heap in any order, because the
entries compare by priority only. With `Overlap = FALSE` nobody calls `start`
while a `stop` is in progress.

### ConnectionPool

`_acquire`, `_release` and every public method, with what SQLite does to the
transaction of a connection (external code, written from how `connection.py`
uses it: sqlite3's legacy transaction mode, WAL, `busy_timeout` of 5 s). A
connection's transaction has mode `none`, `open` (begun, nothing read), `read`
(fixed to a snapshot) or `write` (has the lock). A row stands for what one
write statement does; an `execute_many` writes two, one statement after the
other, and may be rejected at the second with the first pending
(`ExecuteRejected`). `many` is the history of such calls, and `fate` for what its caller was told. `Cancel`
delivers `CancelledError`, which `except Exception` does not catch. The
`busy_timeout` is taken to be long enough for an `execute` that holds the lock
to commit (`Committing`), and to end for a lock nobody gives back.

### ColdStart

`Agent.initialize`, `DatabaseConnection.initialize` and `MigrationRunner.run`
for several starters on one file. A migration is `Parts` statements, each a
commit of its own, then a row in `schema_version`; at `Crash` the process dies
between any two. A member of `Direct` keeps its `DatabaseConnection` and
calls `initialize` on it again; an agent makes a new one.

### ScaleProofs, DatabaseProofs

The other modules with proofs are about one component each. These two are about
two components of one package: `src/agent_sdk/scale` (RequestQueue,
CircuitBreaker) and `src/agent_sdk/db` (ConnectionPool, ColdStart). They extend
both modules, which share neither variables nor definitions, so that every
theorem is about one of the two.

### MC modules

The MC modules declare the model values, the symmetry sets and, where a
constant is a function, its value: `MCApprovals` and `MCDurability` give every
session an owner of its own, `MCApprovals` also the rules. `InOrder` of `MCAgentRun`
is an action constraint of `agent_run_exclusive`: of two calls that are alike,
`r1` starts first, which leaves out nothing but a renaming. `Given`, one of
`agent_run_concurrent`, leaves out calls that have no input and are not resumed;
`agent_run_exclusive` has them. Symmetry is never used with a liveness property.

## 3. What the runs check

| Run | Properties | Instance |
|---|---|---|
| `agent_run_concurrent` | `RowsBelongToOwner`, `StepNumbersContiguous`, `OwnMessagesInOrder`, `EffectsAreRequested`, `ImplementsStepLog` | 2 calls by any of 2 users, 1 session, 2 steps, 1 tool call a step, an input or, when resumed, perhaps none, 1 fault, deletion |
| `agent_run_exclusive` | `CompletedCallIsDurable`, `PromptIsWellFormed`, `ResumeSkipsRecordedSteps`, `CallsEnd` | 2 calls of 1 user one after the other, 1 session, 2 steps, 2 tool calls a step, results that cannot be encoded, pauses, 1 fault |
| `agent_stream` | `RowsBelongToOwner`, `EffectsAreStored`, `StepsAreAnswered` | 2 tasks, 2 streams, 2 sessions, 2 users, 2 steps, 2 tool calls a step, no overlap |
| `claim_streams_keep_tenants_apart` | `RowsBelongToOwner`, refuted | the same, with overlap |
| `approvals` | `OwnersDecide`, `WaitersHearDecisions` | 2 waiters, 2 deciders, 2 users, 2 sessions, 2 rule sets, 2 polls |
| `durability` | `NothingIsSkipped`, `RecordedStepsAreNotRepeated`, `SessionsFinish` | 2 workers, 2 sessions of 2 users, 2 steps, 3 keys for 4 rows, so that users share one, 2 crashes |
| `memory` | `NothingIsLost`, `DeletesAreComplete`, `RecallFindsEverything` | 2 tasks, 2 sessions, 4 entries, 2 promotions, 1 death; limits 3 (promotion), 2 (clear), 3 and 1 (recall) |
| `admission` | `SlotsAreConserved`, `RateIsRespected`, `FittingRequestsAreServed` | 4 tasks, 4 requests of 2 or 3 tokens, rate 1, burst 2, 2 slots |
| `circuit_breaker` | `ClosedIsBelowThreshold`, `ProbesWithinLimit`, `HalfOpenEnds` | 3 callers, threshold 2, 2 probes, 1 retry, 1 cancellation, 1 reset |
| `request_queue` | `TypeOK`, `EntryInOnePlace`, `AnswersAreTrue`, `WorkersWithinLimit`, `AcceptedIsAnswered` | 2 requests, 1 place, 2 clients, 2 workers at a time of 4, a stop and a restart |
| `connection_pool` | `TypeOK`, `ConnectionsConserved`, `ReportsAreTrue`, `TransactionAtomic`, `UndisturbedReadsSeeCommits`, `CallsEnd` | 2 connections, 3 tasks, 4 calls, a failure, a cancellation, a close |
| `cold_start` | `RecordedMeansCreated`, `StartedFindsTables`, `StartSucceeds` | 3 starters, one of them `Direct`, 2 migrations of 2 statements, a crash, retries |

The type invariants of all modules are theorems (section 5); those of the queue
and of the pool, whose states hold the most, are properties of a run as well.

What they show, part by part:

*Agent.run.* However two calls of any users interleave with each other, with a
crash, an abort or a write cut off before its commit, and with the deletion of the session: no row of one tenant
gets into a session of another, although only the first read looks at the
owner; step numbers stay 1..n, because the UNIQUE constraint turns every
collision into an exception before it does harm; every tool execution has its
request in the history; and the steps table is the log of StepLog. As long as
no connection was left in a transaction, a call's own messages stay in order
although their numbers are counted in one statement and used in the next. If,
besides, callers run a session one call at a time, a COMPLETED result
is durable, with the outputs of its own call, a resumed call redoes no step
that is in the table, the model gets message lists an LLM API accepts as long
as no earlier call was cut short and the history fits its limit. Every call
ends, with connections left or not.

*Agent.stream.* If a task iterates one stream at a time, tenants stay apart
however streams are finished, closed, dropped, aborted or fail, although a
dropped stream leaves its user behind in the task. Every result a consumer saw
is stored, and of what ran only the last tool of a stream that died can be
missing. A step's calls are all answered before the next step begins.

*Approvals.* A waiter only hears decisions of the owner of its session,
whoever else knows the id of the request. If nobody decides twice, what it
heard is what the table says ever after, and it gives up only if the decision
came after its last poll (a time-out of 0 leaves no time for one).

*Durability.* Wherever workers die, and however many are on one session,
checkpoints have no gap, a resumed worker has every step before the one it goes
on with, no worker runs the tool of a step that was recorded when it called
`resume_from`, users who share keys never get each other's results, and every
worker finishes. Two workers on a session at the same time may both run a step
that neither found recorded; resuming one worker at a time rules that out.

*Memory.* No entry is lost to a promotion, to two of them, to a death in
between or to entries added meanwhile; what a promotion summarised has left the
buffer when it returns; a clear removes a page; and a recall within its limits
finds every entry while a promotion moves it.

*Admission.* Wherever tasks are cancelled no slot is lost, used twice or left
idle with a task waiting for it; no window of any length grants more than burst
and rate allow, with concurrent rounds and readers that refill; and a request
of at most the burst is served.

*Circuit breaker.* Late results never leave a closed circuit at its limit,
never close an open one and never let more than `half_open_max` probes be in
progress at a time;
without cancelled tasks every half-open period is decided.

*Request queue.* A request is in one place, is handled at most once, and
clients are told what the handler did, or that it was cancelled if somebody
cancelled it or stopped waiting for it; no more than `max_workers` workers run
as long as start and stop do not overlap. If the queue is not stopped, every
accepted request is answered whose own handler does not raise `CancelledError`,
unless as many handlers as there are workers did: one such handler costs a
worker and its own answer, and nobody else's.

*Connection pool.* No connection is lost or shared, however calls end; a write
that was reported is durable; an `execute` or a transaction that raised leaves
nothing behind, on its connection or in the file, and an `execute_many` that
raised may leave some of its rows, never all. With failing statements, but no cancellation, a
transaction is atomic, and until a shutdown every call ends. With neither, and
no transactions in the way, reads see all commits and writes go through.

*Start-up.* A recorded version never lies about the tables, whatever crashes or
races; an agent that started finds all tables; a starter that has the file to
itself is up in the end, whatever crashes left of the schema.

**Bounds and why they are enough.** The hazards are between two actors: two
calls with one step each, or one with two, already reach every ordering of a
read and a later write against every write of the other call. In
`agent_run_exclusive` the second call finds what the first left, complete or
cut short anywhere in two steps; what a third would find is again the tables
after such a call. Two users and one session make foreign sessions and
concurrent use of one's own both happen. One fault is enough to leave any
prefix of the commits of a call. Two streams either follow each other in a
task, the first finished or dropped, or run on one session in two tasks; a
step with two calls has a call that is not the last. Two polls give a decision before the
first, between them and after the last, and with two deciders there are a
second opinion and a foreign one. Two steps and two crashes let a resume find a
checkpointed step, a row without checkpoint (recorded or not) and none at all,
with a second worker ahead or behind; with more steps there is only more of the
same before the step a worker is at, and `DurabilityProofs` is about any number. Four entries are more than each limit of the
memory, and the limits differ, so that one binds where another does not. For
admission, four tasks fill two slots and leave two to be cancelled in the
queue, while a request of 3 is more than the burst. For the breaker a third
caller is needed for a late result during the second half-open period, and two
probes to tell "a slot" from "all slots". Two clients of the queue share a
request, the second request finds the only place taken, and two more workers
than `max_workers` could start if the code let them. For the pool two
connections distinguish the connection that failed from the one that is locked
out, a third task waits for a connection, and three rows distinguish a
transaction from an execute that follows on the same connection. For migrations
two versions of two parts make "the earlier version's tables" and "half of a
migration" both possible. The proofs of section 5 remove the bounds where they
exist. `MaxFaults`, `MaxCancels`, `MaxResets`, `MaxStops`, `MaxRejected`,
`MaxCloses`, `MaxTries`, `MaxCrashes`, `MaxDeaths`, `MaxPromotes`, `MaxItems`,
`MaxRequests`, `Horizon` and `MaxCalls` of the pool bound counters that the
program does not have; `MaxInputs` and `MaxCalls` of AgentRun and AgentStream
bound input sizes.

**Fairness.** AgentRun (`FairSpec`): a call in progress keeps going (`WF` of
`Proceed` or `LockedOut`), since the event loop runs ready tasks and the
database, the model's client and the tools answer or raise; a write that the
lock keeps out raises after `busy_timeout`. Nothing is assumed of new calls, users or
faults. Durability: the same of its workers. Admission: ticks go on, ready
tasks run, and what runs in a slot ends; weak fairness is enough because the
semaphore wakes its waiters in order. AgentStream, Approvals and Memory state
none and no liveness: a consumer may stop reading for ever. CircuitBreaker:
attempts and sleeps end, and, for `HalfOpenEnds`, callers keep calling; without
callers nobody would look at the circuit. RequestQueue: workers and woken
clients run, handlers end, somebody starts the queue. The entries leave the heap
by priority, so urgent requests without end would keep the others waiting for
ever; `Requests` is finite, and no freedom from that is claimed. ConnectionPool: threads
run statements, bodies of transactions end, `close` goes on; weak fairness of a
waiting task is enough because a newcomer may be served before it but the calls
of the instance are finite. `_acquire` gives no guarantee against an endless
stream of newcomers, and none is claimed; nor does `RateLimiter.acquire`, whose
requests are finite here too. ColdStart: when no starter runs, at first or
after a crash, somebody starts one, and those that are started run.

`CHECK_DEADLOCK FALSE` is set where the system really stops: all calls of the
pool's instance are made, all starters are up or have used their tries, all
workers of the queue are gone and its stops used up.
In AgentRun, AgentStream, Approvals and Durability an action `Quiet` stands
for a process without calls; in the other instances some step is always
possible.

Properties that do not hold without a condition carry it in their formula
(`cancels > 0`, `stops > 0`, `closes > 0`) or in a constant (`Exclusive`,
`Overlap`, `DecideOnce`).

## 4. Where the code and its documentation disagree

One run refutes a statement by what the code does (`expect: violation`; the
quotation is under `findings` in `PROJECT.json`):
`claim_streams_keep_tenants_apart`. The user of a stream is a ContextVar of the
task that pulls it. A task that pulls two streams of two users in turn stores
messages of one in the session of the other, under the wrong user id.

The following were met while modelling. They are what the actions named do,
and no run is kept for them.

`Agent.run` and its tables:

- `run` on a session that has steps, without `resume`, numbers its steps from 1
  again and ends in an IntegrityError: after the first completed answer a
  session can only be continued with `resume=True` (`PersistFails`);
- the "last completed step" (`agent.py:152`) is the latest row whatever its
  status; the step of a pending row is skipped and stays pending (`ReadLatest`);
- a call that dies in a tool leaves no step row, because the row is inserted
  after the tools, so `detect_incomplete` does not find it, and a resumed call
  runs the tools of that step again; `IdempotencyTracker` is not consulted
  (`ExecuteTool`, `PersistStep`; `ARCHITECTURE.md:1159` says otherwise);
- a paused session is continued without `resume=True`, and a call in progress
  overwrites "paused" with "completed" (`LoadSession`, `CloseSession`;
  `exceptions.py:23`);
- a call cancelled between a statement and its commit leaves the row pending on
  a pooled connection, where it locks the others out and lands with a later
  commit. When that is the row of `StepRepository.create`, the resumed call may
  have looked for the latest step on another connection before the row lands,
  and then runs the tools of a step that is in the table (`CutOff`, `Land`; TLC
  finds it when `~disturbed` is dropped from `ResumeSkipsRecordedSteps`). An
  INSERT that a constraint rejects leaves the transaction too, without a row
  (`InsertFails`, `PersistFails`): later writes of any call on other connections
  fail with "database is locked" (`LockedOut`);
- two calls on one session at once: the final branch of one may complete the
  step the other has just added (`ReadLastStep`);
- the history is cut at `limit` from its old end, so that in a long session the
  model does not see the newest message (`History`);
- two calls on one session at once give two messages one ordinal
  (`CountMessages`, `InsertMessage`);
- `truncate` keeps the greatest ordinals while `append` numbers by the count, so
  that after it later messages sort before the kept ones; with it
  `OwnMessagesInOrder` would be false. Nothing in the SDK calls it.

`Agent.stream`:

- the fragments of a streamed tool call that carry no name, which hold the rest
  of its arguments, are passed on but not collected (`PassOnChunk`);
- `chat_stream` yields a "done" after every answer of the model, so a consumer
  that stops at the first one never sees the tools run (`AnswerEnds`);
- a dropped stream leaves its user in the context of the task (`Drop`).

Governance:

- ADMIN_SIGNOFF, "Require admin approval" (`ARCHITECTURE.md:600`), cannot be
  served by an administrator who is another user: the UPDATE is scoped to the
  user who asked (`OwnersDecide` holds for this policy too);
- `PolicyRule.condition` is never looked at (`Evaluate`), and `Agent` evaluates
  no policy at all;
- an EXPIRED request is returned to the waiter like an approved one (`Poll`);
- a foreign `resolve` changes nothing but answers with the decision it was
  given (`AnswerReread`), the endpoint with "resolved" (`AnswerResolved`);
- a decided request can be decided again, or set back to pending (`UpdateRow`);
- a session that ever asked for an approval cannot be deleted, because the
  foreign key has no ON DELETE CASCADE (`DeleteSession`).

Durability and memory:

- `load_latest`, documented as the last completed checkpoint, looks at the
  latest row only; if that has none, `resume_from` starts at step 1 although
  earlier checkpoints are there (`LoadLatest`);
- a key another user has recorded is ignored by `record`, so that the step is
  run again after a crash (`RecordKey`); that is why `recorded` counts a step
  only when its own session is under the key;
- every `Step` and every step row draws a fresh `uuid4` as its key (`step.py:31`,
  `step_repo.py:33`), and nothing says where to keep it: a caller that does not
  insert the row first and read the key back from it misses its own record after
  a crash, and runs the tool again (`idempotency.py:18` says it is not);
- `check` and `record` are two statements around the tool: two workers on one
  session may both run a step (`idempotency.py:1` says duplicates are
  prevented), which is why `RecordedStepsAreNotRepeated` is about what was
  recorded when a worker resumed;
- `IdempotencyTracker.clear` under a worker that still looks keys up makes it
  repeat recorded steps (excluded by the guard of `ClearKeys`);
- `clear` of the memory removes the first page of rows only, and no summary,
  because a summary has no `session_id` (`ReadPage`; `memory.py:112` says all).

Scale and database:

- a cancelled probe keeps its slot; with one slot the circuit rejects every
  call from then on (`HalfOpenEnds` is conditional on no cancellation);
- `with_retry` inside the breaker goes on while the circuit is open
  (`TryAgain`; `ARCHITECTURE.md:1210`);
- a request for more tokens than `burst` sleeps for ever (`Round`), and
  `ConcurrencyPool.available` counts slots already given to tasks that have not
  run yet;
- a handler that raises `CancelledError` kills its worker for good, and the
  client waits until its own time-out (`HandlerCancelled`, `queue.py:114`); once
  every worker is gone the queue still says it runs;
- a cancelled request is still handled, a `stop` leaves the queue's entries
  behind with pending futures (`queue.py:87` says it drains the queue), one client's time-out cancels the request for
  the others, and workers started during a `stop` are forgotten (`Cancel`,
  `StopReturns`, `TimeOut`, `Start` with `Overlap = TRUE`);
- `execute` does not roll back: one rejected INSERT leaves a pooled connection
  in a transaction, which locks others out or reads an old snapshot for good
  (`UndisturbedReadsSeeCommits` carries that condition);
- an `execute_many` that fails at a later row has raised, but its earlier rows
  stay pending and come into the table with the next commit on the connection
  (`ExecuteRejected`, `CommitsAll`); `ReportsAreTrue` says so;
- a task cancelled in the body of `transaction()` leaves half of it for another
  call to commit; `close` strands callers in `_acquire` and misses connections
  in use (`Cancel`, `CloseReturns` of ConnectionPool);
- of two starters on a new file one raises, and `initialize` after a failed
  one returns at once, without tables (`RecordRejected`, `Start` of ColdStart).

## 5. What is proved

For every value of the constants that satisfies the named assumptions
(`BoundAssumption`, `LimitAssumption`, ... in the modules), TLAPS checks the
following. Every proof rests on an inductive invariant that says what a
coroutine may rely on between the statement that read a value and the one that
uses it.

| Theorem | States | Argument |
|---|---|---|
| `AgentRunProofs!TypeCorrect` | `[]TypeOK` | `TypeInv`: `TypeOK` is not inductive alone. That `ORDER BY ... LIMIT 1` has a result needs a greatest step number, hence `StepsBounded`: there is a bound on all numbers in the table. `LeftTyped`: a write left on a connection is that of a call that has raised, so its locals change no more and say what will land |
| `RowsGoWithSession` | `[]NoOrphanRows` | `HandedOut`: the session of every call past its creation has been handed out and is never unused again |
| `StepNumbersStayContiguous` | `[]StepNumbersContiguous` | `StepsInv`: every call, also one that left its step row behind, knows that the steps up to its own are there or the session is gone; inserting at one past that keeps 1..n, and UNIQUE keeps it single |
| `TenantsStayApart` | `[]RowsBelongToOwner` | `OwnerInv`: past the load, a call's user is the owner of its session while it exists, and a deleted session never comes back |
| `MessagesStayInOrder` | `[]OwnMessagesInOrder` | `disturbed` or `OrderInv` (a connection that was left stays so, `DisturbedStays`, and without one nothing lands): no ordinal exceeds the number of rows of its session, and the count a call holds between its two statements is no less than the ordinal of any message of its own |
| `EffectsStayRequested` | `[]EffectsAreRequested` | `EffectsInv`: a call at its tools has the request for all of them in the history while its session exists, because a history only grows or goes as a whole |
| `StepsTableIsALog` | `Spec => ImplementsStepLog` | from `StepsInv`: the rows of a session are a sequence 1..n, so `PersistStep`, or the landing of a row, appends, `MarkStep` rewrites one entry or none, and nothing else but a deletion touches them |
| `ResumedCallsGoOn` (`Exclusive`) | `ResumeSkipsRecordedSteps` | `AloneInv`: no two calls in progress have the same session; `ResumesLast`: so the number a resumed call read stays the newest of its session until the call adds the next; or some connection was left in a transaction, which the property excludes |
| `CompletedCallsStayDurable` (`Exclusive`) | `[]CompletedCallIsDurable` | `StoredInv`: the steps a call has finished are rows of its session, completed and written by it, up to the one it is at; the row it is about to mark is its own because nobody else inserts one; or `disturbed` |
| `PromptsStayWellFormed` (`Exclusive`) | `[]PromptIsWellFormed` | `PlacesInv`: ordinals are places, since the count a call holds is still right when it inserts, so `ORDER BY ordinal` is the order of arrival; `DialogueInv`: in a session without a call cut short every request is answered in full before the next message, except the one whose tools are running, and that one as far as the call is; or `disturbed` |
| `AgentStreamProofs!TypeCorrect` | `[]TypeOK` | with any overlap |
| `EffectsStayStored`, `StepsStayAnswered` | `[]EffectsAreStored`, `[]StepsAreAnswered` | with any overlap. `Effects` says for every stream, by where it is, which requests and results of which of its steps are in the history (`StepsKept`, `ThinkingKept`, `ActingKept`) and what a stream that was cut may lack (`CutKept`). Every action is first shown to be one of the `Moves` (stores, executes, returns, ...), which are all that the invariant can tell apart |
| `StreamsKeepTenantsApart`, `ScopeStaysAccounted` (`Overlap = FALSE`) | `[]RowsBelongToOwner`; a user left in a task is that of a dropped stream | at most one stream of a task is in progress (`OneStream`), so the scope of its task is its user from the first pull on (`StreamsFit`), and past the load that is the owner of its session |
| `ApprovalsProofs!TypeCorrect`, `OnlyOwnersDecide`, `RequestsHoldSessions` | `[]OwnersDecide`; no request without its session | the scope of the UPDATE, and that a row keeps its session and user |
| `WaitersStayInformed` (`DecideOnce`, `Timeout # 0`) | `[]WaitersHearDecisions` | `DecidersFit`: a decision in the table is that of a decider past its UPDATE, and its user makes no other; `Heard`: what a waiter was told is what the row says, and what is decided while it sleeps is late or will be heard. With a timeout of 0 nobody polls, and a decision made before is missed |
| `DurabilityProofs!TypeCorrect`, `ResumeSkipsNothing`, `ResultsStayOwn`, `RecordedRunOnce` | `[]NothingIsSkipped`, `[]ResultsAreOwn`, `RecordedStepsAreNotRepeated` | `IInv`: a worker at step n has n - 1 checkpoints behind it (`WorkersOK`); no two rows of a user have one key (`RowsHaveKeys`), so the session under a key is its user's only if the key is that of the row; and what was recorded stays under the key of its row until the session is finished, when nobody has anything to run (`RecordsAreKept`) |
| `MemoryProofs!TypeCorrect`, `NothingGetsLost`, `RecallIsComplete` | `[]NothingIsLost`, `[]RecallFindsEverything` | `TasksOK`: what a promotion is about to delete is in a summary, and what a recall has not found yet is still to be found in one; `BufferWasAdded`: an id is never given twice |
| `DeletesStayComplete` | `[]DeletesAreComplete` | for promotions from `TasksOK`; for clears `ClearOK`: the rows a clear has deleted stay gone, and they are its whole page. That a page which is not the whole session has as many rows as the limit (`PageIsFull`) needs the newest row that is not in it, a largest element of a set of ids (`LargestOf`) |
| `AdmissionProofs!TypeCorrect`, `SlotsStayConserved`, `RateStaysRespected` | the invariants of `admission` | `FuturesFit`, `QueueFits`: futures and queue agree with where tasks are; that a first pending future exists is an argument by a smallest element; `RateInv`: backlog and bucket together never exceed the burst |
| `ScaleProofs!QueueTypeCorrect`, `EntriesStayInOnePlace` | `[]TypeOK`, `[]EntryInOnePlace` of RequestQueue | `EntryInv`: a worker is at its handler exactly when it holds an entry (`HandlersFit`), only workers that are there are cancelled (`DoomedAreThere`), and a request nobody submitted has no future, result or client (`KnownIsSubmitted`) |
| `AnswersStayTrue` | `[]AnswersAreTrue` | every action leaves futures that are done alone (`DoneStays`), since `set_result`, `set_exception` and `cancel` all look at `done()` first; `CancelsExplained`: a cancelled future was cancelled by `cancel` or by a client that timed out |
| `WorkersStayWithinLimit` (`~Overlap`) | `[]WorkersWithinLimit` | `WorkersInv`: the list holds every worker there is, a `stop` in progress waits for all of them, and between a `stop` and a `start` there are none. With an overlap the first part fails: `stop` clears a list that has new workers |
| `BreakerTypeCorrect`, `OpensInTime`, `ProbesAreLimited`, `AllAttemptsAreMade` | the invariants of `circuit_breaker`, and that `with_retry` gives up only after all attempts (`RetriesAreUsedUp`) | `BreakerInv`: taken slots cover the probes in progress (so probes are limited because slots are); `RetryOK`: a caller between attempts has one left |
| `LateResultsDoNotClose` | `OpenIsLeftByTimeout`: an open circuit is left by its timeout or a reset only | each action, from the type invariant |
| `DatabaseProofs!PoolTypeCorrect`, `ConnectionsStayConserved` | `[]TypeOK`, `[]ConnectionsConserved` of ConnectionPool | `ConnFits`: a task has a connection from `_acquire` to `_release`; `PoolInv`: no connection is in two places (`Distinct`), each is in one (`Covered`), and the numbers add up (`Counted`) |
| `ReportsStayTrue` | `[]ReportsAreTrue` | `RowsInv`: a row is asked for by one task at most (`RowsAsked`); what a connection has pending belongs to the task that uses it, to a cancelled one or to an `execute_many` that failed (`PendingExplained`), so that a later COMMIT on that connection takes along no row of a failed `execute` or transaction (`CommittedExplained`); an `execute_many` that failed lacks a row for good (`ManyPartial`); what was reported is committed (`DoneIsCommitted`) |
| `TransactionsStayAtomic` | `[]TransactionAtomic` | `BatchesWhole`: the rows of one `transaction()` share their fate, and without a cancellation (`FaultsCounted`) a row is committed exactly when its fate is to be done |
| `ReadsSeeCommits` | `UndisturbedReadsSeeCommits` | `Orderly`: undisturbed, the only open transaction is that of an `execute` about to commit, so the statement of a fetch starts on a clean connection and reads the file as it is |
| `StartersTypeCorrect`, `VersionsAreReliable`, `StartIsComplete` | the invariants of `cold_start` | `StartInv`: recorded versions have no gap (`NoGap`), each has its tables (`Complete`), a starter in the loop has everything before its place behind it (`InLoop`), one that is done has it all (`Done`) |

A name in parentheses is an assumption of the theorem: the discipline of callers
under which the property is meant, with what the code does without it in
section 4. The workers of the queue, the connections of the pool and the tasks
of Admission are finitely many (`WorkersAssumption`, `ConnsAssumption`,
`TaskAssumption`), because what is proved about them counts them; of the other
sets of actors nothing of the kind is assumed.

Every safety and action property that a run checks is stated by one of these
theorems. Only model-checked: liveness (`CallsEnd` of AgentRun and of
ConnectionPool, `SessionsFinish`, `FittingRequestsAreServed`, `HalfOpenEnds`,
`AcceptedIsAnswered`, `StartSucceeds`), which like ENABLED is out of the
prover's reach. No module uses a RECURSIVE operator, and nothing here needs
induction over data; both would be out of the prover's reach too.

What the proofs and the checks take for granted: code between two awaits is
atomic; `uuid4` does not repeat; SQLite keeps what was committed, enforces its
constraints and serialises writers, as ConnectionPool writes it down; a
connection the modules other than ConnectionPool and AgentRun get has no open
transaction, and a read of AgentRun sees earlier commits (the
properties with `disturbed` claim nothing once a connection was left, and the
others do not depend on it, section 2); asyncio's semaphore
and ContextVars do what Admission and AgentStream write down.

## 6. Not modelled, and what could follow

Left out for good: wording and layout of prompts, tool schemas, logging,
configuration; the HTTP, MCP and LLM adapters beyond what they can return; the
knowledge store, the audit log and the service registry, whose operations are
one statement each on rows that nothing relates to each other; the validator of
`isolation/`, which has no state and no caller; `HistoryManager.truncate`, which
has no caller and whose effect on the order of messages section 4 describes.

What remains of interest: abstract specifications of the pool (a set of
committed rows) and of the queue (each accepted request is answered once), with
the modules as refinements; runs and streams on one session at once, and
sessions deleted under a stream.
