------------------------------ MODULE AgentRun ------------------------------
(***************************************************************************)
(* Agent.run of src/agent_sdk/core/agent.py over the sessions, messages    *)
(* and steps tables.  A member of Runs is one call of Agent.run: an        *)
(* asyncio task with the locals of the coroutine.  Every await of the code *)
(* is one action, so that calls of any users interleave between any two    *)
(* awaits; each database call is one statement committed on its own, as    *)
(* DatabaseConnection.execute does, unless it is cut off before its commit *)
(* or rejected: the pooled connection then stays in a write transaction,   *)
(* which locks the others out, and what is pending on it lands with its    *)
(* next commit, whoever does it.  A read is taken to see all earlier       *)
(* commits.  A connection that was locked out may go on reading an old     *)
(* version (ConnectionPool), so what depends on how recent a read is, is   *)
(* stated for as long as no connection was left like this (disturbed).     *)
(***************************************************************************)
EXTENDS Integers, Sequences, FiniteSets

CONSTANTS
    Runs,           \* calls of Agent.run
    Sessions,       \* session ids; uuid4().hex never repeats
    Users,          \* user ids
    NoUser,         \* the owner of a session id nobody has used
    NoSession,      \* the session id of a call that has none yet
    MaxSteps,       \* the max_steps of a call
    MaxInputs,      \* bound: messages in the input of a call
    MaxCalls,       \* bound: tool calls in one response of the LLM
    HistoryLimit,   \* the limit= given to get_history (200 in the code)
    MaxFaults,      \* bound: aborts, cut-off writes and process crashes
    Outcomes,       \* of a tool, as far as json.dumps cares
    AdminOps,       \* what users do to sessions while calls are in progress
    Exclusive       \* TRUE: callers never run one session twice at a time

ASSUME UserAssumption    == NoUser \notin Users
ASSUME SessionAssumption == NoSession \notin Sessions
ASSUME BoundAssumption   == /\ MaxSteps \in Nat \ {0}
                            /\ MaxInputs \in Nat
                            /\ MaxCalls \in Nat
                            /\ HistoryLimit \in Nat
                            /\ MaxFaults \in Nat
ASSUME ChoiceAssumption  == /\ Outcomes \subseteq {"plain", "unserializable"}
                            /\ AdminOps \subseteq {"paused", "active", "archived", "deleted"}
                            /\ Exclusive \in BOOLEAN

VARIABLES
    status,     \* sessions.status of each id; "unused"/"deleted": no such row
    owner,      \* sessions.user_id
    messages,   \* rows of the messages table of each session, oldest first
    steps,      \* rows of the steps table
    executed,   \* history: the tool executions and the calls that did them
    pc,         \* the await each call is at, or how it ended
    run,        \* the locals of each call; count and prompt last as long as
                \* the append and the call of the LLM they are read for
    left,       \* the writes of ended calls that were executed, not committed
    disturbed,  \* history: some connection was left in a transaction
    faults      \* aborts, cut-off writes and crashes so far

vars == <<status, owner, messages, steps, executed, pc, run, left, disturbed, faults>>

-----------------------------------------------------------------------------

Roles == {"input", "assistant", "tool"}

Ended == {"completed", "failed", "notFound", "raised", "crashed"}

Awaits == {"create", "load", "unpause", "latest", "count", "insert", "history", "llm",
           "tools", "persist", "reread", "lastStep", "mark", "close"}

(* The awaits of DatabaseConnection.execute. *)
Writes == {"create", "unpause", "insert", "persist", "mark", "close"}

Live(t) == pc[t] \in Awaits

(* A row of messages.  Its content is told apart by the call, the step and *)
(* the place within the step it comes from; calls is the number of tool    *)
(* calls an assistant message asks for.                                    *)
Message == [ordinal: Nat, user: Users, role: Roles, by: Runs, step: Nat, call: Nat, calls: Nat]

(* A row of steps: out is the call whose output update_status stored.  The *)
(* id column is left out: UNIQUE(session_id, step_number) identifies a row.*)
StepRow == [sid: Sessions, num: Nat, user: Users, status: {"pending", "completed"},
            by: Runs, out: SUBSET Runs]

Locals == [user: Users \cup {NoUser}, sid: Sessions \cup {NoSession},
           mode: {"new", "continue", "resume"}, inputs: Nat, base: Nat, k: Nat,
           phase: Roles, next: Nat, count: Nat, calls: Nat, results: Seq(Outcomes),
           target: Nat, prompt: SUBSET Nat]

Exists(s) == status[s] \notin {"unused", "deleted"}

(* PRAGMA foreign_keys=ON: rows need the row of their session. *)
ParentExists(s)  == Exists(s)

(* ScopedQueryBuilder.select("sessions", where id = s) in the scope of u. *)
AnyUsersSession(s, u) == Exists(s)              \* mutant: the scope is not applied
VisibleSession(s, u)  == Exists(s) /\ owner[s] = u

(* The step rows of s that a query in the scope of u returns. *)
StepsOf(s, u) == {r \in steps : r.sid = s /\ r.user = u}

Numbers(rows) == {r.num : r \in rows}

EarliestNumber(rows) ==                         \* mutant: ASC for DESC
    IF rows = {} THEN 0
    ELSE CHOOSE n \in Numbers(rows) : \A m \in Numbers(rows) : n <= m

(* ORDER BY step_number DESC LIMIT 1, the number 0 standing for no row. *)
LatestNumber(rows) ==
    IF rows = {} THEN 0
    ELSE CHOOSE n \in Numbers(rows) : \A m \in Numbers(rows) : m <= n

(* step.step_number: (resumed_from_step or 0) + step_num. *)
StepNumber(t) == run[t].base + run[t].k

(* The messages a call appends one after the other: its input, then in     *)
(* every step the answer of the LLM, then the results of the tools.        *)
OneResult(t) == IF run[t].phase = "input" THEN run[t].inputs ELSE 1   \* mutant
PhaseSize(t) == CASE run[t].phase = "input"     -> run[t].inputs
                  [] run[t].phase = "assistant" -> 1
                  [] run[t].phase = "tool"      -> run[t].calls

(* SELECT COUNT( * ) FROM messages WHERE session_id = s. *)
DialogueRows(s) ==                              \* mutant: tool messages do not count
    Cardinality({i \in DOMAIN messages[s] : messages[s][i].role # "tool"})
CountedRows(s)  == Len(messages[s])

(* HistoryManager.append numbers a message one past the count it read. *)
NewOrdinal(t) == run[t].count + 1

NewMessage(t) ==
    [ordinal |-> NewOrdinal(t),
     user    |-> run[t].user,
     role    |-> run[t].phase,
     by      |-> t,
     step    |-> IF run[t].phase = "input" THEN 0 ELSE StepNumber(t),
     call    |-> run[t].next,
     calls   |-> IF run[t].phase = "assistant" THEN run[t].calls ELSE 0]

(* ORDER BY ordinal ASC: equal ordinals come in the order of insertion.    *)
(* Rank is the place of the i-th inserted row in that order, from 0.       *)
Precedes(s, i, j) == \/ messages[s][i].ordinal < messages[s][j].ordinal
                     \/ messages[s][i].ordinal = messages[s][j].ordinal /\ i < j

Rank(s, i) == Cardinality({j \in DOMAIN messages[s] : Precedes(s, j, i)})

(* HistoryManager.get: the rows that ORDER BY ordinal ASC LIMIT keeps. *)
History(s) == {i \in DOMAIN messages[s] : Rank(s, i) < HistoryLimit}

-----------------------------------------------------------------------------

Init ==
    /\ status = [s \in Sessions |-> "unused"]
    /\ owner = [s \in Sessions |-> NoUser]
    /\ messages = [s \in Sessions |-> <<>>]
    /\ steps = {}
    /\ executed = {}
    /\ pc = [t \in Runs |-> "idle"]
    /\ run = [t \in Runs |->
                [user |-> NoUser, sid |-> NoSession, mode |-> "new", inputs |-> 0, base |-> 0,
                 k |-> 1, phase |-> "input", next |-> 1, count |-> 0, calls |-> 0,
                 results |-> <<>>, target |-> 0, prompt |-> {}]]
    /\ left = {}
    /\ disturbed = FALSE
    /\ faults = 0

Goto(t, p) == pc' = [pc EXCEPT ![t] = p]

Locally(t, locals) == run' = [run EXCEPT ![t] = locals]

UnchangedTables == UNCHANGED <<status, owner, messages, steps>>

UnchangedConnections == UNCHANGED <<left, disturbed>>

(* The write lock is free, or on the connection that is about to write and *)
(* what was left on it lands first.                                        *)
MayWrite == left = {}

(* A caller that keeps the discipline Exclusive stands for starts a call   *)
(* on a session only when no other call on it is in progress.              *)
MayRun(s) == Exclusive => \A o \in Runs : ~(Live(o) /\ run[o].sid = s)

(* Bound: a call that creates a session finds an id of Sessions left. *)
IdsLeft == Cardinality({o \in Runs : pc[o] = "create" \/ [by |-> o, at |-> "create"] \in left})
             < Cardinality({s \in Sessions : status[s] = "unused"})

(* run(user_id, input): set_user_scope, then create the session.  Without  *)
(* a session_id, resume is ignored.                                        *)
StartNew(t, u, n) ==
    /\ pc[t] = "idle"
    /\ IdsLeft
    /\ Locally(t, [run[t] EXCEPT !.user = u, !.inputs = n])
    /\ Goto(t, "create")
    /\ UnchangedTables
    /\ UNCHANGED <<executed, faults>>
    /\ UnchangedConnections

(* run(user_id, input, session_id=s, resume=...) by anybody, on any id     *)
(* that was handed out.  RecoveryManager.auto_resume is the case of mode   *)
(* "resume" with no input and the owner of s as the user.                  *)
StartOn(t, u, n, s, m) ==
    /\ pc[t] = "idle"
    /\ status[s] # "unused"
    /\ MayRun(s)
    /\ Locally(t, [run[t] EXCEPT !.user = u, !.inputs = n, !.sid = s, !.mode = m])
    /\ Goto(t, "load")
    /\ UnchangedTables
    /\ UNCHANGED <<executed, faults>>
    /\ UnchangedConnections

(* SessionRepository.create under a fresh id; the row is read back next. *)
CreateSession(t, s) ==
    /\ pc[t] = "create"
    /\ MayWrite
    /\ status[s] = "unused"
    /\ status' = [status EXCEPT ![s] = "active"]
    /\ owner' = [owner EXCEPT ![s] = run[t].user]
    /\ Locally(t, [run[t] EXCEPT !.sid = s])
    /\ Goto(t, "load")
    /\ UNCHANGED <<messages, steps, executed, faults>>
    /\ UnchangedConnections

(* The await that follows once the session is set up. *)
AfterSetup(t) == IF run[t].inputs = 0 THEN "history" ELSE "count"

(* Mutant of LoadSession: a call waits until the session is not paused. *)
WaitForSession(t) ==
    /\ pc[t] = "load"
    /\ status[run[t].sid] # "paused"
    /\ Goto(t, IF VisibleSession(run[t].sid, run[t].user) THEN AfterSetup(t) ELSE "notFound")
    /\ UnchangedTables
    /\ UNCHANGED <<executed, run, faults>>
    /\ UnchangedConnections

(* SessionRepository.get_by_id.  A missing row is SessionNotFoundError;    *)
(* after create it is Session.from_row(None), an AttributeError.           *)
LoadSession(t) ==
    /\ pc[t] = "load"
    /\ Goto(t, IF ~VisibleSession(run[t].sid, run[t].user)
               THEN IF run[t].mode = "new" THEN "raised" ELSE "notFound"
               ELSE IF run[t].mode # "resume" THEN AfterSetup(t)
               ELSE IF status[run[t].sid] = "paused" THEN "unpause" ELSE "latest")
    /\ UnchangedTables
    /\ UNCHANGED <<executed, run, faults>>
    /\ UnchangedConnections

(* SessionRepository.update_status in the scope of the call: no row, no    *)
(* change and no error.                                                    *)
StatusUpdate(t, st) ==
    LET s == run[t].sid IN
    status' = IF VisibleSession(s, run[t].user) THEN [status EXCEPT ![s] = st] ELSE status

(* Session.resume of a session that was loaded as paused. *)
Unpause(t) ==
    /\ pc[t] = "unpause"
    /\ MayWrite
    /\ StatusUpdate(t, "active")
    /\ Goto(t, "latest")
    /\ UNCHANGED <<owner, messages, steps, executed, run, faults>>
    /\ UnchangedConnections

(* resumed_from_step is the number of the latest step row, whatever its    *)
(* status.                                                                 *)
ReadLatest(t) ==
    /\ pc[t] = "latest"
    /\ Locally(t, [run[t] EXCEPT !.base = LatestNumber(StepsOf(run[t].sid, run[t].user))])
    /\ Goto(t, AfterSetup(t))
    /\ UnchangedTables
    /\ UNCHANGED <<executed, faults>>
    /\ UnchangedConnections

-----------------------------------------------------------------------------
(* Session.add_message: HistoryManager.append counts, then inserts. *)

(* json.dumps(tr.output) of the tool message about to be appended. *)
Unencodable(t) == /\ run[t].phase = "tool"
                  /\ run[t].results[run[t].next] = "unserializable"

EncodeFails(t) ==
    /\ pc[t] = "count"
    /\ Unencodable(t)
    /\ Goto(t, "raised")
    /\ UnchangedTables
    /\ UNCHANGED <<executed, run, faults>>
    /\ UnchangedConnections

CountMessages(t) ==
    /\ pc[t] = "count"
    /\ ~Unencodable(t)
    /\ Locally(t, [run[t] EXCEPT !.count = CountedRows(run[t].sid)])
    /\ Goto(t, "insert")
    /\ UnchangedTables
    /\ UNCHANGED <<executed, faults>>
    /\ UnchangedConnections

(* The await after the last message of a phase. *)
AfterPhase(t) == CASE run[t].phase = "input" -> "history"
                   [] run[t].phase = "assistant" -> IF run[t].calls = 0 THEN "persist" ELSE "tools"
                   [] run[t].phase = "tool" -> "persist"

InsertMessage(t) ==
    /\ pc[t] = "insert"
    /\ MayWrite
    /\ ParentExists(run[t].sid)
    /\ messages' = [messages EXCEPT ![run[t].sid] = Append(@, NewMessage(t))]
    /\ IF run[t].next < PhaseSize(t)
       THEN /\ Locally(t, [run[t] EXCEPT !.count = 0, !.next = @ + 1])
            /\ Goto(t, "count")
       ELSE /\ Locally(t, [run[t] EXCEPT !.count = 0, !.next = 1])
            /\ Goto(t, AfterPhase(t))
    /\ UNCHANGED <<status, owner, steps, executed, faults>>
    /\ UnchangedConnections

(* The foreign key of messages: the session was deleted meanwhile.  The    *)
(* transaction sqlite3 began for the INSERT stays open.                    *)
InsertFails(t) ==
    /\ pc[t] = "insert"
    /\ ~ParentExists(run[t].sid)
    /\ Goto(t, "raised")
    /\ UnchangedTables
    /\ UNCHANGED <<executed, run, faults>>
    /\ disturbed' = TRUE
    /\ UNCHANGED left

-----------------------------------------------------------------------------
(* The step loop. *)

ReadHistory(t) ==
    /\ pc[t] = "history"
    /\ Locally(t, [run[t] EXCEPT !.prompt = History(run[t].sid)])
    /\ Goto(t, "llm")
    /\ UnchangedTables
    /\ UNCHANGED <<executed, faults>>
    /\ UnchangedConnections

(* An exception of chat() ends the call with a FAILED result; nothing of   *)
(* the step is persisted.                                                  *)
LLMFails(t) ==
    /\ pc[t] = "llm"
    /\ Goto(t, "failed")
    /\ UnchangedTables
    /\ UNCHANGED <<executed, run, faults>>
    /\ UnchangedConnections

(* Mutant of LLMAnswers: the tools run before the answer is in the history. *)
ToolsFirst(t, n) ==
    /\ pc[t] = "llm"
    /\ Locally(t, [run[t] EXCEPT !.phase = "assistant", !.calls = n, !.results = <<>>])
    /\ Goto(t, IF n = 0 THEN "count" ELSE "tools")
    /\ UnchangedTables
    /\ UNCHANGED <<executed, faults>>
    /\ UnchangedConnections

(* The answer asks for n tool calls; n = 0 is the final output. *)
LLMAnswers(t, n) ==
    /\ pc[t] = "llm"
    /\ Locally(t, [run[t] EXCEPT !.phase = "assistant", !.calls = n, !.results = <<>>,
                                 !.prompt = {}])
    /\ Goto(t, "count")
    /\ UnchangedTables
    /\ UNCHANGED <<executed, faults>>
    /\ UnchangedConnections

(* One tool call: a tool that is not registered or raises gives an error   *)
(* result, which is as serializable as any plain one.                      *)
ExecuteTool(t, o) ==
    LET done == Len(run[t].results) + 1 IN
    /\ pc[t] = "tools"
    /\ executed' = executed \cup
         {[sid |-> run[t].sid, num |-> StepNumber(t), call |-> done, by |-> t]}
    /\ IF done < run[t].calls
       THEN /\ Locally(t, [run[t] EXCEPT !.results = Append(@, o)])
            /\ UNCHANGED pc
       ELSE /\ Locally(t, [run[t] EXCEPT !.results = Append(@, o), !.phase = "tool"])
            /\ Goto(t, "count")
    /\ UnchangedTables
    /\ UNCHANGED faults
    /\ UnchangedConnections

Taken(s, n) == \E r \in steps : r.sid = s /\ r.num = n

NewStepRow(t) == [sid |-> run[t].sid, num |-> StepNumber(t), user |-> run[t].user,
                  status |-> "pending", by |-> t, out |-> {}]

(* UNIQUE(session_id, step_number) of the steps table. *)
NoConstraint(t) == FALSE                        \* mutant: the constraint is missing
Duplicate(t) == Taken(run[t].sid, StepNumber(t))

(* Mutant of PersistStep: INSERT OR REPLACE. *)
ReplaceStep(t) ==
    /\ pc[t] = "persist"
    /\ MayWrite
    /\ ParentExists(run[t].sid)
    /\ steps' = {r \in steps : r.sid # run[t].sid \/ r.num # StepNumber(t)} \cup {NewStepRow(t)}
    /\ Goto(t, "reread")
    /\ UNCHANGED <<status, owner, messages, executed, run, faults>>
    /\ UnchangedConnections

(* StepRepository.create inserts the row of the step that was just done... *)
PersistStep(t) ==
    /\ pc[t] = "persist"
    /\ MayWrite
    /\ ParentExists(run[t].sid)
    /\ ~Duplicate(t)
    /\ steps' = steps \cup {NewStepRow(t)}
    /\ Goto(t, "reread")
    /\ UNCHANGED <<status, owner, messages, executed, run, faults>>
    /\ UnchangedConnections

(* ... unless the foreign key or UNIQUE(session_id, step_number) is        *)
(* violated: aiosqlite.IntegrityError leaves Agent.run, and the connection *)
(* goes back to the pool in its write transaction.                         *)
PersistFails(t) ==
    /\ pc[t] = "persist"
    /\ ~ParentExists(run[t].sid) \/ Duplicate(t)
    /\ Goto(t, "raised")
    /\ UnchangedTables
    /\ UNCHANGED <<executed, run, faults>>
    /\ disturbed' = TRUE
    /\ UNCHANGED left

(* create returns get_by_id: the row, or None if the session was deleted,  *)
(* which the final branch does not look at.                                *)
RereadStep(t) ==
    /\ pc[t] = "reread"
    /\ Locally(t, [run[t] EXCEPT !.target = StepNumber(t)])
    /\ Goto(t, CASE run[t].calls = 0 -> "lastStep"
                 [] run[t].calls # 0 -> IF Taken(run[t].sid, StepNumber(t)) THEN "mark"
                                        ELSE "raised")
    /\ UnchangedTables
    /\ UNCHANGED <<executed, faults>>
    /\ UnchangedConnections

(* The final branch takes the id of the latest step of the session. *)
ReadLastStep(t) ==
    LET rows == StepsOf(run[t].sid, run[t].user) IN
    /\ pc[t] = "lastStep"
    /\ Locally(t, [run[t] EXCEPT !.target = LatestNumber(rows)])
    /\ Goto(t, IF rows = {} THEN "raised" ELSE "mark")
    /\ UnchangedTables
    /\ UNCHANGED <<executed, faults>>
    /\ UnchangedConnections

MarkedInCall(t, r) ==                           \* mutant: the resume offset is lost
    r.sid = run[t].sid /\ r.num = run[t].k /\ r.user = run[t].user
Marked(t, r) == r.sid = run[t].sid /\ r.num = run[t].target /\ r.user = run[t].user

Complete(t, r) == [r EXCEPT !.status = "completed", !.out = {t}]

(* StepRepository.update_status("completed", output_message=...).  Then    *)
(* the session is closed, the loop goes on, or max_steps is reached.       *)
MarkStep(t) ==
    /\ pc[t] = "mark"
    /\ MayWrite
    /\ steps' = {IF Marked(t, r) THEN Complete(t, r) ELSE r : r \in steps}
    /\ IF run[t].calls # 0 /\ run[t].k < MaxSteps
       THEN Locally(t, [run[t] EXCEPT !.k = @ + 1]) ELSE UNCHANGED run
    /\ Goto(t, CASE run[t].calls = 0 -> "close"
                 [] run[t].calls # 0 -> IF run[t].k < MaxSteps THEN "history" ELSE "failed")
    /\ UNCHANGED <<status, owner, messages, executed, faults>>
    /\ UnchangedConnections

CloseSession(t) ==
    /\ pc[t] = "close"
    /\ MayWrite
    /\ StatusUpdate(t, "completed")
    /\ Goto(t, "completed")
    /\ UNCHANGED <<owner, messages, steps, executed, run, faults>>
    /\ UnchangedConnections

-----------------------------------------------------------------------------
(* What happens to calls and sessions from outside. *)

(* The await a call is at raises with nothing done: the task is cancelled, *)
(* in a write while it waits for a connection, or a read fails.            *)
Abort(t) ==
    /\ Live(t)
    /\ faults < MaxFaults
    /\ faults' = faults + 1
    /\ Goto(t, "raised")
    /\ UnchangedTables
    /\ UNCHANGED <<executed, run>>
    /\ UnchangedConnections

(* Neither the foreign key nor UNIQUE rejects the write t is at. *)
Accepted(t) ==
    /\ pc[t] \in {"insert", "persist"} => ParentExists(run[t].sid)
    /\ pc[t] = "persist" => ~Duplicate(t)

(* A call is cancelled after conn.execute and before conn.commit: execute  *)
(* puts the connection back as it is; or the write fails ("database is     *)
(* locked") and leaves the transaction without a row.                      *)
CutOff(t) ==
    /\ pc[t] \in Writes
    /\ faults < MaxFaults
    /\ faults' = faults + 1
    /\ \/ Accepted(t) /\ left' = left \cup {[by |-> t, at |-> pc[t]]}
       \/ UNCHANGED left
    /\ disturbed' = TRUE
    /\ Goto(t, "raised")
    /\ UnchangedTables
    /\ UNCHANGED <<executed, run>>

(* Another connection holds the write lock for longer than busy_timeout.   *)
LockedOut(t) ==
    /\ pc[t] \in Writes
    /\ disturbed
    /\ Goto(t, "raised")
    /\ UnchangedTables
    /\ UNCHANGED <<executed, run, faults>>
    /\ UnchangedConnections

(* The next commit on the connection, for whatever statement of whatever   *)
(* call, takes with it what was left there.                                *)
Land(w) ==
    LET t == w.by  s == run[t].sid IN
    /\ w \in left
    /\ left' = left \ {w}
    /\ \/ /\ w.at = "create"
          /\ \E n \in Sessions :
               /\ status[n] = "unused"
               /\ status' = [status EXCEPT ![n] = "active"]
               /\ owner' = [owner EXCEPT ![n] = run[t].user]
          /\ UNCHANGED <<messages, steps>>
       \/ /\ w.at \in {"unpause", "close"}
          /\ StatusUpdate(t, IF w.at = "close" THEN "completed" ELSE "active")
          /\ UNCHANGED <<owner, messages, steps>>
       \/ /\ w.at = "insert"
          /\ ParentExists(s)
          /\ messages' = [messages EXCEPT ![s] = Append(@, NewMessage(t))]
          /\ UNCHANGED <<status, owner, steps>>
       \/ /\ w.at = "persist"
          /\ ParentExists(s)
          /\ ~Duplicate(t)
          /\ steps' = steps \cup {NewStepRow(t)}
          /\ UNCHANGED <<status, owner, messages>>
       \/ /\ w.at = "mark"
          /\ steps' = {IF Marked(t, r) THEN Complete(t, r) ELSE r : r \in steps}
          /\ UNCHANGED <<status, owner, messages>>
    /\ UNCHANGED <<executed, pc, run, disturbed, faults>>

(* The process dies; the tables are what was committed. *)
Crash ==
    /\ \E t \in Runs : Live(t)
    /\ faults < MaxFaults
    /\ faults' = faults + 1
    /\ pc' = [t \in Runs |-> IF Live(t) THEN "crashed" ELSE pc[t]]
    /\ UnchangedTables
    /\ UNCHANGED <<executed, run>>
    /\ left' = {}
    /\ UNCHANGED disturbed

(* Session.pause, resume, archive and SessionStore.update_status by the    *)
(* owner of the session.                                                   *)
SetStatus(s, st) ==
    /\ st \in AdminOps \ {"deleted"}
    /\ Exists(s)
    /\ MayWrite
    /\ status[s] # st
    /\ status' = [status EXCEPT ![s] = st]
    /\ UNCHANGED <<owner, messages, steps, executed, pc, run, faults>>
    /\ UnchangedConnections

(* SessionStore.delete; messages and steps go by ON DELETE CASCADE. *)
DeleteSession(s) ==
    /\ "deleted" \in AdminOps
    /\ Exists(s)
    /\ MayWrite
    /\ status' = [status EXCEPT ![s] = "deleted"]
    /\ messages' = [messages EXCEPT ![s] = <<>>]
    /\ steps' = {r \in steps : r.sid # s}
    /\ UNCHANGED <<owner, executed, pc, run, faults>>
    /\ UnchangedConnections

-----------------------------------------------------------------------------

Start(t) ==
    \E u \in Users, n \in 0..MaxInputs :
        \/ StartNew(t, u, n)
        \/ \E s \in Sessions, m \in {"continue", "resume"} : StartOn(t, u, n, s, m)

(* The steps a call takes by itself once it has been started. *)
Proceed(t) ==
    \/ \E s \in Sessions : CreateSession(t, s)
    \/ LoadSession(t) \/ Unpause(t) \/ ReadLatest(t)
    \/ EncodeFails(t) \/ CountMessages(t) \/ InsertMessage(t) \/ InsertFails(t)
    \/ ReadHistory(t) \/ LLMFails(t)
    \/ \E n \in 0..MaxCalls : LLMAnswers(t, n)
    \/ \E o \in Outcomes : ExecuteTool(t, o)
    \/ PersistStep(t) \/ PersistFails(t) \/ RereadStep(t)
    \/ ReadLastStep(t) \/ MarkStep(t) \/ CloseSession(t)

Administer == \E s \in Sessions :
    \/ \E st \in AdminOps : SetStatus(s, st)
    \/ DeleteSession(s)

(* No call is in progress: the process may stay like this for ever. *)
Quiet == (\A t \in Runs : ~Live(t)) /\ UNCHANGED vars

Next ==
    \/ \E t \in Runs : Start(t) \/ Proceed(t) \/ Abort(t) \/ CutOff(t) \/ LockedOut(t)
    \/ \E w \in left : Land(w)
    \/ Crash
    \/ Administer
    \/ Quiet

Spec == Init /\ [][Next]_vars

(* The event loop runs every task that is ready, and the database, the LLM *)
(* client and the tools answer every call sooner or later, if only that    *)
(* the write lock is taken: a call that has been started keeps going.      *)
FairSpec == Spec /\ \A t \in Runs : WF_vars(Proceed(t) \/ LockedOut(t))

-----------------------------------------------------------------------------
(* Properties that hold however calls of Agent.run interleave, fail, are   *)
(* aborted or cut off, or crash.                                           *)

(* The tables and the locals of a call have the types of the schema; a     *)
(* call that is past the setup has a user and a session.                   *)
TypeOK ==
    /\ status \in [Sessions -> {"unused", "active", "paused", "completed", "archived", "deleted"}]
    /\ owner \in [Sessions -> Users \cup {NoUser}]
    /\ messages \in [Sessions -> Seq(Message)]
    /\ steps \subseteq StepRow
    /\ executed \subseteq [sid: Sessions, num: Nat, call: Nat, by: Runs]
    /\ pc \in [Runs -> {"idle"} \cup Awaits \cup Ended]
    /\ run \in [Runs -> Locals]
    /\ left \subseteq [by: Runs, at: Writes]
    /\ disturbed \in BOOLEAN
    /\ faults \in 0..MaxFaults
    /\ \A t \in Runs :
         /\ pc[t] \in Awaits => run[t].user \in Users
         /\ pc[t] \in Awaits \ {"create"} => run[t].sid \in Sessions

(* Tenant isolation: every message and step row of a session carries the   *)
(* user id of the session's owner, although append and get do not filter   *)
(* by user and run only looks at the owner once, when it loads the row.    *)
RowsBelongToOwner ==
    /\ \A s \in Sessions : \A i \in DOMAIN messages[s] : messages[s][i].user = owner[s]
    /\ \A r \in steps : r.user = owner[r.sid]

(* No message or step row outlives its session, even when a session is     *)
(* deleted between two awaits of a call that is adding rows to it.         *)
NoOrphanRows ==
    \A s \in Sessions : ~Exists(s) => messages[s] = <<>> /\ \A r \in steps : r.sid # s

(* The step numbers of a session are 1..n, each used once: a resumed call  *)
(* starts one past the latest row it read a while ago, and neither other   *)
(* calls, nor a crash between two writes, nor a call that was not resumed  *)
(* leaves a gap that ReplayEngine or the next resume would skip over.      *)
StepNumbersContiguous ==
    /\ \A p, q \in steps : p.sid = q.sid /\ p.num = q.num => p = q
    /\ \A r \in steps : r.num > 0 /\ \A n \in 1..(r.num - 1) : Taken(r.sid, n)

(* The messages one call added to a session get increasing ordinals in the *)
(* order it added them, so get() returns them in that order, although      *)
(* other calls add messages between the count and the insert: as long as   *)
(* no connection was left that may count on an old version.                *)
OwnMessagesInOrder ==
    ~disturbed => \A s \in Sessions : \A i, j \in DOMAIN messages[s] :
        i < j /\ messages[s][i].by = messages[s][j].by
            => messages[s][i].ordinal < messages[s][j].ordinal

(* A tool runs only after the assistant message that asks for it is in the *)
(* history: whatever crashes or is aborted afterwards, an effect of a tool *)
(* on a session that still exists can be traced to its request.            *)
Requested(s, t, n, c) ==
    \E i \in DOMAIN messages[s] :
        LET m == messages[s][i] IN
        m.role = "assistant" /\ m.by = t /\ m.step = n /\ c <= m.calls

EffectsAreRequested ==
    \A e \in executed : Exists(e.sid) => Requested(e.sid, e.by, e.num, e.call)

(* Every call that was started ends, as a result or as an exception. *)
CallsEnd == \A t \in Runs : pc[t] \in Awaits ~> pc[t] \in Ended

(* The steps table implements the append-only log of StepLog. *)
StepStatus(s, n) == (CHOOSE r \in steps : r.sid = s /\ r.num = n).status

Log == INSTANCE StepLog WITH
    log <- [s \in Sessions |->
              [n \in Numbers({r \in steps : r.sid = s}) |-> StepStatus(s, n)]]

ImplementsStepLog == Log!Spec

-----------------------------------------------------------------------------
(* Properties that need callers to run a session one call at a time, and   *)
(* hold as long as no connection was left in a transaction: a cut-off row  *)
(* that lands late, or a read of an old version, belies each of them.      *)

(* When a call returns COMPLETED and its session is still there, all the   *)
(* steps it took are in the table, completed, up to the final one.         *)
CompletedCallIsDurable ==
    ~disturbed => \A t \in Runs : pc[t] = "completed" /\ Exists(run[t].sid) =>
        \A n \in (run[t].base + 1)..StepNumber(t) :
            \E r \in steps : /\ r.sid = run[t].sid /\ r.num = n
                              /\ r.status = "completed" /\ r.by = t /\ r.out = {t}

(* A call was cut short between adding a message and its answers. *)
Interrupted(s) == \E t \in Runs : run[t].sid = s /\ pc[t] \in {"raised", "crashed"}

(* What the LLM API demands of the messages it is given: the tool calls of *)
(* an assistant message are answered by the messages right after it, in    *)
(* the order of the calls.  It holds for a session none of whose calls was *)
(* cut short and whose history fits the limit.                             *)
PromptIsWellFormed ==
    ~disturbed => \A t \in Runs :
        LET s == run[t].sid  m == messages[s] IN
        pc[t] = "llm" /\ Exists(s) /\ ~Interrupted(s) /\ Len(m) <= HistoryLimit =>
            \A i \in run[t].prompt :
                /\ \A c \in 1..m[i].calls : \E j \in run[t].prompt :
                     /\ Rank(s, j) = Rank(s, i) + c
                     /\ m[j].role = "tool" /\ m[j].call = c
                /\ m[i].role = "tool" => \E j \in run[t].prompt :
                     /\ Rank(s, i) = Rank(s, j) + m[i].call
                     /\ m[j].calls >= m[i].call

(* A resumed call goes on after the last step row there is: it executes no *)
(* tool call of a step that is in the table, whether the call that put it  *)
(* there raised, was cancelled between two statements or died in a crash.  *)
(* Cancelled within StepRepository.create it is another matter: the row    *)
(* may land after the resumed call has read the latest step.               *)
ResumeSkipsRecordedSteps ==
    [][~disturbed => \A e \in executed' \ executed : run[e.by].mode = "resume" => ~Taken(e.sid, e.num)]_vars

=============================================================================
