---------------------------- MODULE AgentStream ----------------------------
(***************************************************************************)
(* Agent.stream of src/agent_sdk/core/agent.py: an async generator.  It    *)
(* runs inside the task that iterates it, between a pull (__anext__) and   *)
(* the next yield, and is suspended at a yield until the consumer pulls    *)
(* again, closes it or just stops reading.  The user scope is a ContextVar *)
(* of the task and not of the generator, so that it is shared by all the   *)
(* streams of a task and survives a stream nobody finishes.  Messages are  *)
(* in the order of insertion; their ordinals are the subject of AgentRun,  *)
(* and so are sessions that are deleted under a call.                      *)
(***************************************************************************)
EXTENDS Integers, Sequences, FiniteSets

CONSTANTS
    Tasks,          \* consumers: asyncio tasks, each with a context of its own
    Streams,        \* generators made by calls of Agent.stream
    Sessions,       \* session ids
    Users,          \* user ids
    NoUser,         \* a ContextVar without a value; the owner of an unused id
    NoTask,         \* the task of a generator nobody has pulled
    NoSession,      \* the session of a stream that has none yet
    MaxSteps,       \* the max_steps of a call
    MaxCalls,       \* bound: tool calls in one answer of the LLM
    Outcomes,       \* of a tool, as far as json.dumps cares
    Overlap         \* TRUE: a task pulls a new stream while another is suspended

ASSUME NoneAssumption   == /\ NoUser \notin Users
                           /\ NoTask \notin Tasks
                           /\ NoSession \notin Sessions
ASSUME BoundAssumption  == MaxSteps \in Nat \ {0} /\ MaxCalls \in Nat
ASSUME ChoiceAssumption == /\ Outcomes \subseteq {"plain", "unserializable"}
                           /\ Overlap \in BOOLEAN

VARIABLES
    owner,      \* sessions.user_id of each id, NoUser when there is no row
    messages,   \* rows of the messages table of each session
    scope,      \* _current_user_id in the context of each task
    pc,         \* the await or the yield each generator is at, or how it ended
    gen,        \* the locals of each generator
    executed,   \* history: tool calls that ran
    shown       \* history: tool_result events that were yielded

vars == <<owner, messages, scope, pc, gen, executed, shown>>

-----------------------------------------------------------------------------

Awaits == {"create", "load", "append", "history", "llm", "tool"}

(* event: one of chat_stream's; told: its own "done". *)
Yields == {"start", "event", "told", "result", "end", "done"}

(* dropped: the consumer stopped reading and forgot the generator. *)
Ended == {"finished", "raised", "closed", "dropped"}

Running(g)   == pc[g] \in Awaits
Suspended(g) == pc[g] \in Yields

Roles == {"user", "assistant", "tool"}

(* calls: how many tool calls the message asks for; call: which of them a  *)
(* tool message answers.                                                   *)
Message == [user: Users, role: Roles, by: Streams, step: Nat, call: Nat, calls: Nat]

ToolCall == [by: Streams, step: Nat, call: Nat]

(* token is what set_user_scope returned: the value it replaced. *)
Locals == [task: Tasks \cup {NoTask}, user: Users \cup {NoUser}, token: Users \cup {NoUser},
           sid: Sessions \cup {NoSession}, k: Nat, phase: Roles, calls: Nat, done: Nat]

ScopeOf(g) == scope[gen[g].task]

(* A task is inside __anext__ of one of its streams. *)
Busy(t) == \E g \in Streams : gen[g].task = t /\ Running(g)

Goto(g, p) == pc' = [pc EXCEPT ![g] = p]

Init ==
    /\ owner = [s \in Sessions |-> NoUser]
    /\ messages = [s \in Sessions |-> <<>>]
    /\ scope = [t \in Tasks |-> NoUser]
    /\ pc = [g \in Streams |-> "made"]
    /\ gen = [g \in Streams |->
                [task |-> NoTask, user |-> NoUser, token |-> NoUser, sid |-> NoSession,
                 k |-> 1, phase |-> "user", calls |-> 0, done |-> 0]]
    /\ executed = {}
    /\ shown = {}

UnchangedTables == UNCHANGED <<owner, messages>>

(* clear_user_scope(token) in the finally clause, run by the task itself. *)
ClearScope(g) == [scope EXCEPT ![gen[g].task] = gen[g].token]

(* The generator ends, by returning, by an exception or by aclose(). *)
Leave(g, how) ==
    /\ Goto(g, how)
    /\ scope' = ClearScope(g)
    /\ UNCHANGED <<gen, executed, shown>>

-----------------------------------------------------------------------------
(* The first pull: set_user_scope, then find or create the session. *)

MayOpen(t) == /\ ~Busy(t)
              /\ Overlap \/ \A g \in Streams : gen[g].task = t => ~Suspended(g)

InheritScope(t, u) == IF scope[t] = NoUser THEN u ELSE scope[t]     \* mutant
NewScope(t, u)     == u

Open(t, g, u, s, await) ==
    /\ pc[g] = "made"
    /\ MayOpen(t)
    /\ scope' = [scope EXCEPT ![t] = NewScope(t, u)]
    /\ gen' = [gen EXCEPT ![g].task = t, ![g].user = u, ![g].token = scope[t], ![g].sid = s]
    /\ Goto(g, await)
    /\ UnchangedTables
    /\ UNCHANGED <<executed, shown>>

OpenNew(t, g, u) == Open(t, g, u, NoSession, "create")

(* Any session id that was handed out, by anybody. *)
OpenOn(t, g, u, s) == owner[s] # NoUser /\ Open(t, g, u, s, "load")

CreateSession(g, s) ==
    /\ pc[g] = "create"
    /\ owner[s] = NoUser
    /\ owner' = [owner EXCEPT ![s] = ScopeOf(g)]
    /\ gen' = [gen EXCEPT ![g].sid = s]
    /\ Goto(g, "append")
    /\ UNCHANGED <<messages, scope, executed, shown>>

(* The row is looked up in the scope of the task. *)
VisibleSession(g) == owner[gen[g].sid] = ScopeOf(g)

LoadSession(g) ==
    /\ pc[g] = "load"
    /\ VisibleSession(g)
    /\ Goto(g, "append")
    /\ UnchangedTables
    /\ UNCHANGED <<scope, gen, executed, shown>>

(* SessionNotFoundError *)
LoadFails(g) == pc[g] = "load" /\ ~VisibleSession(g) /\ Leave(g, "raised") /\ UnchangedTables

-----------------------------------------------------------------------------
(* Session.add_message: the row gets the scope of the task as its user. *)

NewMessage(g) ==
    [user  |-> ScopeOf(g),
     role  |-> gen[g].phase,
     by    |-> g,
     step  |-> IF gen[g].phase = "user" THEN 0 ELSE gen[g].k,
     call  |-> IF gen[g].phase = "tool" THEN gen[g].done ELSE 0,
     calls |-> IF gen[g].phase = "assistant" THEN gen[g].calls ELSE 0]

ResultShown(g) == {[by |-> g, step |-> gen[g].k, call |-> gen[g].done]}

(* What the generator does up to its next await or yield once the message  *)
(* is stored.                                                              *)
AfterAppend(g) == CASE gen[g].phase = "user"      -> "start"
                    [] gen[g].phase = "assistant" -> IF gen[g].calls = 0 THEN "end" ELSE "tool"
                    [] gen[g].phase = "tool"      -> "result"

StoreMessage(g) ==
    /\ messages' = [messages EXCEPT ![gen[g].sid] = Append(@, NewMessage(g))]
    /\ Goto(g, AfterAppend(g))
    /\ shown' = IF gen[g].phase = "tool" THEN shown \cup ResultShown(g) ELSE shown
    /\ UNCHANGED <<owner, scope, gen, executed>>

(* get_user_scope raises IsolationViolationError when another stream of    *)
(* the task has ended meanwhile and put back a context without a user,     *)
(* which needs Overlap.                                                    *)
AppendMessage(g) ==
    /\ pc[g] = "append"
    /\ IF ScopeOf(g) = NoUser
       THEN Leave(g, "raised") /\ UnchangedTables
       ELSE StoreMessage(g)

-----------------------------------------------------------------------------
(* One step: history, the LLM's stream, tools. *)

ReadHistory(g) ==
    /\ pc[g] = "history"
    /\ gen' = [gen EXCEPT ![g].calls = 0, ![g].done = 0]
    /\ Goto(g, "llm")
    /\ UnchangedTables
    /\ UNCHANGED <<scope, executed, shown>>

(* A chunk of the LLM is yielded as it comes: a token, or n tool calls     *)
(* that carry a name.  A delta without a name, the rest of the arguments   *)
(* of a call, is passed on but not collected: n = 0.                       *)
PassOnChunk(g, n) ==
    /\ pc[g] = "llm"
    /\ gen[g].calls + n <= MaxCalls
    /\ gen' = [gen EXCEPT ![g].calls = @ + n]
    /\ Goto(g, "event")
    /\ UnchangedTables
    /\ UNCHANGED <<scope, executed, shown>>

(* The LLM's stream is over; chat_stream yields an event "done" of its own.*)
AnswerEnds(g) ==
    /\ pc[g] = "llm"
    /\ Goto(g, "told")
    /\ UnchangedTables
    /\ UNCHANGED <<scope, gen, executed, shown>>

(* LLMError leaves the generator; the server turns it into an error event. *)
AnswerFails(g) == pc[g] = "llm" /\ Leave(g, "raised") /\ UnchangedTables

Call(g) == [by |-> g, step |-> gen[g].k, call |-> gen[g].done + 1]

(* Mutant of ExecuteTool: all tools of the answer run at once. *)
ExecuteAll(g) ==
    /\ pc[g] = "tool"
    /\ executed' = executed \cup {[by |-> g, step |-> gen[g].k, call |-> c] : c \in 1..gen[g].calls}
    /\ gen' = [gen EXCEPT ![g].phase = "tool", ![g].done = @ + 1]
    /\ Goto(g, "append")
    /\ UnchangedTables
    /\ UNCHANGED <<scope, shown>>

(* A tool that is unknown or raises gives an error result like any other. *)
ExecuteTool(g) ==
    /\ pc[g] = "tool"
    /\ executed' = executed \cup {Call(g)}
    /\ gen' = [gen EXCEPT ![g].phase = "tool", ![g].done = @ + 1]
    /\ Goto(g, "append")
    /\ UnchangedTables
    /\ UNCHANGED <<scope, shown>>

(* json.dumps(tr.output) raises outside the try block. *)
EncodeFails(g) ==
    /\ pc[g] = "tool"
    /\ "unserializable" \in Outcomes
    /\ executed' = executed \cup {Call(g)}
    /\ Goto(g, "raised")
    /\ scope' = ClearScope(g)
    /\ UnchangedTables
    /\ UNCHANGED <<gen, shown>>

-----------------------------------------------------------------------------
(* What the consumer does with a stream that is suspended at a yield. *)

MayPull(g) == Suspended(g) /\ ~Busy(gen[g].task)

(* The code from the yield to the next await or yield. *)
Resume(g, p) ==
    /\ MayPull(g)
    /\ Goto(g, p)
    /\ UnchangedTables
    /\ UNCHANGED <<scope, gen, executed, shown>>

PullStart(g)  == pc[g] = "start"  /\ Resume(g, "history")
PullChunk(g)  == pc[g] = "event"  /\ Resume(g, "llm")

PullAnswer(g) ==
    /\ pc[g] = "told"
    /\ MayPull(g)
    /\ gen' = [gen EXCEPT ![g].phase = "assistant"]
    /\ Goto(g, "append")
    /\ UnchangedTables
    /\ UNCHANGED <<scope, executed, shown>>

AllButLast(g) == gen[g].done + 1 < gen[g].calls          \* mutant: one too few
CallsLeft(g)  == gen[g].done < gen[g].calls

PullResult(g) == pc[g] = "result" /\ Resume(g, IF CallsLeft(g) THEN "tool" ELSE "end")

(* After step_end: the final "done", the next step, or max_steps_reached. *)
PullEnd(g) ==
    /\ pc[g] = "end"
    /\ MayPull(g)
    /\ IF gen[g].calls = 0 \/ gen[g].k = MaxSteps
       THEN Goto(g, "done") /\ UNCHANGED gen
       ELSE Goto(g, "start") /\ gen' = [gen EXCEPT ![g].k = @ + 1]
    /\ UnchangedTables
    /\ UNCHANGED <<scope, executed, shown>>

PullDone(g) == pc[g] = "done" /\ MayPull(g) /\ Leave(g, "finished") /\ UnchangedTables

Pull(g) == \/ PullStart(g) \/ PullChunk(g) \/ PullAnswer(g)
           \/ PullResult(g) \/ PullEnd(g) \/ PullDone(g)

(* await stream.aclose(), or an exception thrown in at the yield. *)
Close(g) == MayPull(g) /\ Leave(g, "closed") /\ UnchangedTables

(* break out of `async for`, or a client that disconnects: the event loop  *)
(* closes the generator from a task of its own, in whose context reset()   *)
(* of the token raises ValueError.                                         *)
Drop(g) ==
    /\ MayPull(g)
    /\ Goto(g, "dropped")
    /\ UnchangedTables
    /\ UNCHANGED <<scope, gen, executed, shown>>

(* The task is cancelled, or the database fails, inside the generator. *)
Abort(g) == Running(g) /\ Leave(g, "raised") /\ UnchangedTables

-----------------------------------------------------------------------------

(* The steps a stream takes by itself until it yields or ends. *)
Proceed(g) ==
    \/ \E s \in Sessions : CreateSession(g, s)
    \/ LoadSession(g) \/ LoadFails(g)
    \/ AppendMessage(g) \/ ReadHistory(g)
    \/ \E n \in 0..MaxCalls : PassOnChunk(g, n)
    \/ AnswerEnds(g) \/ AnswerFails(g)
    \/ ExecuteTool(g) \/ EncodeFails(g)

(* Bound: a stream that creates a session finds an unused id. *)
IdsLeft == Cardinality({g \in Streams : pc[g] = "create"})
             < Cardinality({s \in Sessions : owner[s] = NoUser})

Start(t, g) == \E u \in Users :
    \/ IdsLeft /\ OpenNew(t, g, u)
    \/ \E s \in Sessions : OpenOn(t, g, u, s)

Quiet == (\A g \in Streams : pc[g] \in {"made"} \cup Ended) /\ UNCHANGED vars

Next ==
    \/ \E g \in Streams :
         \/ Proceed(g) \/ Pull(g) \/ Close(g) \/ Drop(g) \/ Abort(g)
         \/ \E t \in Tasks : Start(t, g)
    \/ Quiet

Spec == Init /\ [][Next]_vars

-----------------------------------------------------------------------------

(* Rows and locals have the types of the schema and of the coroutine; a    *)
(* stream that was opened has a task and a user, and past the setup a      *)
(* session.                                                                *)
TypeOK ==
    /\ owner \in [Sessions -> Users \cup {NoUser}]
    /\ messages \in [Sessions -> Seq(Message)]
    /\ scope \in [Tasks -> Users \cup {NoUser}]
    /\ pc \in [Streams -> {"made"} \cup Awaits \cup Yields \cup Ended]
    /\ gen \in [Streams -> Locals]
    /\ executed \subseteq ToolCall
    /\ shown \subseteq ToolCall
    /\ \A g \in Streams :
         /\ pc[g] # "made" => gen[g].task \in Tasks /\ gen[g].user \in Users
         /\ pc[g] = "made" => gen[g].task = NoTask
         /\ Running(g) \/ Suspended(g) => pc[g] = "create" \/ gen[g].sid \in Sessions

(* Tenant isolation through the yields: when every task iterates one       *)
(* stream at a time (Overlap = FALSE), each message carries the user id of *)
(* its session's owner and of the caller its stream works for, although    *)
(* the user is read from the task at every append and tasks go from one    *)
(* user's stream to another's, also after streams they never finished.     *)
RowsBelongToOwner ==
    \A s \in Sessions : \A i \in DOMAIN messages[s] :
        LET m == messages[s][i] IN m.user = owner[s] /\ m.user = gen[m.by].user

(* The scope of a task is the user of the stream it is in the middle of.   *)
(* A task that has finished or closed all its streams is back to no user;  *)
(* only a stream that was dropped half-way leaves its user behind.         *)
ScopeIsAccounted ==
    \A t \in Tasks :
        /\ \A g \in Streams : gen[g].task = t /\ (Running(g) \/ Suspended(g)) => scope[t] = gen[g].user
        /\ scope[t] = NoUser \/ \E g \in Streams :
              /\ gen[g].task = t /\ gen[g].user = scope[t]
              /\ Running(g) \/ Suspended(g) \/ pc[g] = "dropped"

(* The tool message that answers call c of step n of stream g is stored. *)
Answered(c) ==
    \E s \in Sessions : \E i \in DOMAIN messages[s] :
        LET m == messages[s][i] IN
        m.role = "tool" /\ m.by = c.by /\ m.step = c.step /\ m.call = c.call

(* However a stream is cut short, what it did can be told from the         *)
(* history: every result a consumer saw is stored, and so is the result of *)
(* every tool that ran, except the last one of a stream that is about to   *)
(* store it or that died doing so.                                         *)
EffectsAreStored ==
    /\ \A c \in shown : c \in executed /\ Answered(c)
    /\ \A c \in executed : Answered(c) \/
          /\ pc[c.by] \in {"append", "raised"}
          /\ c.step = gen[c.by].k
          /\ \A d \in executed : d.by = c.by /\ d.step = c.step => d.call <= c.call

(* The tool calls of an assistant message are all answered by the time its *)
(* stream starts another step or finishes: only the stream's current step  *)
(* can have calls without answers.                                         *)
StepsAreAnswered ==
    \A s \in Sessions : \A i \in DOMAIN messages[s] :
        LET m == messages[s][i] IN
        m.role = "assistant" =>
            \/ \A c \in 1..m.calls : Answered([by |-> m.by, step |-> m.step, call |-> c])
            \/ gen[m.by].k = m.step /\ pc[m.by] \notin {"start", "history", "llm", "finished"}

=============================================================================
