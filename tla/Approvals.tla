----------------------------- MODULE Approvals -----------------------------
(***************************************************************************)
(* The approval workflow of src/agent_sdk/governance: RuleEngine.evaluate  *)
(* says what a tool call needs, ApprovalManager.request_approval inserts a *)
(* pending row, wait_for_resolution polls it, and resolve, of the manager  *)
(* or of the HTTP endpoint, overwrites its status.  Waiters and deciders   *)
(* are tasks that interleave at every await.  Requests are identified by   *)
(* the waiter that made them.                                              *)
(***************************************************************************)
EXTENDS Integers, FiniteSets

CONSTANTS
    Waiters,        \* tool calls that may ask for an approval and wait for it
    Deciders,       \* calls of resolve
    Sessions,       \* session ids
    Users,          \* user ids
    Owner,          \* sessions.user_id of each session
    Tools,          \* names of tools
    AnyTool,        \* the tool_name None of a rule: all tools
    ToolPolicy,     \* the policy each tool declares
    RuleSets,       \* the rule lists a RuleEngine may have been given
    NoSession, NoWaiter, NoUser, NoStatus,      \* no value yet
    Timeout,        \* the timeout of wait_for_resolution, in polls of 1 s
    DecideOnce      \* TRUE: a user decides a request at most once

Policies == {"auto", "human_approval", "admin_signoff"}

Rule == [tool: Tools \cup {AnyTool}, policy: Policies]

ASSUME NoneAssumption   == /\ NoSession \notin Sessions
                           /\ NoWaiter \notin Waiters
                           /\ NoUser \notin Users
                           /\ AnyTool \notin Tools
ASSUME OwnerAssumption  == Owner \in [Sessions -> Users]
ASSUME PolicyAssumption == ToolPolicy \in [Tools -> Policies] /\ RuleSets \subseteq SUBSET Rule
ASSUME BoundAssumption  == Timeout \in Nat /\ DecideOnce \in BOOLEAN

(* The values of ApprovalStatus; "other" is any other string, which the    *)
(* endpoint stores as it comes.                                            *)
Statuses == {"pending", "approved", "denied", "expired", "other"}

ASSUME StatusAssumption == NoStatus \notin Statuses

VARIABLES
    alive,      \* sessions that have a row
    row,        \* the approvals row of each request; status NoStatus: no row
    pc,         \* the await each waiter is at, or how it ended
    call,       \* the locals of each waiter
    dpc,        \* the await each decider is at
    dcall,      \* the locals of each decider
    late        \* history: requests decided when their waiter had no poll left

vars == <<alive, row, pc, call, dpc, dcall, late>>

-----------------------------------------------------------------------------

Awaits == {"insert", "reread", "poll", "sleep"}

Ended == {"free", "resolved", "denied", "timedOut", "raised"}

Row == [status: Statuses \cup {NoStatus}, sid: Sessions \cup {NoSession},
        user: Users \cup {NoUser}, by: Users \cup {NoUser},
        policy: Policies]

Locals == [sid: Sessions \cup {NoSession}, policy: Policies, elapsed: 0..Timeout,
           heard: Statuses \cup {NoStatus}]

DeciderLocals == [user: Users \cup {NoUser}, on: Waiters \cup {NoWaiter},
                  decision: Statuses, answer: Statuses \cup {NoStatus}]

Requested(w) == row[w].status # NoStatus

(* _POLICY_PRIORITY *)
Priority == [p \in Policies |-> CASE p = "auto" -> 0
                                  [] p = "human_approval" -> 1
                                  [] p = "admin_signoff" -> 2]

(* RuleEngine.evaluate; the condition of a rule is never looked at. *)
Evaluate(tool, rules) ==
    LET candidates == {ToolPolicy[tool]} \cup
                      {r.policy : r \in {q \in rules : q.tool \in {AnyTool, tool}}}
    IN  CHOOSE p \in candidates : \A q \in candidates : Priority[q] <= Priority[p]

Init ==
    /\ alive = Sessions
    /\ row = [w \in Waiters |-> [status |-> NoStatus, sid |-> NoSession, user |-> NoUser,
                                 by |-> NoUser, policy |-> "auto"]]
    /\ pc = [w \in Waiters |-> "idle"]
    /\ call = [w \in Waiters |-> [sid |-> NoSession, policy |-> "auto", elapsed |-> 0,
                                  heard |-> NoStatus]]
    /\ dpc = [d \in Deciders |-> "idle"]
    /\ dcall = [d \in Deciders |-> [user |-> NoUser, on |-> NoWaiter, decision |-> "approved",
                                    answer |-> NoStatus]]
    /\ late = {}

Goto(w, p) == pc' = [pc EXCEPT ![w] = p]

UnchangedDeciders == UNCHANGED <<dpc, dcall>>

-----------------------------------------------------------------------------
(* A tool call: evaluate, request_approval, wait_for_resolution. *)

(* In the scope of the owner of the session the tool runs in. *)
Ask(w, s, tool, rules) ==
    /\ pc[w] = "idle"
    /\ s \in alive
    /\ call' = [call EXCEPT ![w].sid = s, ![w].policy = Evaluate(tool, rules)]
    /\ Goto(w, IF Evaluate(tool, rules) = "auto" THEN "free" ELSE "insert")
    /\ UNCHANGED <<alive, row, late>>
    /\ UnchangedDeciders

(* approvals.session_id REFERENCES sessions(id). *)
ParentExists(s)  == s \in alive

InsertRequest(w) ==
    /\ pc[w] = "insert"
    /\ ParentExists(call[w].sid)
    /\ row' = [row EXCEPT ![w] = [status |-> "pending", sid |-> call[w].sid,
                                  user |-> Owner[call[w].sid], by |-> NoUser,
                                  policy |-> call[w].policy]]
    /\ Goto(w, "reread")
    /\ UNCHANGED <<alive, call, late>>
    /\ UnchangedDeciders

InsertFails(w) ==
    /\ pc[w] = "insert"
    /\ ~ParentExists(call[w].sid)
    /\ Goto(w, "raised")
    /\ UNCHANGED <<alive, row, call, late>>
    /\ UnchangedDeciders

(* `while elapsed < timeout` *)
OnePollShort(e) == e + 1 < Timeout              \* mutant
TimeLeft(e)     == e < Timeout

Loop(w, e) == Goto(w, IF TimeLeft(e) THEN "poll" ELSE "timedOut")

(* create returns get_by_id; ApprovalStatus("other") raises ValueError.    *)
(* The row may have been decided since it was inserted: the waiter does    *)
(* not look at that yet.                                                   *)
RereadRequest(w) ==
    /\ pc[w] = "reread"
    /\ IF row[w].status = "other" THEN Goto(w, "raised") ELSE Loop(w, 0)
    /\ UNCHANGED <<alive, row, call, late>>
    /\ UnchangedDeciders

Poll(w) ==
    /\ pc[w] = "poll"
    /\ call' = [call EXCEPT ![w].heard = row[w].status]
    /\ Goto(w, CASE row[w].status = "pending" -> "sleep"
                 [] row[w].status = "other"   -> "raised"
                 [] row[w].status = "denied"  -> "denied"
                 [] row[w].status \in {"approved", "expired"} -> "resolved")
    /\ UNCHANGED <<alive, row, late>>
    /\ UnchangedDeciders

Sleep(w) ==
    /\ pc[w] = "sleep"
    /\ call' = [call EXCEPT ![w].elapsed = @ + 1]
    /\ Loop(w, call[w].elapsed + 1)
    /\ UNCHANGED <<alive, row, late>>
    /\ UnchangedDeciders

-----------------------------------------------------------------------------
(* resolve *)

(* The waiter of request w will not look at the row again. *)
NoPollLeft(w) ==
    \/ pc[w] \in Ended
    \/ pc[w] = "sleep" /\ call[w].elapsed + 1 >= Timeout

MayDecide(u, w) ==
    DecideOnce => \A d \in Deciders : ~(dcall[d].on = w /\ dcall[d].user = u)

(* Anybody who has seen the id may call; the status may be any of the enum *)
(* or, through the endpoint, any string.                                   *)
StartDeciding(d, u, w, st) ==
    /\ dpc[d] = "idle"
    /\ Requested(w)
    /\ MayDecide(u, w)
    /\ dcall' = [dcall EXCEPT ![d] = [user |-> u, on |-> w, decision |-> st, answer |-> NoStatus]]
    /\ dpc' = [dpc EXCEPT ![d] = "update"]
    /\ UNCHANGED <<alive, row, pc, call, late>>

(* WHERE user_id = ? AND id = ? *)
AnyUsersRow(u, w) == TRUE                       \* mutant: the scope is not applied
OwnRow(u, w)      == row[w].user = u

(* One UPDATE whatever the status was; no row, no change and no error.     *)
UpdateRow(d) ==
    LET w == dcall[d].on  u == dcall[d].user IN
    /\ dpc[d] = "update"
    /\ IF OwnRow(u, w)
       THEN /\ row' = [row EXCEPT ![w].status = dcall[d].decision, ![w].by = u]
            /\ late' = IF NoPollLeft(w) THEN late \cup {w} ELSE late
       ELSE UNCHANGED <<row, late>>
    /\ dpc' = [dpc EXCEPT ![d] = "answer"]
    /\ UNCHANGED <<alive, pc, call, dcall>>

(* The endpoint returns "resolved" without looking. *)
AnswerResolved(d) ==
    /\ dpc[d] = "answer"
    /\ dpc' = [dpc EXCEPT ![d] = "done"]
    /\ UNCHANGED <<alive, row, pc, call, dcall, late>>

(* ApprovalManager.resolve reads the row back, in the scope of the caller: *)
(* without a row it answers with the decision it was given, and            *)
(* ApprovalStatus("other") raises.                                         *)
AnswerReread(d) ==
    LET w == dcall[d].on IN
    /\ dpc[d] = "answer"
    /\ dcall[d].decision # "other"
    /\ IF ~OwnRow(dcall[d].user, w)
       THEN /\ dcall' = [dcall EXCEPT ![d].answer = dcall[d].decision]
            /\ dpc' = [dpc EXCEPT ![d] = "done"]
       ELSE IF row[w].status = "other"
       THEN /\ dpc' = [dpc EXCEPT ![d] = "raised"]
            /\ UNCHANGED dcall
       ELSE /\ dcall' = [dcall EXCEPT ![d].answer = row[w].status]
            /\ dpc' = [dpc EXCEPT ![d] = "done"]
    /\ UNCHANGED <<alive, row, pc, call, late>>

(* SessionStore.delete: approvals has no ON DELETE CASCADE, so that a      *)
(* session with a request, decided or not, cannot be deleted.              *)
NoRequestsLeft(s) == \A w \in Waiters : row[w].sid # s

DeleteSession(s) ==
    /\ s \in alive
    /\ NoRequestsLeft(s)
    /\ alive' = alive \ {s}
    /\ UNCHANGED <<row, pc, call, late>>
    /\ UnchangedDeciders

-----------------------------------------------------------------------------

Proceed(w) ==
    \/ InsertRequest(w) \/ InsertFails(w) \/ RereadRequest(w)
    \/ Poll(w) \/ Sleep(w)

Decide(d) ==
    \/ \E u \in Users, w \in Waiters, st \in Statuses : StartDeciding(d, u, w, st)
    \/ UpdateRow(d) \/ AnswerResolved(d) \/ AnswerReread(d)

Quiet ==
    /\ \A w \in Waiters : pc[w] \notin Awaits
    /\ \A d \in Deciders : dpc[d] \notin {"update", "answer"}
    /\ UNCHANGED vars

Next ==
    \/ \E w \in Waiters :
         \/ \E s \in Sessions, t \in Tools, rs \in RuleSets : Ask(w, s, t, rs)
         \/ Proceed(w)
    \/ \E d \in Deciders : Decide(d)
    \/ \E s \in Sessions : DeleteSession(s)
    \/ Quiet

Spec == Init /\ [][Next]_vars

-----------------------------------------------------------------------------

(* Rows and locals have the types of the schema and the signatures; a      *)
(* waiter past the insert has its row.                                     *)
TypeOK ==
    /\ alive \subseteq Sessions
    /\ row \in [Waiters -> Row]
    /\ pc \in [Waiters -> {"idle"} \cup Awaits \cup Ended]
    /\ call \in [Waiters -> Locals]
    /\ dpc \in [Deciders -> {"idle", "update", "answer", "done", "raised"}]
    /\ dcall \in [Deciders -> DeciderLocals]
    /\ late \subseteq Waiters
    /\ \A w \in Waiters :
         /\ pc[w] = "insert" => call[w].sid \in Sessions
         /\ pc[w] \in {"reread", "poll", "sleep"} => Requested(w) /\ call[w].elapsed <= Timeout

(* Only the user a request belongs to can decide it: whatever other users  *)
(* try on its id, a waiter never hears a decision that its own user did    *)
(* not make.                                                               *)
OwnersDecide ==
    \A w \in Waiters :
        /\ row[w].by \in {NoUser, row[w].user}
        /\ row[w].by = NoUser => row[w].status \in {NoStatus, "pending"}
        /\ pc[w] \in {"resolved", "denied"} => row[w].by = Owner[call[w].sid]

(* When each request is decided once (DecideOnce) and the timeout leaves   *)
(* time for a poll, what the waiter was told is what the table says ever   *)
(* after, and a waiter gives up only if the decision, if any, came after   *)
(* its last poll.                                                          *)
WaitersHearDecisions ==
    \A w \in Waiters :
        /\ pc[w] \in {"resolved", "denied"} => row[w].status = call[w].heard
        /\ pc[w] = "timedOut" => row[w].status = "pending" \/ w \in late

(* A request is never without its session: it keeps the session from being *)
(* deleted, also when the deletion falls between evaluate and the insert.  *)
RequestsKeepSessions == \A w \in Waiters : Requested(w) => row[w].sid \in alive

=============================================================================
