----------------------------- MODULE Durability -----------------------------
(***************************************************************************)
(* src/agent_sdk/durability: CheckpointManager, ReplayEngine and           *)
(* IdempotencyTracker over the steps and idempotency_keys tables.  Nothing *)
(* in the repository calls them yet.  A worker here is a process that uses *)
(* them for what they are: resume_from tells it where to go on, then for   *)
(* each step (of one tool call) it looks for the row and, if there is      *)
(* none, inserts it, looks up the key of the row, runs the tool if the key *)
(* is not there, records the result and saves the checkpoint.  So the key, *)
(* a fresh uuid4 or one of the caller's, is in the table before the tool   *)
(* runs, and a later worker finds it.  A worker may die at every await,    *)
(* and dies when an INSERT is rejected, since the pool would keep the      *)
(* write lock (ConnectionPool); its connections are closed then.  It       *)
(* starts again with resume_from; several workers may be on one session.   *)
(***************************************************************************)
EXTENDS Integers, FiniteSets

CONSTANTS
    Workers,        \* callers that execute sessions
    Sessions,       \* session ids
    Users,          \* user ids
    Owner,          \* sessions.user_id of each session
    MaxSteps,       \* steps of a session
    Keys,           \* idempotency keys
    NoKey,          \* the key of a step without a row
    NoSession,      \* the session of a worker without one; no row under a key
    MaxCrashes      \* bound: crashes of workers

Steps == 1..MaxSteps

ASSUME StepAssumption  == MaxSteps \in Nat \ {0} /\ MaxCrashes \in Nat
ASSUME OwnerAssumption == Owner \in [Sessions -> Users] /\ NoSession \notin Sessions

ASSUME KeyAssumption   == NoKey \notin Keys

VARIABLES
    rows,       \* the steps rows of each session: none, without or with a checkpoint
    stepKey,    \* the idempotency_key of each step row
    keys,       \* idempotency_keys: the session whose result is under each key
    pc,         \* the await each worker is at
    work,       \* the locals of each worker
    executed,   \* history: the steps of each session whose tool has run
    recorded,   \* history: the steps of each session whose results were recorded
    crashes     \* crashes so far

vars == <<rows, stepKey, keys, pc, work, executed, recorded, crashes>>

-----------------------------------------------------------------------------

Awaits == {"latest", "replay", "row", "create", "check", "execute", "record", "find", "save"}

(* result: the session whose result the worker has for step n; replayed:   *)
(* the steps ReplayEngine gave it; last: up to where it replays; before, a *)
(* history: the steps that were recorded when it called resume_from.       *)
Locals == [sid: Sessions \cup {NoSession}, n: 1..(MaxSteps + 1), last: 0..MaxSteps,
           replayed: SUBSET Steps, result: Sessions \cup {NoSession}, before: SUBSET Steps]

Sid(w)  == work[w].sid
User(w) == Owner[Sid(w)]
Key(w)  == stepKey[Sid(w)][work[w].n]

Rows(s)  == {n \in Steps : rows[s][n] # "none"}
Saved(s) == {n \in Steps : rows[s][n] = "saved"}

(* ORDER BY step_number DESC LIMIT 1; 0 when there is no row. *)
LatestRow(s) ==
    IF Rows(s) = {} THEN 0 ELSE CHOOSE n \in Rows(s) : \A m \in Rows(s) : m <= n

Fresh(s, before) ==
    [sid |-> s, n |-> 1, last |-> 0, replayed |-> {}, result |-> NoSession, before |-> before]

Init ==
    /\ rows = [s \in Sessions |-> [n \in Steps |-> "none"]]
    /\ stepKey = [s \in Sessions |-> [n \in Steps |-> NoKey]]
    /\ keys = [k \in Keys |-> NoSession]
    /\ pc = [w \in Workers |-> "idle"]
    /\ work = [w \in Workers |-> Fresh(NoSession, {})]
    /\ executed = [s \in Sessions |-> {}]
    /\ recorded = [s \in Sessions |-> {}]
    /\ crashes = 0

Goto(w, p) == pc' = [pc EXCEPT ![w] = p]

Locally(w, locals) == work' = [work EXCEPT ![w] = locals]

-----------------------------------------------------------------------------
(* ReplayEngine.resume_from *)

Resume(w, s) == Locally(w, Fresh(s, recorded[s])) /\ Goto(w, "latest")

Start(w, s) ==
    /\ pc[w] = "idle"
    /\ Resume(w, s)
    /\ UNCHANGED <<rows, stepKey, keys, executed, recorded, crashes>>

(* CheckpointManager.load_latest: the checkpoint of the latest row, or     *)
(* None if that row has none, whatever earlier rows have.                  *)
LatestIsSaved(s) == LatestRow(s) \in Saved(s)

(* Without a checkpoint resume_step is 1. *)
LoadLatest(w) ==
    /\ pc[w] = "latest"
    /\ IF LatestIsSaved(Sid(w))
       THEN /\ Locally(w, [work[w] EXCEPT !.last = LatestRow(Sid(w))])
            /\ Goto(w, "replay")
       ELSE /\ UNCHANGED work
            /\ Goto(w, "row")
    /\ UNCHANGED <<rows, stepKey, keys, executed, recorded, crashes>>

(* replay_to loads the checkpoints of steps 1..last one by one; one that   *)
(* is missing is skipped with a warning.  Then resume_step is last + 1.    *)
ReplayStep(w) ==
    LET n == work[w].n IN
    /\ pc[w] = "replay"
    /\ Locally(w, [work[w] EXCEPT !.replayed = @ \cup ({n} \cap Saved(Sid(w))), !.n = @ + 1])
    /\ Goto(w, IF n < work[w].last THEN "replay"
               ELSE IF n < MaxSteps THEN "row" ELSE "done")
    /\ UNCHANGED <<rows, stepKey, keys, executed, recorded, crashes>>

-----------------------------------------------------------------------------
(* One step of the session. *)

NeverLooks(w) == FALSE                  \* mutant: INSERT, and see
HasRow(w) == work[w].n \in Rows(Sid(w))

(* get_by_session; a row comes with its key. *)
LookForRow(w) ==
    /\ pc[w] = "row"
    /\ Goto(w, IF HasRow(w) THEN "check" ELSE "create")
    /\ UNCHANGED <<rows, stepKey, keys, work, executed, recorded, crashes>>

(* uuid4 draws no key twice, and a user's own keys are his steps'; two     *)
(* users may give the same.                                                *)
UsedBy(user) == {stepKey[s][n] : s \in {t \in Sessions : Owner[t] = user}, n \in Steps}

(* StepRepository.create; a row of another worker by now is an             *)
(* IntegrityError, which ends this one.                                    *)
CreateRow(w) ==
    /\ pc[w] = "create"
    /\ \/ /\ work[w].n \in Rows(Sid(w))
          /\ Resume(w, Sid(w))
          /\ UNCHANGED <<rows, stepKey>>
       \/ /\ work[w].n \notin Rows(Sid(w))
          /\ \E k \in Keys \ UsedBy(User(w)) : stepKey' = [stepKey EXCEPT ![Sid(w)][work[w].n] = k]
          /\ rows' = [rows EXCEPT ![Sid(w)][work[w].n] = "row"]
          /\ Goto(w, "check")
          /\ UNCHANGED work
    /\ UNCHANGED <<keys, executed, recorded, crashes>>

(* IdempotencyTracker.check: WHERE key = ? AND user_id = ? *)
UserRecorded(w) == keys[Key(w)] # NoSession /\ Owner[keys[Key(w)]] = User(w)

CheckKey(w) ==
    /\ pc[w] = "check"
    /\ IF UserRecorded(w)
       THEN /\ Locally(w, [work[w] EXCEPT !.result = keys[Key(w)]])
            /\ Goto(w, "find")
       ELSE /\ UNCHANGED work
            /\ Goto(w, "execute")
    /\ UNCHANGED <<rows, stepKey, keys, executed, recorded, crashes>>

ExecuteTool(w) ==
    /\ pc[w] = "execute"
    /\ executed' = [executed EXCEPT ![Sid(w)] = @ \cup {work[w].n}]
    /\ Locally(w, [work[w] EXCEPT !.result = Sid(w)])
    /\ Goto(w, "record")
    /\ UNCHANGED <<rows, stepKey, keys, recorded, crashes>>

(* INSERT OR IGNORE: key alone is the primary key, whoever recorded it. *)
Replaced(w)  == [keys EXCEPT ![Key(w)] = Sid(w)]        \* mutant: OR REPLACE
Inserted(w)  == IF keys[Key(w)] = NoSession THEN [keys EXCEPT ![Key(w)] = Sid(w)] ELSE keys

RecordKey(w) ==
    /\ pc[w] = "record"
    /\ keys' = Inserted(w)
    /\ recorded' = IF keys'[Key(w)] = Sid(w)
                   THEN [recorded EXCEPT ![Sid(w)] = @ \cup {work[w].n}] ELSE recorded
    /\ Goto(w, "find")
    /\ UNCHANGED <<rows, stepKey, work, executed, crashes>>

AfterStep(w) ==
    IF work[w].n < MaxSteps
    THEN /\ Locally(w, [work[w] EXCEPT !.n = @ + 1, !.result = NoSession])
         /\ Goto(w, "row")
    ELSE /\ UNCHANGED work
         /\ Goto(w, "done")

(* CheckpointManager.save reads the id of the row and without one only     *)
(* logs a warning...                                                       *)
FindRow(w) ==
    /\ pc[w] = "find"
    /\ IF work[w].n \in Rows(Sid(w)) THEN Goto(w, "save") /\ UNCHANGED work ELSE AfterStep(w)
    /\ UNCHANGED <<rows, stepKey, keys, executed, recorded, crashes>>

(* Mutant of SaveCheckpoint: the last step is not worth a checkpoint. *)
SaveAllButLast(w) ==
    /\ pc[w] = "save"
    /\ rows' = IF work[w].n < MaxSteps THEN [rows EXCEPT ![Sid(w)][work[w].n] = "saved"] ELSE rows
    /\ AfterStep(w)
    /\ UNCHANGED <<stepKey, keys, executed, recorded, crashes>>

(* ... and then stores the blob under it. *)
SaveCheckpoint(w) ==
    /\ pc[w] = "save"
    /\ rows' = [rows EXCEPT ![Sid(w)][work[w].n] = "saved"]
    /\ AfterStep(w)
    /\ UNCHANGED <<stepKey, keys, executed, recorded, crashes>>

-----------------------------------------------------------------------------

(* IdempotencyTracker.clear, for a session that a worker has finished and  *)
(* no other one is on: the tracker itself would also clear the keys of a   *)
(* worker that still looks them up, which then runs recorded steps again.  *)
ClearKeys(w) ==
    /\ pc[w] = "done"
    /\ \A v \in Workers : pc[v] \in Awaits => Sid(v) # Sid(w)
    /\ keys' = [k \in Keys |-> IF keys[k] = Sid(w) THEN NoSession ELSE keys[k]]
    /\ Goto(w, "cleared")
    /\ UNCHANGED <<rows, stepKey, work, executed, recorded, crashes>>

(* The process of a worker dies and is started again. *)
Crash(w) ==
    /\ pc[w] \in Awaits
    /\ crashes < MaxCrashes
    /\ crashes' = crashes + 1
    /\ Resume(w, Sid(w))
    /\ UNCHANGED <<rows, stepKey, keys, executed, recorded>>

Proceed(w) ==
    \/ LoadLatest(w) \/ ReplayStep(w)
    \/ LookForRow(w) \/ CreateRow(w)
    \/ CheckKey(w) \/ ExecuteTool(w) \/ RecordKey(w)
    \/ FindRow(w) \/ SaveCheckpoint(w)

Quiet == (\A w \in Workers : pc[w] \notin Awaits) /\ UNCHANGED vars

Next ==
    \/ \E w \in Workers :
         \/ \E s \in Sessions : Start(w, s)
         \/ Proceed(w) \/ ClearKeys(w) \/ Crash(w)
    \/ Quiet

(* A worker that is alive keeps going: the database and the tools answer. *)
Spec == Init /\ [][Next]_vars /\ \A w \in Workers : WF_vars(Proceed(w))

-----------------------------------------------------------------------------

(* Rows, keys and locals have the types of the schema and the signatures;  *)
(* a worker that was started has a session, and at a step that is one.     *)
TypeOK ==
    /\ rows \in [Sessions -> [Steps -> {"none", "row", "saved"}]]
    /\ stepKey \in [Sessions -> [Steps -> Keys \cup {NoKey}]]
    /\ keys \in [Keys -> Sessions \cup {NoSession}]
    /\ pc \in [Workers -> {"idle", "done", "cleared"} \cup Awaits]
    /\ work \in [Workers -> Locals]
    /\ executed \in [Sessions -> SUBSET Steps]
    /\ recorded \in [Sessions -> SUBSET Steps]
    /\ crashes \in 0..MaxCrashes
    /\ \A w \in Workers :
         /\ pc[w] # "idle" => Sid(w) \in Sessions
         /\ pc[w] \in Awaits => work[w].n \in Steps

(* The step rows of a session have no gap, and neither have its            *)
(* checkpoints, whatever dies between a row and its checkpoint and however *)
(* many workers are on it; only the latest row can be without one.         *)
CheckpointsHaveNoGap ==
    \A s \in Sessions : \A n \in Rows(s) : 1..(n - 1) \subseteq Saved(s)

(* A worker that resumes goes on right after what was replayed to it: no   *)
(* step before resume_step is missing from replayed_steps, although they   *)
(* are read one after the other while other workers are saving, because    *)
(* the checkpoints have no gap; and a session is done when every step has  *)
(* run and has its checkpoint.                                             *)
NothingIsSkipped ==
    /\ CheckpointsHaveNoGap
    /\ \A w \in Workers :
        /\ pc[w] = "replay" => work[w].replayed = 1..(work[w].n - 1)
        /\ pc[w] \in Awaits \ {"latest", "replay"} => work[w].replayed = 1..work[w].last
        /\ pc[w] \in {"done", "cleared"} =>
              /\ Saved(Sid(w)) = Steps
              /\ executed[Sid(w)] = Steps

(* The result a worker goes on with, from the tool or from the table, is   *)
(* one of its own session, also when users share keys.                     *)
ResultsAreOwn == \A w \in Workers : work[w].result \in {NoSession, Sid(w)}

(* A worker never runs the tool of a step whose result was recorded, by    *)
(* whichever worker, when it called resume_from (idempotency.py:18, "so    *)
(* tool calls are not duplicated on resume"), wherever the workers died,   *)
(* whatever other users record and although a finished session's keys are  *)
(* cleared.  Two workers that are on a session at the same time can both   *)
(* run the tool of a step that neither had found recorded.                 *)
RecordedStepsAreNotRepeated ==
    [][\A w \in Workers : pc[w] = "execute" /\ pc'[w] = "record" => work[w].n \notin work[w].before]_vars

(* Every worker that was started finishes its session: no combination of   *)
(* rows, checkpoints and keys a crash leaves behind stops the next resume. *)
SessionsFinish == \A w \in Workers : pc[w] \in Awaits ~> pc[w] \in {"done", "cleared"}

=============================================================================
