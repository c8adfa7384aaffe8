------------------------------ MODULE ColdStart ------------------------------
(***************************************************************************)
(* Starting up: Agent.initialize, DatabaseConnection.initialize and        *)
(* MigrationRunner.run on one database file, by several tasks of a process *)
(* that may die and be started again.  A starter is the first call of an   *)
(* agent (agents that share the file, or concurrent calls of one agent,    *)
(* make a DatabaseConnection each), or code that opens the database        *)
(* itself.  Every statement commits by itself, as in ConnectionPool.       *)
(* Source: src/agent_sdk/db/migrations.py, db/connection.py, core/agent.py.*)
(***************************************************************************)
EXTENDS Integers, FiniteSets, FiniteSetsExt

CONSTANTS
    Starters,
    Direct,         \* those of them that keep their DatabaseConnection to try again
    LastVersion,    \* of _MIGRATIONS
    Parts,          \* statements of a migration, before its version is recorded
    MaxTries,       \* bound: calls of initialize by one starter
    MaxCrashes      \* bound: deaths of the process

ASSUME StarterAssumption == Direct \subseteq Starters
ASSUME MigrationAssumption == LastVersion \in Nat /\ Parts \in Nat \ {0}
ASSUME CrashAssumption == MaxTries \in Nat /\ MaxCrashes \in Nat

VARIABLES
    created,        \* tables and indexes there are: statements <<version, part>>
    versions,       \* rows of schema_version
    locked,         \* a connection in an open transaction has the write lock
    stage,          \* where each starter is
    at,             \* the statement it is at: <<version, part>>
    pooled,         \* DatabaseConnection._initialized
    tries, crashes

database == <<created, versions, locked>>
locals == <<at, pooled, tries>>
startVars == <<database, stage, locals, crashes>>

-----------------------------------------------------------------------------

Versions == 1..LastVersion
Statements == Versions \X (1..Parts)

(* MAX(version), or 0. *)
CurrentVersion == IF versions = {} THEN 0 ELSE Max(versions)

ColdInit ==
    /\ created = {}
    /\ versions = {}
    /\ locked = FALSE
    /\ stage = [s \in Starters |-> "off"]
    /\ at = [s \in Starters |-> <<1, 1>>]
    /\ pooled = [s \in Starters |-> FALSE]
    /\ tries = [s \in Starters |-> 0]
    /\ crashes = 0

Goto(s, where) == stage' = [stage EXCEPT ![s] = where]

(* initialize: a DatabaseConnection that is initialized returns at once.   *)
(* Agent.initialize makes a new one, if it has not succeeded before.       *)
Start(s) ==
    /\ stage[s] \in {"off", "raised"}
    /\ tries[s] < MaxTries
    /\ tries' = [tries EXCEPT ![s] = @ + 1]
    /\ IF s \in Direct /\ pooled[s]
       THEN Goto(s, "started") /\ UNCHANGED pooled
       ELSE Goto(s, "connecting") /\ pooled' = [pooled EXCEPT ![s] = FALSE]
    /\ UNCHANGED <<database, at, crashes>>

(* The pool is filled, _initialized set, and MigrationRunner.run called.   *)
Connect(s) ==
    /\ stage[s] = "connecting"
    /\ pooled' = [pooled EXCEPT ![s] = TRUE]
    /\ Goto(s, "reading")
    /\ UNCHANGED <<database, at, tries, crashes>>

(* The schema_version table is there, and its greatest version read; the   *)
(* loop begins at the first version above it.                              *)
ReadVersion(s) ==
    /\ stage[s] = "reading"
    /\ at' = [at EXCEPT ![s] = <<CurrentVersion + 1, 1>>]
    /\ Goto(s, IF CurrentVersion = LastVersion THEN "started" ELSE "creating")
    /\ UNCHANGED <<database, pooled, tries, crashes>>

PastPart(s) ==                          \* mutant: the version is recorded one statement early
    IF at[s][2] + 1 < Parts THEN <<at[s][1], at[s][2] + 1>> ELSE <<at[s][1], Parts + 1>>
NextPart(s) == <<at[s][1], at[s][2] + 1>>

NewOnly(s) == ~locked /\ at[s] \notin created   \* mutant: CREATE without IF NOT EXISTS
MayCreate(s) == at[s] \in created \/ ~locked

(* CREATE ... IF NOT EXISTS. *)
Create(s) ==
    /\ stage[s] = "creating"
    /\ at[s][2] <= Parts
    /\ MayCreate(s)
    /\ created' = created \cup {at[s]}
    /\ at' = [at EXCEPT ![s] = NextPart(s)]
    /\ UNCHANGED <<versions, locked, stage, pooled, tries, crashes>>

AtRecord(s) == stage[s] = "creating" /\ at[s][2] > Parts

OneTooFew(s) ==                         \* mutant: the loop leaves out the last version
    IF at[s][1] + 1 < LastVersion THEN "creating" ELSE "started"
NextVersion(s) == IF at[s][1] < LastVersion THEN "creating" ELSE "started"

(* INSERT INTO schema_version; the loop goes on from the version it is at, *)
(* whatever others have recorded meanwhile.                                *)
Record(s) ==
    /\ AtRecord(s)
    /\ ~locked
    /\ at[s][1] \notin versions
    /\ versions' = versions \cup {at[s][1]}
    /\ at' = [at EXCEPT ![s] = <<at[s][1] + 1, 1>>]
    /\ Goto(s, NextVersion(s))
    /\ UNCHANGED <<created, locked, pooled, tries, crashes>>

(* The version is recorded already: IntegrityError, and the connection     *)
(* goes back to its pool with the write lock.                              *)
RecordRejected(s) ==
    /\ AtRecord(s)
    /\ ~locked
    /\ at[s][1] \in versions
    /\ locked' = TRUE
    /\ Goto(s, "raised")
    /\ UNCHANGED <<created, versions, locals, crashes>>

(* "database is locked", after busy_timeout; also for a statement that     *)
(* would have nothing to do, if it has yet to look at the schema.          *)
StartLockedOut(s) ==
    /\ stage[s] = "creating"
    /\ locked
    /\ Goto(s, "raised")
    /\ UNCHANGED <<database, locals, crashes>>

(* The connection with the lock is closed by the interpreter, when nobody  *)
(* refers to it any more, or used for another write.                       *)
Unlock ==
    /\ locked
    /\ locked' = FALSE
    /\ UNCHANGED <<created, versions, stage, locals, crashes>>

(* The process dies; SQLite keeps what was committed. *)
Crash ==
    /\ crashes < MaxCrashes
    /\ crashes' = crashes + 1
    /\ locked' = FALSE
    /\ stage' = [s \in Starters |-> "off"]
    /\ pooled' = [s \in Starters |-> FALSE]
    /\ tries' = [s \in Starters |-> 0]
    /\ UNCHANGED <<created, versions, at>>

-----------------------------------------------------------------------------

StartStep(s) == Connect(s) \/ ReadVersion(s) \/ Create(s) \/ Record(s) \/ RecordRejected(s)
                \/ StartLockedOut(s)

ColdNext == (\E s \in Starters : Start(s) \/ StartStep(s)) \/ Unlock \/ Crash

ColdStartSpec == ColdInit /\ [][ColdNext]_startVars

(* The tasks run, and when none does somebody starts one, again after a    *)
(* crash.                                                                  *)
FairColdStart == /\ ColdStartSpec
                 /\ \A s \in Starters : WF_startVars(StartStep(s))
                 /\ WF_startVars((\A s \in Starters : stage[s] = "off") /\ \E s \in Starters : Start(s))

-----------------------------------------------------------------------------

(* The schema, and where each starter is in the loop over _MIGRATIONS. *)
StartersTypeOK ==
    /\ created \subseteq Statements
    /\ versions \subseteq Versions
    /\ locked \in BOOLEAN
    /\ stage \in [Starters -> {"off", "connecting", "reading", "creating", "started", "raised"}]
    /\ at \in [Starters -> (1..LastVersion + 1) \X (1..Parts + 1)]
    /\ pooled \in [Starters -> BOOLEAN]
    /\ tries \in [Starters -> 0..MaxTries]
    /\ crashes \in 0..MaxCrashes

(* A version that is recorded has all its tables, and all versions before  *)
(* it: current_version, which only looks at the greatest, is right after   *)
(* a crash at any statement and with several starters at work.             *)
RecordedMeansCreated ==
    \A v \in versions : \A w \in 1..v : w \in versions /\ {w} \X (1..Parts) \subseteq created

(* An agent that has started finds every table, whoever made it. *)
StartedFindsTables == \A s \in Starters \ Direct : stage[s] = "started" => Statements \subseteq created

(* A starter that has the file to itself is up in the end, however often   *)
(* the process died on it and on others before.                            *)
Alone(s) == \A o \in Starters \ {s} : stage[o] = "off"

StartSucceeds == \A s \in Starters : Alone(s) ~> stage[s] = "started" \/ ~Alone(s)

=============================================================================
