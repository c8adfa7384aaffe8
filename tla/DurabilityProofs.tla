-------------------------- MODULE DurabilityProofs --------------------------
(***************************************************************************)
(* Theorems about Durability, for every number of workers, sessions, users *)
(* and steps, whatever keys the rows get, and every number of crashes.     *)
(***************************************************************************)
EXTENDS Durability, TLAPS

(* Where a worker at p with the locals l stands, by the tables.  Before    *)
(* the step it is at, every step has its checkpoint.                       *)
WorkerOK(p, l) ==
    /\ p # "idle" => l.sid \in Sessions
    /\ p \in Awaits => l.n \in Steps
    /\ p = "latest" => l.n = 1 /\ l.last = 0 /\ l.replayed = {}
    /\ p = "replay" =>
         /\ l.n <= l.last
         /\ 1..l.last \subseteq Saved(l.sid)
         /\ l.replayed = 1..(l.n - 1)
    /\ p \in Awaits \ {"latest", "replay"} =>
         /\ l.replayed = 1..l.last
         /\ 1..(l.n - 1) \subseteq Saved(l.sid)
    /\ p \in {"check", "execute", "record", "find", "save"} => l.n \in Rows(l.sid)
    /\ p \in {"record", "find", "save"} => l.n \in executed[l.sid]
    /\ p \in {"done", "cleared"} => Saved(l.sid) = Steps
    /\ l.result \in {NoSession, l.sid}
    /\ p # "idle" => l.before \subseteq recorded[l.sid]
    /\ p = "execute" => l.n \notin l.before

WorkersOK == \A w \in Workers : WorkerOK(pc[w], work[w])

(* A step has a checkpoint only after its tool has run. *)
SavedWereExecuted == \A s \in Sessions : Saved(s) \subseteq executed[s]

(* Each row has a key, and no two rows of a user have the same. *)
RowsHaveKeys ==
    /\ \A s \in Sessions : \A n \in Steps : n \in Rows(s) <=> stepKey[s][n] # NoKey
    /\ \A s, t \in Sessions : \A m, n \in Steps :
         Owner[s] = Owner[t] /\ stepKey[s][m] = stepKey[t][n] /\ stepKey[s][m] # NoKey => s = t /\ m = n

(* Under a key is the session of a step that has that key, and has run. *)
KeysAreOfSteps ==
    \A k \in Keys : keys[k] # NoSession =>
        \E n \in Steps : stepKey[keys[k]][n] = k /\ n \in executed[keys[k]]

TablesOK == CheckpointsHaveNoGap /\ SavedWereExecuted /\ RowsHaveKeys /\ KeysAreOfSteps

(* All steps of s are saved, and the workers on it have nothing to do but  *)
(* replay them all.                                                        *)
Finished(s) ==
    /\ Saved(s) = Steps
    /\ \A w \in Workers : pc[w] \in Awaits /\ Sid(w) = s =>
         pc[w] = "latest" \/ (pc[w] = "replay" /\ work[w].last = MaxSteps)

(* The result of a recorded step is under the key of its row. *)
IsKept(s, n) == n \in Rows(s) /\ keys[stepKey[s][n]] = s

(* What was recorded stays until the session is finished. *)
RecordsAreKept == \A s \in Sessions : Finished(s) \/ \A n \in recorded[s] : IsKept(s, n)

IInv == TypeOK /\ WorkersOK /\ TablesOK /\ RecordsAreKept

Places == {"idle", "done", "cleared"} \cup Awaits

RowType == [Sessions -> [Steps -> {"none", "row", "saved"}]]

KeyType == [Sessions -> [Steps -> Keys \cup {NoKey}]]

SetsType == [Sessions -> SUBSET Steps]

USE StepAssumption, OwnerAssumption, KeyAssumption

-----------------------------------------------------------------------------

LEMMA StepNumbers == 1 \in Steps /\ Steps \subseteq Nat /\ \A n \in Steps : n >= 1 /\ n <= MaxSteps
BY DEF Steps

LEMMA FreshIsFine ==
    ASSUME NEW s \in Sessions \cup {NoSession}, NEW b \in SUBSET Steps
    PROVE  /\ Fresh(s, b) \in Locals /\ Fresh(s, b).sid = s /\ Fresh(s, b).n = 1
           /\ Fresh(s, b).last = 0 /\ Fresh(s, b).replayed = {}
           /\ Fresh(s, b).result = NoSession /\ Fresh(s, b).before = b
BY DEF Fresh, Locals, Steps

LEMMA InitIInv == Init => IInv
<1> SUFFICES ASSUME Init PROVE IInv
  OBVIOUS
<1>1. \A w \in Workers : work[w] = Fresh(NoSession, {})
  BY DEF Init
<1>2. TypeOK
  <2>1. work \in [Workers -> Locals]
    BY FreshIsFine DEF Init
  <2>2. crashes \in 0..MaxCrashes
    BY DEF Init
  <2> QED
    BY <2>1, <2>2 DEF Init, TypeOK, Awaits
<1>3. WorkersOK
  BY <1>1, FreshIsFine DEF Init, WorkersOK, WorkerOK, Awaits
<1>4. \A s \in Sessions : Rows(s) = {}
  BY DEF Init, Rows
<1>5. TablesOK /\ RecordsAreKept
  <2>1. \A s \in Sessions : Saved(s) = {}
    BY DEF Init, Saved
  <2> QED
    BY <1>4, <2>1 DEF Init, TablesOK, CheckpointsHaveNoGap, SavedWereExecuted, RowsHaveKeys,
        KeysAreOfSteps, RecordsAreKept
<1> QED
  BY <1>2, <1>3, <1>5 DEF IInv

-----------------------------------------------------------------------------

(* One worker moves, and all that is in the tables but keys only grows:    *)
(* the others stand where they stood.                                      *)
Grown ==
    \A s \in Sessions :
        /\ Saved(s) \subseteq Saved(s)' /\ Saved(s)' \subseteq Steps
        /\ Rows(s) \subseteq Rows(s)'
        /\ executed[s] \subseteq executed'[s]
        /\ recorded[s] \subseteq recorded'[s]
        /\ \A n \in Rows(s) : stepKey'[s][n] = stepKey[s][n]

TablesTyped ==
    /\ rows \in RowType /\ stepKey \in KeyType /\ keys \in [Keys -> Sessions \cup {NoSession}]
    /\ executed \in SetsType /\ recorded \in SetsType /\ crashes \in 0..MaxCrashes

LEMMA Typed == IInv => TablesTyped
BY DEF IInv, TypeOK, TablesTyped, RowType, KeyType, SetsType

LEMMA WorkerMoves ==
    ASSUME IInv, NEW w \in Workers, NEW p \in Places, NEW l \in Locals,
           pc' = [pc EXCEPT ![w] = p],
           work' = [work EXCEPT ![w] = l],
           Grown, WorkerOK(p, l)'
    PROVE  /\ pc' \in [Workers -> Places] /\ work' \in [Workers -> Locals]
           /\ WorkersOK'
<1>1. pc' \in [Workers -> Places] /\ work' \in [Workers -> Locals]
  BY DEF IInv, TypeOK, Places
<1>2. ASSUME NEW v \in Workers PROVE WorkerOK(pc[v], work[v])'
  <2>1. CASE v = w
    <3>1. pc'[v] = p /\ work'[v] = l
      BY <2>1 DEF IInv, TypeOK
    <3> QED
      BY <3>1 DEF WorkerOK
  <2>2. CASE v # w
    <3>1. pc'[v] = pc[v] /\ work'[v] = work[v]
      BY <2>2 DEF IInv, TypeOK
    <3>2. WorkerOK(pc[v], work[v]) /\ work[v] \in Locals
      BY DEF IInv, WorkersOK, TypeOK
    <3>3. CASE pc[v] = "idle"
      BY <3>1, <3>2, <3>3 DEF WorkerOK, Awaits
    <3>4. CASE pc[v] # "idle"
      <4>1. PICK s \in Sessions, q \in Places, l0 \in Locals :
              s = work[v].sid /\ q = pc[v] /\ l0 = work[v]
        BY <3>2, <3>4 DEF WorkerOK, Places, IInv, TypeOK
      <4>2. /\ Saved(s) \subseteq Saved(s)' /\ Saved(s)' \subseteq Steps
            /\ Rows(s) \subseteq Rows(s)' /\ executed[s] \subseteq executed'[s]
            /\ recorded[s] \subseteq recorded'[s]
        BY DEF Grown
      <4>3. WorkerOK(q, l0) /\ l0.sid = s
        BY <3>2, <4>1
      <4>4. WorkerOK(q, l0)'
        BY <4>2, <4>3 DEF WorkerOK
      <4> QED
        BY <3>1, <4>1, <4>4 DEF WorkerOK
    <3> QED
      BY <3>3, <3>4
  <2> QED
    BY <2>1, <2>2
<1> QED
  BY <1>1, <1>2 DEF WorkersOK

(* What was recorded stays: a key that is taken stays taken, and the       *)
(* worker that moves adds only what it has recorded under the step's key.  *)
LEMMA RecordsStay ==
    ASSUME IInv, NEW w \in Workers, NEW p \in Places, NEW l \in Locals,
           pc' = [pc EXCEPT ![w] = p],
           work' = [work EXCEPT ![w] = l],
           Grown, TablesTyped',
           \A k \in Keys : keys[k] # NoSession => keys'[k] = keys[k],
           \A s \in Sessions : \A n \in recorded'[s] : n \in recorded[s] \/ (~Finished(s) /\ IsKept(s, n)'),
           p \in Awaits /\ Finished(l.sid) => p = "latest" \/ (p = "replay" /\ l.last = MaxSteps)
    PROVE  RecordsAreKept'
<1> SUFFICES ASSUME NEW s \in Sessions
             PROVE  Finished(s)' \/ \A n \in recorded'[s] : IsKept(s, n)'
  BY DEF RecordsAreKept
<1>1. /\ pc'[w] = p /\ work'[w] = l
      /\ \A v \in Workers : v # w => pc'[v] = pc[v] /\ work'[v] = work[v]
  BY DEF IInv, TypeOK
<1>2. CASE Finished(s)
  <2>1. Saved(s)' = Steps
    BY <1>2 DEF Finished, Grown
  <2>2. ASSUME NEW v \in Workers, pc'[v] \in Awaits, Sid(v)' = s
        PROVE  pc'[v] = "latest" \/ (pc'[v] = "replay" /\ work'[v].last = MaxSteps)
    <3>1. CASE v = w
      BY <1>1, <1>2, <2>2, <3>1 DEF Sid
    <3>2. CASE v # w
      BY <1>1, <1>2, <2>2, <3>2 DEF Sid, Finished
    <3> QED
      BY <3>1, <3>2
  <2> QED
    BY <2>1, <2>2 DEF Finished
<1>3. CASE ~Finished(s)
  <2> SUFFICES ASSUME NEW n \in recorded'[s] PROVE IsKept(s, n)'
    OBVIOUS
  <2>1. CASE n \in recorded[s]
    <3>1. IsKept(s, n)
      BY <1>3, <2>1 DEF IInv, RecordsAreKept
    <3>2. n \in Steps /\ n \in Rows(s)' /\ stepKey'[s][n] = stepKey[s][n]
      BY <3>1 DEF IsKept, Grown, Rows
    <3>3. stepKey[s][n] \in Keys
      BY <3>1, <3>2 DEF IsKept, IInv, TypeOK, TablesOK, RowsHaveKeys
    <3> QED
      BY <3>1, <3>2, <3>3 DEF IsKept
  <2>2. CASE n \notin recorded[s]
    BY <2>2
  <2> QED
    BY <2>1, <2>2
<1> QED
  BY <1>2, <1>3

(* A worker that is at a step has not finished its session. *)
LEMMA AtStepUnfinished ==
    ASSUME IInv, NEW w \in Workers, pc[w] \in Awaits \ {"latest", "replay"}
    PROVE  ~Finished(Sid(w))
BY DEF Finished

(* Every move of a worker but clear. *)
LEMMA MoveKeeps ==
    ASSUME IInv, NEW w \in Workers, NEW p \in Places \ {"idle"}, NEW l \in Locals,
           pc' = [pc EXCEPT ![w] = p],
           work' = [work EXCEPT ![w] = l],
           Grown, TablesTyped', TablesOK', WorkerOK(p, l)',
           \A k \in Keys : keys[k] # NoSession => keys'[k] = keys[k],
           \A s \in Sessions : \A n \in recorded'[s] : n \in recorded[s] \/ (~Finished(s) /\ IsKept(s, n)'),
           p \in Awaits /\ Finished(l.sid) => p = "latest" \/ (p = "replay" /\ l.last = MaxSteps)
    PROVE  IInv'
<1>1. /\ pc' \in [Workers -> Places] /\ work' \in [Workers -> Locals]
      /\ WorkersOK'
  BY WorkerMoves
<1>2. RecordsAreKept'
  BY RecordsStay
<1>3. TypeOK'
  <2>1. \A v \in Workers : /\ pc'[v] # "idle" => Sid(v)' \in Sessions
                           /\ pc'[v] \in Awaits => work'[v].n \in Steps
    BY <1>1 DEF WorkersOK, WorkerOK, Sid
  <2> QED
    BY <1>1, <2>1 DEF TablesTyped, RowType, KeyType, SetsType, TypeOK, Places
<1> QED
  BY <1>1, <1>2, <1>3 DEF IInv

(* Steps that only read the tables. *)
LEMMA LocalMove ==
    ASSUME IInv, NEW w \in Workers, NEW p \in Places \ {"idle"}, NEW l \in Locals,
           pc' = [pc EXCEPT ![w] = p],
           work' = [work EXCEPT ![w] = l],
           UNCHANGED <<rows, stepKey, keys, executed, recorded>>,
           crashes' \in 0..MaxCrashes,
           WorkerOK(p, l),
           p \in Awaits /\ Finished(l.sid) => p = "latest" \/ (p = "replay" /\ l.last = MaxSteps)
    PROVE  IInv'
<1>1. \A s \in Sessions : Saved(s)' = Saved(s) /\ Rows(s)' = Rows(s) /\ Saved(s) \subseteq Steps
  BY DEF Saved, Rows
<1>2. WorkerOK(p, l)'
  BY <1>1 DEF WorkerOK, Saved, Rows
<1>3. Grown
  BY <1>1 DEF Grown
<1>4. TablesTyped'
  BY Typed DEF TablesTyped
<1>5. TablesOK'
  BY <1>1 DEF IInv, TablesOK, CheckpointsHaveNoGap, SavedWereExecuted, RowsHaveKeys, KeysAreOfSteps
<1> QED
  BY <1>2, <1>3, <1>4, <1>5, MoveKeeps

(* resume_from: at its start the worker has nothing, and what was recorded *)
(* is recorded.                                                            *)
LEMMA ResumeIsFine ==
    ASSUME IInv, NEW s \in Sessions
    PROVE  /\ Fresh(s, recorded[s]) \in Locals /\ Fresh(s, recorded[s]).sid = s
           /\ WorkerOK("latest", Fresh(s, recorded[s]))
<1>1. recorded[s] \in SUBSET Steps
  BY DEF IInv, TypeOK
<1> QED
  BY <1>1, FreshIsFine, StepNumbers DEF WorkerOK, Awaits

LEMMA StartKeeps ==
    ASSUME IInv, NEW w \in Workers, NEW s \in Sessions, Start(w, s)
    PROVE  IInv'
<1>1. /\ pc' = [pc EXCEPT ![w] = "latest"]
      /\ work' = [work EXCEPT ![w] = Fresh(s, recorded[s])]
      /\ UNCHANGED <<rows, stepKey, keys, executed, recorded, crashes>>
      /\ crashes' \in 0..MaxCrashes
  BY DEF Start, Resume, Goto, Locally, IInv, TypeOK
<1> QED
  BY <1>1, ResumeIsFine, LocalMove DEF Places, Awaits

LEMMA CrashKeeps ==
    ASSUME IInv, NEW w \in Workers, Crash(w)
    PROVE  IInv'
<1>1. Sid(w) \in Sessions
  BY DEF Crash, IInv, TypeOK, Awaits
<1>2. /\ pc' = [pc EXCEPT ![w] = "latest"]
      /\ work' = [work EXCEPT ![w] = Fresh(Sid(w), recorded[Sid(w)])]
      /\ UNCHANGED <<rows, stepKey, keys, executed, recorded>>
      /\ crashes' \in 0..MaxCrashes
  BY DEF Crash, Resume, Goto, Locally, IInv, TypeOK
<1> QED
  BY <1>1, <1>2, ResumeIsFine, LocalMove DEF Places, Awaits

LEMMA LatestOfAll ==
    ASSUME NEW s \in Sessions, Saved(s) = Steps
    PROVE  LatestRow(s) = MaxSteps /\ LatestIsSaved(s)
<1>1. Rows(s) = Steps
  BY DEF Saved, Rows
<1>2. MaxSteps \in Steps /\ \A m \in Steps : m <= MaxSteps
  BY DEF Steps
<1>3. LatestRow(s) = CHOOSE n \in Steps : \A m \in Steps : m <= n
  BY <1>1, <1>2 DEF LatestRow
<1>4. LatestRow(s) \in Steps /\ \A m \in Steps : m <= LatestRow(s)
  BY <1>2, <1>3
<1> QED
  BY <1>2, <1>4 DEF LatestIsSaved, Steps

(* load_latest: whatever row it looks at, if that one has a checkpoint all *)
(* earlier ones have.                                                      *)
LEMMA LoadLatestKeeps ==
    ASSUME IInv, NEW w \in Workers, LoadLatest(w)
    PROVE  IInv'
<1> DEFINE s == Sid(w)
<1>1. /\ pc[w] = "latest" /\ s \in Sessions /\ work[w] \in Locals
      /\ work[w].n = 1 /\ work[w].last = 0 /\ work[w].replayed = {}
      /\ work[w].sid = s /\ work[w].result \in {NoSession, s}
      /\ work[w].before \subseteq recorded[s]
  BY DEF LoadLatest, IInv, TypeOK, WorkersOK, WorkerOK, Awaits, Sid
<1>2. UNCHANGED <<rows, stepKey, keys, executed, recorded, crashes>> /\ crashes' \in 0..MaxCrashes
  BY DEF LoadLatest, IInv, TypeOK
<1>3. CASE LatestIsSaved(s)
  <2> DEFINE n == LatestRow(s)
             l == [work[w] EXCEPT !.last = n]
  <2>1. n \in Steps /\ n \in Rows(s) /\ n \in Saved(s)
    BY <1>3 DEF LatestIsSaved, Saved, Rows
  <2>2. 1..n \subseteq Saved(s)
    <3>1. 1..(n - 1) \subseteq Saved(s)
      BY <1>1, <2>1 DEF IInv, TablesOK, CheckpointsHaveNoGap
    <3>2. \A m \in 1..n : m \in 1..(n - 1) \/ m = n
      BY <2>1 DEF Steps
    <3> QED
      BY <2>1, <3>1, <3>2
  <2>6. Finished(s) => n = MaxSteps
    BY <1>1, LatestOfAll DEF Finished
  <2> HIDE DEF n
  <2>3. /\ l \in Locals /\ l.sid = s /\ l.n = 1 /\ l.last = n /\ l.replayed = {}
        /\ l.result \in {NoSession, s} /\ l.before = work[w].before
    BY SMTT(30), <1>1, <2>1 DEF Locals, Steps
  <2>4. pc' = [pc EXCEPT ![w] = "replay"] /\ work' = [work EXCEPT ![w] = l]
    BY <1>3 DEF LoadLatest, Goto, Locally, n
  <2> HIDE DEF l
  <2>5. WorkerOK("replay", l)
    BY <1>1, <2>1, <2>2, <2>3 DEF WorkerOK, Awaits, Steps
  <2> QED
    BY <1>2, <2>3, <2>4, <2>5, <2>6, LocalMove DEF Places, Awaits
<1>4. CASE ~LatestIsSaved(s)
  <2>1. pc' = [pc EXCEPT ![w] = "row"] /\ work' = [work EXCEPT ![w] = work[w]]
    BY <1>4 DEF LoadLatest, Goto, IInv, TypeOK
  <2>2. WorkerOK("row", work[w])
    BY <1>1 DEF WorkerOK, Awaits, Steps
  <2>3. ~Finished(s)
    BY <1>1, <1>4, LatestOfAll DEF Finished
  <2> QED
    BY <1>1, <1>2, <2>1, <2>2, <2>3, LocalMove DEF Places, Awaits
<1> QED
  BY <1>3, <1>4

LEMMA ReplayKeeps ==
    ASSUME IInv, NEW w \in Workers, ReplayStep(w)
    PROVE  IInv'
<1> DEFINE s == Sid(w)
           n == work[w].n
           last == work[w].last
           p == IF n < last THEN "replay" ELSE IF n < MaxSteps THEN "row" ELSE "done"
           l == [work[w] EXCEPT !.replayed = 1..n, !.n = n + 1]
<1>1. /\ pc[w] = "replay" /\ s \in Sessions /\ work[w] \in Locals
      /\ n \in Steps /\ last \in Steps /\ n <= last
      /\ 1..last \subseteq Saved(s)
      /\ work[w].replayed = 1..(n - 1)
      /\ work[w].sid = s /\ work[w].result \in {NoSession, s}
      /\ work[w].before \subseteq recorded[s]
  BY DEF ReplayStep, IInv, TypeOK, WorkersOK, WorkerOK, Awaits, Sid, Locals, Steps
<1>2. UNCHANGED <<rows, stepKey, keys, executed, recorded, crashes>> /\ crashes' \in 0..MaxCrashes
  BY DEF ReplayStep, IInv, TypeOK
<1>3. n \in Saved(s) /\ 1..(n - 1) \cup {n} = 1..n /\ 1..n \subseteq Steps
  BY <1>1 DEF Steps
<1>4. pc' = [pc EXCEPT ![w] = p] /\ work' = [work EXCEPT ![w] = l]
  <2>1. work[w].replayed \cup ({n} \cap Saved(s)) = 1..n
    BY <1>1, <1>3
  <2> QED
    BY <2>1 DEF ReplayStep, Goto, Locally
<1>5. /\ l \in Locals /\ l.sid = s /\ l.n = n + 1 /\ l.last = last
      /\ l.replayed = 1..n /\ l.result \in {NoSession, s} /\ l.before = work[w].before
  <2>1. n + 1 \in 1..(MaxSteps + 1) /\ 1..n \in SUBSET Steps
    BY <1>1, <1>3 DEF Steps
  <2>2. work[w] \in Locals /\ work[w].sid = s /\ work[w].last = last
        /\ work[w].result \in {NoSession, s}
    BY <1>1
  <2> HIDE DEF s, n, last
  <2> QED
    BY <2>1, <2>2 DEF Locals
<1>6. \/ p = "replay" /\ n + 1 <= last
      \/ p = "row" /\ n = last /\ n + 1 \in Steps
      \/ p = "done" /\ n = last /\ n = MaxSteps
  BY <1>1 DEF Steps
<1>10. Finished(s) => last = MaxSteps
  BY <1>1 DEF Finished, Awaits
<1> HIDE DEF p, l, n, last, s
<1>7. WorkerOK(p, l)
  <2>1. CASE p = "replay" /\ n + 1 <= last
    BY <1>1, <1>5, <2>1 DEF WorkerOK, Awaits, Steps
  <2>2. CASE p = "row" /\ n = last /\ n + 1 \in Steps
    BY <1>1, <1>5, <2>2 DEF WorkerOK, Awaits, Steps
  <2>3. CASE p = "done" /\ n = last /\ n = MaxSteps
    <3>1. Saved(s) = Steps
      BY <1>1, <2>3 DEF Steps, Saved
    <3> QED
      BY <1>1, <1>5, <2>3, <3>1 DEF WorkerOK, Awaits
  <2> QED
    BY <1>6, <2>1, <2>2, <2>3
<1>8. p \in Places \ {"idle"}
  BY <1>6 DEF Places, Awaits
<1>9. l \in Locals /\ l.sid = s
  BY <1>5
<1>11. Finished(l.sid) => p = "done" \/ (p = "replay" /\ l.last = MaxSteps)
  BY <1>1, <1>5, <1>6, <1>9, <1>10 DEF Steps
<1>12. "done" \notin Awaits
  BY DEF Awaits
<1> QED
  BY <1>2, <1>4, <1>7, <1>8, <1>9, <1>11, <1>12, LocalMove

-----------------------------------------------------------------------------
(* The steps of a worker at a step of its session. *)

(* A key the user of a session has recorded is the key of this very step. *)
LEMMA OwnKey ==
    ASSUME IInv, NEW w \in Workers, Sid(w) \in Sessions, work[w].n \in Rows(Sid(w)), UserRecorded(w)
    PROVE  keys[Key(w)] = Sid(w) /\ work[w].n \in executed[Sid(w)]
<1>1. PICK s \in Sessions, n \in Steps, k \in Keys, t \in Sessions :
        s = Sid(w) /\ n = work[w].n /\ k = Key(w) /\ k = stepKey[s][n] /\ t = keys[k]
  <2>1. work[w].n \in Steps
    BY DEF Rows
  <2>2. Key(w) \in Keys
    BY <2>1 DEF Key, IInv, TypeOK, TablesOK, RowsHaveKeys
  <2>3. keys[Key(w)] \in Sessions
    BY <2>2 DEF UserRecorded, IInv, TypeOK
  <2> QED
    BY <2>1, <2>2, <2>3 DEF Key
<1>2. Owner[t] = Owner[s]
  BY <1>1 DEF UserRecorded, User
<1>3. PICK m \in Steps : stepKey[t][m] = k /\ m \in executed[t]
  BY <1>1 DEF IInv, TablesOK, KeysAreOfSteps
<1>4. t = s /\ m = n
  <2>1. stepKey[t][m] = stepKey[s][n] /\ stepKey[t][m] # NoKey
    BY <1>1, <1>3
  <2>2. \A s1, t1 \in Sessions : \A m1, n1 \in Steps :
          Owner[s1] = Owner[t1] /\ stepKey[s1][m1] = stepKey[t1][n1] /\ stepKey[s1][m1] # NoKey
            => s1 = t1 /\ m1 = n1
    BY DEF IInv, TablesOK, RowsHaveKeys
  <2> QED
    BY <1>2, <2>1, <2>2
<1> QED
  BY <1>1, <1>3, <1>4

LEMMA OneRow ==
    ASSUME rows \in RowType, NEW s \in Sessions, NEW n \in Steps, NEW x \in {"row", "saved"},
           rows' = [rows EXCEPT ![s][n] = x]
    PROVE  /\ rows' \in RowType
           /\ \A t \in Sessions \ {s} : Rows(t)' = Rows(t) /\ Saved(t)' = Saved(t)
           /\ Rows(s)' = Rows(s) \cup {n}
           /\ Saved(s)' = IF x = "saved" THEN Saved(s) \cup {n} ELSE Saved(s) \ {n}
           /\ \A t \in Sessions : Saved(t)' \subseteq Steps
BY DEF RowType, Rows, Saved

LEMMA AtStep ==
    ASSUME IInv, NEW w \in Workers, pc[w] \in Awaits \ {"latest", "replay"}
    PROVE  /\ Sid(w) \in Sessions /\ work[w] \in Locals /\ work[w].sid = Sid(w)
           /\ work[w].n \in Steps
           /\ WorkerOK(pc[w], work[w])
           /\ work[w].replayed = 1..work[w].last
           /\ 1..(work[w].n - 1) \subseteq Saved(Sid(w))
           /\ work[w].result \in {NoSession, Sid(w)}
           /\ work[w].before \subseteq recorded[Sid(w)]
           /\ ~Finished(Sid(w))
BY AtStepUnfinished DEF IInv, TypeOK, WorkersOK, WorkerOK, Awaits, Sid

LEMMA LookKeeps ==
    ASSUME IInv, NEW w \in Workers, LookForRow(w)
    PROVE  IInv'
<1> DEFINE p == IF HasRow(w) THEN "check" ELSE "create"
<1>1. /\ pc[w] = "row" /\ pc' = [pc EXCEPT ![w] = p] /\ work' = [work EXCEPT ![w] = work[w]]
      /\ UNCHANGED <<rows, stepKey, keys, executed, recorded, crashes>> /\ crashes' \in 0..MaxCrashes
  BY DEF LookForRow, Goto, IInv, TypeOK
<1>2. pc[w] \in Awaits \ {"latest", "replay"} /\ p \in Places \ {"idle"}
  BY <1>1 DEF Awaits, Places
<1>3. p = "check" => work[w].n \in Rows(Sid(w))
  BY DEF HasRow
<1>5. p \in {"check", "create"}
  OBVIOUS
<1> HIDE DEF p
<1>4. WorkerOK(p, work[w])
  BY <1>2, <1>3, <1>5, AtStep DEF WorkerOK, Awaits
<1> QED
  BY <1>1, <1>2, <1>4, AtStep, LocalMove

(* The row of a step goes in with a key that no other row of its user has. *)
LEMMA CreateKeeps ==
    ASSUME IInv, NEW w \in Workers, CreateRow(w)
    PROVE  IInv'
<1>1. pc[w] = "create" /\ UNCHANGED <<keys, executed, recorded, crashes>> /\ crashes' \in 0..MaxCrashes
  BY DEF CreateRow, IInv, TypeOK
<1>2. pc[w] \in Awaits \ {"latest", "replay"}
  BY <1>1 DEF Awaits
<1>3. CASE work[w].n \in Rows(Sid(w))
  <2>1. /\ pc' = [pc EXCEPT ![w] = "latest"]
        /\ work' = [work EXCEPT ![w] = Fresh(Sid(w), recorded[Sid(w)])]
        /\ UNCHANGED <<rows, stepKey>>
    BY <1>3 DEF CreateRow, Resume, Goto, Locally
  <2>2. Sid(w) \in Sessions
    BY <1>2, AtStep
  <2> QED
    BY <1>1, <2>1, <2>2, ResumeIsFine, LocalMove DEF Places, Awaits
<1>4. CASE work[w].n \notin Rows(Sid(w))
  <2>1. PICK s \in Sessions, n \in Steps, l \in Locals :
          /\ s = Sid(w) /\ n = work[w].n /\ l = work[w] /\ l.sid = s /\ l.n = n
          /\ 1..(n - 1) \subseteq Saved(s) /\ ~Finished(s)
          /\ l.replayed = 1..l.last /\ l.result \in {NoSession, s} /\ l.before \subseteq recorded[s]
    BY <1>2, AtStep
  <2>2. PICK k \in Keys \ UsedBy(User(w)) : stepKey' = [stepKey EXCEPT ![s][n] = k]
    BY <1>4, <2>1 DEF CreateRow
  <2>3. /\ rows' = [rows EXCEPT ![s][n] = "row"] /\ pc' = [pc EXCEPT ![w] = "check"]
        /\ work' = [work EXCEPT ![w] = l] /\ n \notin Rows(s)
    BY <1>4, <2>1 DEF CreateRow, Goto, IInv, TypeOK
  <2>4. rows \in RowType /\ stepKey \in KeyType /\ TablesTyped
    BY Typed DEF TablesTyped
  <2>5. n \notin Saved(s) /\ stepKey[s][n] = NoKey
    BY <2>3 DEF Saved, Rows, IInv, TablesOK, RowsHaveKeys
  <2>6. /\ rows' \in RowType
        /\ \A t \in Sessions \ {s} : Rows(t)' = Rows(t) /\ Saved(t)' = Saved(t)
        /\ Rows(s)' = Rows(s) \cup {n}
        /\ Saved(s)' = Saved(s)
        /\ \A t \in Sessions : Saved(t)' \subseteq Steps
    <3>1. /\ rows' \in RowType
          /\ \A t \in Sessions \ {s} : Rows(t)' = Rows(t) /\ Saved(t)' = Saved(t)
          /\ Rows(s)' = Rows(s) \cup {n}
          /\ Saved(s)' = IF "row" = "saved" THEN Saved(s) \cup {n} ELSE Saved(s) \ {n}
          /\ \A t \in Sessions : Saved(t)' \subseteq Steps
      BY <2>3, <2>4, OneRow, "row" \in {"row", "saved"}
    <3> QED
      BY <2>5, <3>1
  <2>7. /\ stepKey' \in KeyType /\ stepKey'[s][n] = k
        /\ \A t \in Sessions : \A m \in Steps : t # s \/ m # n => stepKey'[t][m] = stepKey[t][m]
    BY <2>2, <2>4 DEF KeyType
  <2>8. \A t \in Sessions : Saved(t) = Saved(t)' /\ Rows(t) \subseteq Rows(t)'
    BY <2>6
  <2>9. Grown
    <3>1. \A t \in Sessions : \A m \in Rows(t) : m \in Steps /\ (t # s \/ m # n)
      BY <2>3 DEF Rows
    <3> QED
      BY <1>1, <2>6, <2>7, <2>8, <3>1 DEF Grown
  <2>10. TablesTyped'
    BY <1>1, <2>4, <2>6, <2>7 DEF TablesTyped
  <2>11. CheckpointsHaveNoGap' /\ SavedWereExecuted'
    <3>1. \A t \in Sessions : \A m \in Rows(t)' : m \in Rows(t) \/ (t = s /\ m = n)
      BY <2>6
    <3>2. \A t \in Sessions : \A m \in Rows(t)' : 1..(m - 1) \subseteq Saved(t)
      BY <2>1, <3>1 DEF IInv, TablesOK, CheckpointsHaveNoGap
    <3> QED
      BY <1>1, <2>8, <3>2 DEF IInv, TablesOK, CheckpointsHaveNoGap, SavedWereExecuted
  <2>12. \A t \in Sessions : \A m \in Steps : Owner[t] = Owner[s] => stepKey[t][m] # k
    BY <2>1, <2>2 DEF UsedBy, User
  <2>13. RowsHaveKeys'
    <3>1. \A t \in Sessions : \A m \in Steps : m \in Rows(t)' <=> stepKey'[t][m] # NoKey
      BY <2>6, <2>7 DEF IInv, TablesOK, RowsHaveKeys
    <3>2. ASSUME NEW t \in Sessions, NEW u \in Sessions, NEW m \in Steps, NEW j \in Steps,
                 Owner[t] = Owner[u], stepKey'[t][m] = stepKey'[u][j], stepKey'[t][m] # NoKey
          PROVE  t = u /\ m = j
      <4>1. CASE t = s /\ m = n
        BY <2>7, <2>12, <3>2, <4>1
      <4>2. CASE u = s /\ j = n
        BY <2>7, <2>12, <3>2, <4>2
      <4>3. CASE (t # s \/ m # n) /\ (u # s \/ j # n)
        <5>1. stepKey'[t][m] = stepKey[t][m] /\ stepKey'[u][j] = stepKey[u][j]
          BY <2>7, <4>3
        <5>2. stepKey[t][m] = stepKey[u][j] /\ stepKey[t][m] # NoKey
          BY <3>2, <5>1
        <5>3. \A s1, t1 \in Sessions : \A m1, n1 \in Steps :
                Owner[s1] = Owner[t1] /\ stepKey[s1][m1] = stepKey[t1][n1] /\ stepKey[s1][m1] # NoKey
                  => s1 = t1 /\ m1 = n1
          BY DEF IInv, TablesOK, RowsHaveKeys
        <5> QED
          BY <3>2, <5>2, <5>3
      <4> QED
        BY <4>1, <4>2, <4>3
    <3> QED
      BY <3>1, <3>2 DEF RowsHaveKeys
  <2>14. KeysAreOfSteps'
    <3> SUFFICES ASSUME NEW j \in Keys, keys[j] # NoSession
                 PROVE  \E m \in Steps : stepKey'[keys[j]][m] = j /\ m \in executed[keys[j]]
      BY <1>1 DEF KeysAreOfSteps
    <3>1. keys[j] \in Sessions
      BY DEF IInv, TypeOK
    <3>2. PICK m \in Steps : stepKey[keys[j]][m] = j /\ m \in executed[keys[j]]
      BY DEF IInv, TablesOK, KeysAreOfSteps
    <3>3. keys[j] # s \/ m # n
      BY <2>5, <3>2
    <3> QED
      BY <2>7, <3>1, <3>2, <3>3
  <2>15. WorkerOK("check", l)'
    <3>1. n \in Rows(s)' /\ 1..(n - 1) \subseteq Saved(s)' /\ recorded' = recorded
      BY <1>1, <2>1, <2>6
    <3> QED
      BY <2>1, <3>1 DEF WorkerOK, Awaits
  <2>16. ~Finished(l.sid) /\ "check" \in Places \ {"idle"}
    BY <2>1 DEF Places, Awaits
  <2> QED
    BY <1>1, <2>3, <2>9, <2>10, <2>11, <2>13, <2>14, <2>15, <2>16, MoveKeeps DEF TablesOK
<1> QED
  BY <1>3, <1>4

(* A worker that finds no result under the key of its step was not told    *)
(* that there is one when it resumed.                                      *)
LEMMA CheckKeeps ==
    ASSUME IInv, NEW w \in Workers, CheckKey(w)
    PROVE  IInv'
<1>1. /\ pc[w] = "check"
      /\ UNCHANGED <<rows, stepKey, keys, executed, recorded, crashes>> /\ crashes' \in 0..MaxCrashes
  BY DEF CheckKey, IInv, TypeOK
<1>2. pc[w] \in Awaits \ {"latest", "replay"} /\ work[w].n \in Rows(Sid(w))
  BY <1>1, AtStep DEF Awaits, WorkerOK
<1>3. CASE UserRecorded(w)
  <2> DEFINE l == [work[w] EXCEPT !.result = Sid(w)]
  <2>1. keys[Key(w)] = Sid(w) /\ work[w].n \in executed[Sid(w)]
    BY <1>2, <1>3, AtStep, OwnKey
  <2>2. pc' = [pc EXCEPT ![w] = "find"] /\ work' = [work EXCEPT ![w] = l]
    BY <1>3, <2>1 DEF CheckKey, Goto, Locally
  <2>3. /\ l \in Locals /\ l.sid = Sid(w) /\ l.n = work[w].n /\ l.last = work[w].last
        /\ l.replayed = work[w].replayed /\ l.result = Sid(w) /\ l.before = work[w].before
    <3>1. work[w] \in Locals /\ work[w].sid = Sid(w) /\ Sid(w) \in Sessions
      BY <1>2, AtStep
    <3> QED
      BY <3>1 DEF Locals
  <2> HIDE DEF l
  <2>4. WorkerOK("find", l)
    BY <1>2, <2>1, <2>3, AtStep DEF WorkerOK, Awaits
  <2> QED
    BY <1>1, <1>2, <2>2, <2>3, <2>4, AtStep, LocalMove DEF Places, Awaits
<1>4. CASE ~UserRecorded(w)
  <2>1. pc' = [pc EXCEPT ![w] = "execute"] /\ work' = [work EXCEPT ![w] = work[w]]
    BY <1>4 DEF CheckKey, Goto, IInv, TypeOK
  <2>2. work[w].n \notin work[w].before
    <3> SUFFICES ASSUME work[w].n \in work[w].before PROVE FALSE
      OBVIOUS
    <3>1. work[w].n \in recorded[Sid(w)] /\ Sid(w) \in Sessions /\ ~Finished(Sid(w))
      BY <1>2, AtStep
    <3>2. IsKept(Sid(w), work[w].n)
      BY <3>1 DEF IInv, RecordsAreKept
    <3> QED
      BY <1>4, <3>1, <3>2 DEF IsKept, Key, UserRecorded, User
  <2>3. WorkerOK("execute", work[w])
    BY <1>2, <2>2, AtStep DEF WorkerOK, Awaits
  <2>4. "execute" \in Places \ {"idle"}
    BY DEF Places, Awaits
  <2> QED
    BY <1>1, <1>2, <2>1, <2>3, <2>4, AtStep, LocalMove
<1> QED
  BY <1>3, <1>4

(* Its row is there, so that save goes on. *)
LEMMA FindKeeps ==
    ASSUME IInv, NEW w \in Workers, FindRow(w)
    PROVE  IInv'
<1>1. /\ pc[w] = "find"
      /\ UNCHANGED <<rows, stepKey, keys, executed, recorded, crashes>> /\ crashes' \in 0..MaxCrashes
  BY DEF FindRow, IInv, TypeOK
<1>2. pc[w] \in Awaits \ {"latest", "replay"}
  BY <1>1 DEF Awaits
<1>3. work[w].n \in Rows(Sid(w)) /\ work[w].n \in executed[Sid(w)]
  BY <1>1, <1>2, AtStep DEF WorkerOK
<1>4. pc' = [pc EXCEPT ![w] = "save"] /\ work' = [work EXCEPT ![w] = work[w]]
  BY <1>3 DEF FindRow, Goto, IInv, TypeOK
<1>5. WorkerOK("save", work[w])
  BY <1>2, <1>3, AtStep DEF WorkerOK, Awaits
<1>6. "save" \in Places \ {"idle"}
  BY DEF Places, Awaits
<1> QED
  BY <1>1, <1>2, <1>4, <1>5, <1>6, AtStep, LocalMove

LEMMA ExecuteKeeps ==
    ASSUME IInv, NEW w \in Workers, ExecuteTool(w)
    PROVE  IInv'
<1>1. /\ pc[w] = "execute"
      /\ executed' = [executed EXCEPT ![Sid(w)] = @ \cup {work[w].n}]
      /\ work' = [work EXCEPT ![w] = [work[w] EXCEPT !.result = Sid(w)]]
      /\ pc' = [pc EXCEPT ![w] = "record"]
      /\ UNCHANGED <<rows, stepKey, keys, recorded, crashes>>
  BY DEF ExecuteTool, Goto, Locally
<1>2. pc[w] \in Awaits \ {"latest", "replay"}
  BY <1>1 DEF Awaits
<1>3. /\ Sid(w) \in Sessions /\ work[w] \in Locals /\ work[w].sid = Sid(w)
      /\ work[w].n \in Steps /\ work[w].n \in Rows(Sid(w)) /\ ~Finished(Sid(w))
  BY <1>1, <1>2, AtStep DEF WorkerOK
<1>4. PICK l \in Locals :
        /\ work' = [work EXCEPT ![w] = l]
        /\ l.sid = Sid(w) /\ l.n = work[w].n /\ l.last = work[w].last
        /\ l.replayed = work[w].replayed /\ l.result = Sid(w) /\ l.before = work[w].before
  <2> DEFINE m == [work[w] EXCEPT !.result = Sid(w)]
  <2>1. /\ m \in Locals
        /\ m.sid = Sid(w) /\ m.n = work[w].n /\ m.last = work[w].last
        /\ m.replayed = work[w].replayed /\ m.result = Sid(w) /\ m.before = work[w].before
    BY <1>3 DEF Locals
  <2>2. work' = [work EXCEPT ![w] = m]
    BY <1>1
  <2> HIDE DEF m
  <2> QED
    BY <2>1, <2>2
<1>5. /\ executed' \in SetsType
      /\ work[w].n \in executed'[Sid(w)]
      /\ \A s \in Sessions : executed[s] \subseteq executed'[s]
  BY <1>1, <1>3 DEF IInv, TypeOK, SetsType
<1>6. \A s \in Sessions : Saved(s)' = Saved(s) /\ Rows(s)' = Rows(s) /\ Saved(s) \subseteq Steps
  BY <1>1 DEF Saved, Rows
<1>7. WorkerOK("record", l)'
  BY <1>1, <1>2, <1>3, <1>4, <1>5, <1>6, AtStep DEF WorkerOK, Awaits
<1>8. Grown
  BY <1>1, <1>5, <1>6 DEF Grown
<1>9. TablesTyped'
  BY <1>1, <1>5, Typed DEF TablesTyped
<1>10. TablesOK'
  <2>1. CheckpointsHaveNoGap' /\ SavedWereExecuted' /\ RowsHaveKeys'
    BY <1>1, <1>5, <1>6 DEF IInv, TablesOK, CheckpointsHaveNoGap, SavedWereExecuted, RowsHaveKeys
  <2>2. KeysAreOfSteps'
    <3> SUFFICES ASSUME NEW k \in Keys, keys[k] # NoSession
                 PROVE  \E n \in Steps : stepKey[keys[k]][n] = k /\ n \in executed'[keys[k]]
      BY <1>1 DEF KeysAreOfSteps
    <3>1. keys[k] \in Sessions
      BY DEF IInv, TypeOK
    <3> QED
      BY <1>5, <3>1 DEF IInv, TablesOK, KeysAreOfSteps
  <2> QED
    BY <2>1, <2>2 DEF TablesOK
<1>11. "record" \in Places \ {"idle"} /\ ~Finished(l.sid)
  BY <1>3, <1>4 DEF Places, Awaits
<1> QED
  BY <1>1, <1>4, <1>7, <1>8, <1>9, <1>10, <1>11, MoveKeeps

LEMMA RecordKeeps ==
    ASSUME IInv, NEW w \in Workers, RecordKey(w)
    PROVE  IInv'
<1>1. pc[w] = "record" /\ UNCHANGED <<rows, stepKey, work, executed, crashes>>
  BY DEF RecordKey
<1>2. pc[w] \in Awaits \ {"latest", "replay"}
  BY <1>1 DEF Awaits
<1>3. PICK s \in Sessions, n \in Steps, l \in Locals :
        /\ s = Sid(w) /\ n = work[w].n /\ l = work[w] /\ l.sid = s /\ l.n = n
        /\ n \in executed[s] /\ n \in Rows(s) /\ ~Finished(s)
        /\ 1..(n - 1) \subseteq Saved(s) /\ l.replayed = 1..l.last
        /\ l.result \in {NoSession, s} /\ l.before \subseteq recorded[s]
  BY <1>1, <1>2, AtStep DEF WorkerOK
<1>4. PICK k \in Keys : k = Key(w) /\ k = stepKey[s][n]
  BY <1>3 DEF Key, IInv, TypeOK, TablesOK, RowsHaveKeys
<1>5. /\ keys' = IF keys[k] = NoSession THEN [keys EXCEPT ![k] = s] ELSE keys
      /\ recorded' = IF keys'[k] = s THEN [recorded EXCEPT ![s] = @ \cup {n}] ELSE recorded
      /\ pc' = [pc EXCEPT ![w] = "find"] /\ work' = [work EXCEPT ![w] = l]
  BY <1>1, <1>3, <1>4 DEF RecordKey, Goto, Inserted, IInv, TypeOK
<1>6. /\ keys' \in [Keys -> Sessions \cup {NoSession}]
      /\ \A j \in Keys : keys[j] # NoSession => keys'[j] = keys[j]
      /\ \A j \in Keys : keys'[j] = keys[j] \/ (j = k /\ keys'[j] = s)
  BY <1>5 DEF IInv, TypeOK
<1>7. /\ recorded' \in SetsType
      /\ \A t \in Sessions : \A m \in recorded'[t] :
            m \in recorded[t] \/ (t = s /\ m = n /\ keys'[k] = s)
      /\ \A t \in Sessions : recorded[t] \subseteq recorded'[t]
  BY <1>5 DEF IInv, TypeOK, SetsType
<1>8. \A t \in Sessions : Saved(t)' = Saved(t) /\ Rows(t)' = Rows(t) /\ Saved(t)' \subseteq Steps
  BY <1>1 DEF Saved, Rows
<1>9. Grown
  BY <1>1, <1>7, <1>8 DEF Grown
<1>10. TablesTyped'
  BY <1>1, <1>6, <1>7, Typed DEF TablesTyped
<1>11. TablesOK'
  <2>1. CheckpointsHaveNoGap' /\ SavedWereExecuted' /\ RowsHaveKeys'
    BY <1>1, <1>8 DEF IInv, TablesOK, CheckpointsHaveNoGap, SavedWereExecuted, RowsHaveKeys
  <2>2. ASSUME NEW j \in Keys, keys'[j] # NoSession
        PROVE  \E m \in Steps : stepKey[keys'[j]][m] = j /\ m \in executed[keys'[j]]
    <3>1. CASE keys'[j] = keys[j]
      BY <2>2, <3>1 DEF IInv, TablesOK, KeysAreOfSteps
    <3>2. CASE j = k /\ keys'[j] = s
      BY <1>3, <1>4, <3>2
    <3> QED
      BY <1>6, <3>1, <3>2
  <2> QED
    BY <1>1, <2>1, <2>2 DEF TablesOK, KeysAreOfSteps
<1>12. WorkerOK("find", l)'
  <2>1. /\ n \in executed'[s] /\ n \in Rows(s)' /\ 1..(n - 1) \subseteq Saved(s)'
        /\ l.before \subseteq recorded'[s]
    BY <1>1, <1>3, <1>7, <1>8
  <2> QED
    BY <1>3, <2>1 DEF WorkerOK, Awaits
<1>13. \A t \in Sessions : \A m \in recorded'[t] : m \in recorded[t] \/ (~Finished(t) /\ IsKept(t, m)')
  <2>1. keys'[k] = s => IsKept(s, n)'
    BY <1>1, <1>3, <1>4, <1>8 DEF IsKept
  <2> QED
    BY <1>3, <1>7, <2>1
<1>14. "find" \in Places \ {"idle"} /\ ~Finished(l.sid)
  BY <1>3 DEF Places, Awaits
<1> QED
  BY <1>5, <1>6, <1>9, <1>10, <1>11, <1>12, <1>13, <1>14, MoveKeeps

LEMMA SaveKeeps ==
    ASSUME IInv, NEW w \in Workers, SaveCheckpoint(w)
    PROVE  IInv'
<1>1. /\ pc[w] = "save"
      /\ rows' = [rows EXCEPT ![Sid(w)][work[w].n] = "saved"]
      /\ AfterStep(w)
      /\ UNCHANGED <<stepKey, keys, executed, recorded, crashes>>
  BY DEF SaveCheckpoint
<1>2. pc[w] \in Awaits \ {"latest", "replay"}
  BY <1>1 DEF Awaits
<1>3. PICK s \in Sessions, n \in Steps, r \in Locals :
        /\ s = Sid(w) /\ n = work[w].n /\ r = work[w] /\ r.sid = s
        /\ n \in executed[s] /\ n \in Rows(s) /\ 1..(n - 1) \subseteq Saved(s)
        /\ r.replayed = 1..r.last /\ r.result \in {NoSession, s} /\ r.before \subseteq recorded[s]
        /\ ~Finished(s)
  BY <1>1, <1>2, AtStep DEF WorkerOK
<1>4. /\ rows' \in RowType
      /\ \A t \in Sessions \ {s} : Rows(t)' = Rows(t) /\ Saved(t)' = Saved(t)
      /\ Rows(s)' = Rows(s) \cup {n}
      /\ Saved(s)' = Saved(s) \cup {n}
      /\ \A t \in Sessions : Saved(t)' \subseteq Steps
  <2>1. rows \in RowType
    BY DEF IInv, TypeOK, RowType
  <2>2. /\ rows' \in RowType
        /\ \A t \in Sessions \ {s} : Rows(t)' = Rows(t) /\ Saved(t)' = Saved(t)
        /\ Rows(s)' = Rows(s) \cup {n}
        /\ Saved(s)' = IF "saved" = "saved" THEN Saved(s) \cup {n} ELSE Saved(s) \ {n}
        /\ \A t \in Sessions : Saved(t)' \subseteq Steps
    BY <1>1, <1>3, <2>1, OneRow, "saved" \in {"row", "saved"}
  <2> QED
    BY <2>2
<1>5. PICK p \in {"row", "done"}, l \in Locals :
        /\ pc' = [pc EXCEPT ![w] = p] /\ work' = [work EXCEPT ![w] = l]
        /\ l.sid = s /\ l.last = r.last /\ l.replayed = r.replayed
        /\ l.result \in {NoSession, s} /\ l.before = r.before
        /\ p = "row" => l.n = n + 1 /\ n < MaxSteps
        /\ p = "done" => n = MaxSteps
  <2>1. CASE n < MaxSteps
    <3> DEFINE m == [r EXCEPT !.n = n + 1, !.result = NoSession]
    <3>1. pc' = [pc EXCEPT ![w] = "row"] /\ work' = [work EXCEPT ![w] = m]
      BY <1>1, <1>3, <2>1 DEF AfterStep, Locally, Goto
    <3>2. /\ m \in Locals
          /\ m.sid = s /\ m.last = r.last /\ m.replayed = r.replayed
          /\ m.result = NoSession /\ m.n = n + 1 /\ m.before = r.before
      <4>1. n + 1 \in 1..(MaxSteps + 1) /\ r.sid = s
        BY <1>3 DEF Steps
      <4> QED
        BY <4>1 DEF Locals
    <3> HIDE DEF m
    <3> QED
      BY <2>1, <3>1, <3>2
  <2>2. CASE ~(n < MaxSteps)
    <3>1. pc' = [pc EXCEPT ![w] = "done"] /\ work' = [work EXCEPT ![w] = r] /\ n = MaxSteps
      BY <1>1, <1>3, <2>2 DEF AfterStep, Goto, IInv, TypeOK, Steps
    <3> QED
      BY <1>3, <3>1
  <2> QED
    BY <2>1, <2>2
<1>6. 1..n \subseteq Saved(s)'
  BY <1>3, <1>4 DEF Steps
<1>7. WorkerOK(p, l)'
  <2>1. CASE p = "row"
    <3>1. l.n \in Steps /\ l.n - 1 = n
      BY <1>5, <2>1 DEF Steps
    <3>2. 1..(l.n - 1) \subseteq Saved(s)'
      BY <1>6, <3>1
    <3>3. l.sid = s /\ l.replayed = 1..l.last /\ l.result \in {NoSession, s}
          /\ l.before \subseteq recorded'[s]
      BY <1>1, <1>3, <1>5
    <3> QED
      BY <2>1, <3>1, <3>2, <3>3 DEF WorkerOK, Awaits
  <2>2. CASE p = "done"
    <3>1. Saved(s)' = Steps
      BY <1>4, <1>5, <1>6, <2>2 DEF Steps
    <3> QED
      BY <1>1, <1>3, <1>5, <2>2, <3>1 DEF WorkerOK, Awaits
  <2> QED
    BY <1>5, <2>1, <2>2
<1>8. p \in Places \ {"idle"} /\ ~Finished(l.sid)
  BY <1>3, <1>5 DEF Places, Awaits
<1>9. \A t \in Sessions : Saved(t) \subseteq Saved(t)' /\ Rows(t)' = Rows(t)
  <2> SUFFICES ASSUME NEW t \in Sessions PROVE Saved(t) \subseteq Saved(t)' /\ Rows(t)' = Rows(t)
    OBVIOUS
  <2>1. CASE t = s
    BY <1>3, <1>4, <2>1
  <2>2. CASE t # s
    BY <1>4, <2>2
  <2> QED
    BY <2>1, <2>2
<1>10. Grown
  BY <1>1, <1>4, <1>9 DEF Grown
<1>11. TablesTyped'
  BY <1>1, <1>4, Typed DEF TablesTyped
<1>12. TablesOK'
  <2>1. CheckpointsHaveNoGap' /\ RowsHaveKeys' /\ KeysAreOfSteps'
    BY <1>1, <1>9 DEF IInv, TablesOK, CheckpointsHaveNoGap, RowsHaveKeys, KeysAreOfSteps
  <2>2. SavedWereExecuted'
    BY <1>1, <1>3, <1>4 DEF IInv, TablesOK, SavedWereExecuted
  <2> QED
    BY <2>1, <2>2 DEF TablesOK
<1> QED
  BY <1>1, <1>5, <1>7, <1>8, <1>10, <1>11, <1>12, MoveKeeps

(* clear takes away keys of a session nobody is on any more. *)
LEMMA ClearKeeps ==
    ASSUME IInv, NEW w \in Workers, ClearKeys(w)
    PROVE  IInv'
<1>1. /\ pc[w] = "done"
      /\ \A v \in Workers : pc[v] \in Awaits => Sid(v) # Sid(w)
      /\ keys' = [k \in Keys |-> IF keys[k] = Sid(w) THEN NoSession ELSE keys[k]]
      /\ pc' = [pc EXCEPT ![w] = "cleared"]
      /\ UNCHANGED <<rows, stepKey, work, executed, recorded, crashes>>
  BY DEF ClearKeys, Goto
<1>2. keys' \in [Keys -> Sessions \cup {NoSession}]
  BY <1>1 DEF IInv, TypeOK
<1>3. pc' \in [Workers -> Places] /\ pc'[w] = "cleared" /\ \A v \in Workers \ {w} : pc'[v] = pc[v]
  BY <1>1 DEF IInv, TypeOK, Places
<1>4. WorkersOK'
  <2> SUFFICES ASSUME NEW v \in Workers PROVE WorkerOK(pc[v], work[v])'
    BY DEF WorkersOK
  <2>1. WorkerOK(pc[v], work[v])
    BY DEF IInv, WorkersOK
  <2>2. CASE v = w
    BY <1>1, <1>3, <2>1, <2>2 DEF WorkerOK, Awaits, Saved, Rows
  <2>3. CASE v # w
    BY <1>1, <1>3, <2>1, <2>3 DEF WorkerOK, Awaits, Saved, Rows
  <2> QED
    BY <2>2, <2>3
<1>5. TypeOK'
  BY <1>1, <1>2, <1>3, <1>4 DEF IInv, TypeOK, Places, WorkersOK, WorkerOK, Sid
<1>6. TablesOK'
  <2>1. CheckpointsHaveNoGap' /\ SavedWereExecuted' /\ RowsHaveKeys'
    BY <1>1 DEF IInv, TablesOK, CheckpointsHaveNoGap, SavedWereExecuted, RowsHaveKeys, Rows, Saved
  <2>2. KeysAreOfSteps'
    BY <1>1 DEF IInv, TablesOK, KeysAreOfSteps
  <2> QED
    BY <2>1, <2>2 DEF TablesOK
<1>7. RecordsAreKept'
  <2> SUFFICES ASSUME NEW s \in Sessions
               PROVE  Finished(s)' \/ \A n \in recorded[s] : IsKept(s, n)'
    BY <1>1 DEF RecordsAreKept
  <2>1. \A v \in Workers : pc'[v] \in Awaits => pc'[v] = pc[v]
    BY <1>3 DEF Awaits
  <2>2. CASE s = Sid(w)
    <3>1. Saved(s)' = Steps
      BY <1>1, <2>2 DEF IInv, WorkersOK, WorkerOK, Sid, Saved
    <3> QED
      BY <1>1, <2>1, <2>2, <3>1 DEF Finished, Sid
  <2>3. CASE s # Sid(w) /\ Finished(s)
    BY <1>1, <2>1, <2>3 DEF Finished, Sid, Saved
  <2>4. CASE s # Sid(w) /\ ~Finished(s)
    <3> SUFFICES ASSUME NEW n \in recorded[s] PROVE IsKept(s, n)'
      OBVIOUS
    <3>1. IsKept(s, n)
      BY <2>4 DEF IInv, RecordsAreKept
    <3>2. n \in Steps /\ stepKey[s][n] \in Keys
      BY <3>1 DEF IsKept, Rows, IInv, TypeOK, TablesOK, RowsHaveKeys
    <3> QED
      BY <1>1, <2>4, <3>1, <3>2 DEF IsKept, Rows
  <2> QED
    BY <2>2, <2>3, <2>4
<1> QED
  BY <1>4, <1>5, <1>6, <1>7 DEF IInv

LEMMA NextIInv == IInv /\ [Next]_vars => IInv'
<1> SUFFICES ASSUME IInv, [Next]_vars PROVE IInv'
  OBVIOUS
<1>1. ASSUME NEW w \in Workers, Proceed(w) PROVE IInv'
  <2>1. CASE LoadLatest(w) \/ ReplayStep(w) \/ LookForRow(w) \/ CheckKey(w) \/ FindRow(w)
    BY <2>1, LoadLatestKeeps, ReplayKeeps, LookKeeps, CheckKeeps, FindKeeps
  <2>2. CASE CreateRow(w) \/ ExecuteTool(w) \/ RecordKey(w) \/ SaveCheckpoint(w)
    BY <2>2, CreateKeeps, ExecuteKeeps, RecordKeeps, SaveKeeps
  <2> QED
    BY <1>1, <2>1, <2>2 DEF Proceed
<1>2. CASE UNCHANGED vars
  <2>1. TypeOK' /\ WorkersOK'
    BY <1>2 DEF vars, IInv, TypeOK, WorkersOK, WorkerOK, Sid, Saved, Rows
  <2>2. TablesOK'
    BY <1>2 DEF vars, IInv, TablesOK, CheckpointsHaveNoGap, SavedWereExecuted, RowsHaveKeys,
        KeysAreOfSteps, Saved, Rows
  <2>3. RecordsAreKept'
    BY <1>2 DEF vars, IInv, RecordsAreKept, Finished, IsKept, Rows, Saved, Sid
  <2> QED
    BY <2>1, <2>2, <2>3 DEF IInv
<1> QED
  BY <1>1, <1>2, StartKeeps, CrashKeeps, ClearKeeps DEF Next, Quiet

LEMMA Invariance == Spec => []IInv
BY InitIInv, NextIInv, PTL DEF Spec

-----------------------------------------------------------------------------

(* Rows, keys and locals keep their types; a worker has a session, and at  *)
(* a step is at one of its steps.                                          *)
THEOREM TypeCorrect == Spec => []TypeOK
BY Invariance, PTL DEF IInv

(* ReplayEngine.resume_from goes on right after what was replayed, and a   *)
(* session is done when every step has run and has its checkpoint.         *)
THEOREM ResumeSkipsNothing == Spec => []NothingIsSkipped
<1>1. IInv => NothingIsSkipped
  <2> SUFFICES ASSUME IInv PROVE NothingIsSkipped
    OBVIOUS
  <2>1. ASSUME NEW w \in Workers
        PROVE  /\ pc[w] = "replay" => work[w].replayed = 1..(work[w].n - 1)
               /\ pc[w] \in Awaits \ {"latest", "replay"} => work[w].replayed = 1..work[w].last
    BY DEF IInv, WorkersOK, WorkerOK
  <2>2. ASSUME NEW w \in Workers, pc[w] \in {"done", "cleared"}
        PROVE  Saved(Sid(w)) = Steps /\ executed[Sid(w)] = Steps
    <3>1. Saved(Sid(w)) = Steps /\ Sid(w) \in Sessions
      BY <2>2 DEF IInv, WorkersOK, WorkerOK, Sid
    <3>2. executed[Sid(w)] \subseteq Steps /\ Saved(Sid(w)) \subseteq executed[Sid(w)]
      BY <3>1 DEF IInv, TypeOK, TablesOK, SavedWereExecuted
    <3> QED
      BY <3>1, <3>2
  <2> QED
    BY <2>1, <2>2 DEF NothingIsSkipped, IInv, TablesOK
<1> QED
  BY <1>1, Invariance, PTL

(* The scope of IdempotencyTracker.check: a worker never goes on with the  *)
(* result of another session, although users share keys.                   *)
THEOREM ResultsStayOwn == Spec => []ResultsAreOwn
<1>1. IInv => ResultsAreOwn
  BY DEF IInv, WorkersOK, WorkerOK, ResultsAreOwn, Sid
<1> QED
  BY <1>1, Invariance, PTL

(* IdempotencyTracker.record and check, with the key of the step's row: a  *)
(* worker never runs the tool of a step that was recorded when it resumed, *)
(* whoever recorded it.                                                    *)
THEOREM RecordedRunOnce == Spec => RecordedStepsAreNotRepeated
<1>1. IInv /\ [Next]_vars =>
        [\A w \in Workers : pc[w] = "execute" /\ pc'[w] = "record" => work[w].n \notin work[w].before]_vars
  BY DEF IInv, WorkersOK, WorkerOK
<1> QED
  BY <1>1, Invariance, PTL DEF Spec, RecordedStepsAreNotRepeated

=============================================================================
