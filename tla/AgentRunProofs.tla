--------------------------- MODULE AgentRunProofs ---------------------------
(***************************************************************************)
(* Proofs about AgentRun, for every number of calls, sessions and users,   *)
(* every max_steps and any number of faults: first what holds with calls   *)
(* on the same session interleaving at will, then what needs callers that  *)
(* run a session one call at a time (Exclusive).                           *)
(***************************************************************************)
EXTENDS AgentRun, WellFoundedInduction, FiniteSetTheorems, SequenceTheorems, TLAPS

-----------------------------------------------------------------------------
(* Type correctness.  LatestNumber takes a greatest element, which exists  *)
(* because the step numbers in the table are bounded.                      *)

StepsBounded == \E b \in Nat : \A r \in steps : r.num <= b

Typed == TypeOK /\ StepsBounded

(* A write that was left belongs to a call that has ended in the write.    *)
LeftTyped ==
    /\ left # {} => disturbed
    /\ \A w \in left : /\ pc[w.by] = "raised"
                       /\ run[w.by].user \in Users
                       /\ w.at # "create" => run[w.by].sid \in Sessions

TypeInv == Typed /\ LeftTyped

(* A call is cut short: nothing but its place changes, and perhaps what is *)
(* left on a connection.                                                   *)
Stops(t) == Live(t) /\ Goto(t, "raised") /\ UnchangedTables /\ UNCHANGED <<executed, run>>

LEMMA Stopping ==
    ASSUME NEW t \in Runs, Abort(t) \/ CutOff(t) \/ LockedOut(t) PROVE Stops(t)
BY DEF Abort, CutOff, LockedOut, Stops, Live, Writes, Awaits

LEMMA NextCases ==
    ASSUME [Next]_vars
    PROVE  \/ \E t \in Runs : Start(t) \/ Proceed(t) \/ Stops(t)
           \/ \E w \in left : Land(w)
           \/ Crash \/ Administer \/ UNCHANGED vars
BY Stopping DEF Next, Quiet

(* The row that ORDER BY step_number DESC LIMIT 1 returns: there is one if *)
(* there is any row, and none has a larger number.                         *)
LEMMA LatestIsGreatest ==
    ASSUME NEW rows, rows \subseteq StepRow,
           NEW b \in Nat, \A r \in rows : r.num <= b
    PROVE  /\ LatestNumber(rows) \in Nat
           /\ rows = {} => LatestNumber(rows) = 0
           /\ rows # {} => \E r \in rows : r.num = LatestNumber(rows)
           /\ \A r \in rows : r.num <= LatestNumber(rows)
<1>1. CASE rows = {}
  BY <1>1 DEF LatestNumber
<1>2. CASE rows # {}
  <2> DEFINE U == {n \in Nat : \A m \in Numbers(rows) : m <= n}
  <2>1. Numbers(rows) \subseteq Nat /\ Numbers(rows) # {}
    BY <1>2 DEF Numbers, StepRow
  <2>2. U \subseteq Nat /\ U # {}
    BY DEF Numbers
  <2>3. PICK u \in U : \A y \in U : <<y, u>> \notin OpToRel(<, Nat)
    BY <2>2, NatLessThanWellFounded, WFMin
  <2>4. \A y \in U : u <= y
    <3> SUFFICES ASSUME NEW y \in U, y < u PROVE FALSE
      BY <2>2
    <3>1. <<y, u>> \in Nat \X Nat /\ <<y, u>>[1] < <<y, u>>[2]
      BY <2>2
    <3>2. <<y, u>> \in OpToRel(<, Nat)
      BY <3>1 DEF OpToRel
    <3> QED BY <2>3, <3>2
  <2>5. u \in Numbers(rows)
    <3> SUFFICES ASSUME u \notin Numbers(rows) PROVE FALSE
      OBVIOUS
    <3>1. u # 0
      BY <2>1, <2>2
    <3>2. u - 1 \in U
      BY <2>1, <2>2, <3>1
    <3> QED BY <2>2, <2>4, <3>2
  <2>6. \E n \in Numbers(rows) : \A m \in Numbers(rows) : m <= n
    BY <2>5
  <2>7. /\ LatestNumber(rows) \in Numbers(rows)
        /\ \A m \in Numbers(rows) : m <= LatestNumber(rows)
    BY <1>2, <2>6 DEF LatestNumber
  <2> QED BY <1>2, <2>1, <2>7 DEF Numbers
<1> QED BY <1>1, <1>2


LEMMA StepNumberType ==
    ASSUME TypeOK, NEW t \in Runs PROVE StepNumber(t) \in Nat
BY DEF TypeOK, Locals, StepNumber

(* The part of TypeOK that is about the calls. *)
CallsTyped ==
    /\ pc \in [Runs -> {"idle"} \cup Awaits \cup Ended]
    /\ run \in [Runs -> Locals]
    /\ \A t \in Runs :
         /\ pc[t] \in Awaits => run[t].user \in Users
         /\ pc[t] \in Awaits \ {"create"} => run[t].sid \in Sessions

(* A step of one call keeps the calls well typed if its own new locals are. *)
LEMMA LocallyTyped ==
    ASSUME CallsTyped, NEW t \in Runs, NEW r \in Locals, Locally(t, r),
           NEW p \in Awaits \cup Ended, Goto(t, p),
           p \in Awaits => r.user \in Users,
           p \in Awaits \ {"create"} => r.sid \in Sessions
    PROVE  CallsTyped'
BY DEF CallsTyped, Locally, Goto

LEMMA GotoTyped ==
    ASSUME CallsTyped, NEW t \in Runs, UNCHANGED run,
           NEW p \in Awaits \cup Ended, Goto(t, p),
           pc[t] \in Awaits \ {"create"} \/ p \in Ended
    PROVE  CallsTyped'
BY DEF CallsTyped, Goto, Ended, Awaits

(* Every operation keeps the tables and the locals well typed. *)
LEMMA StartTyped ==
    ASSUME Typed, NEW t \in Runs, Start(t) PROVE Typed'
<1> USE DEF UnchangedTables, UnchangedConnections, Typed, StepsBounded
<1>0. CallsTyped /\ run[t] \in Locals
  BY DEF CallsTyped, TypeOK
<1>1. ASSUME NEW u \in Users, NEW n \in 0..MaxInputs, StartNew(t, u, n) PROVE Typed'
  <2>0. n \in Nat
    BY BoundAssumption
  <2>1. [run[t] EXCEPT !.user = u, !.inputs = n] \in Locals
    BY <1>0, <2>0 DEF Locals
  <2>2. [run[t] EXCEPT !.user = u, !.inputs = n].user = u
    BY <1>0 DEF Locals
  <2>3. CallsTyped'
    BY <1>0, <1>1, <2>1, <2>2, LocallyTyped DEF StartNew, Awaits
  <2> QED BY <1>1, <2>3 DEF StartNew, TypeOK, CallsTyped
<1>2. ASSUME NEW u \in Users, NEW n \in 0..MaxInputs, NEW s \in Sessions,
             NEW m \in {"continue", "resume"}, StartOn(t, u, n, s, m)
      PROVE  Typed'
  <2> DEFINE r == [run[t] EXCEPT !.user = u, !.inputs = n, !.sid = s, !.mode = m]
  <2>0. n \in Nat
    BY BoundAssumption
  <2>1. r \in Locals /\ r.user = u /\ r.sid = s
    BY <1>0, <2>0 DEF Locals
  <2>2. Locally(t, r) /\ Goto(t, "load")
    BY <1>2 DEF StartOn
  <2> HIDE DEF r
  <2>3. CallsTyped'
    BY <1>0, <2>1, <2>2, LocallyTyped DEF Awaits
  <2> QED BY <1>2, <2>3 DEF StartOn, TypeOK, CallsTyped
<1> QED BY <1>1, <1>2 DEF Start

LEMMA SetupTyped ==
    ASSUME Typed, NEW t \in Runs,
           \/ \E s \in Sessions : CreateSession(t, s)
           \/ LoadSession(t) \/ Unpause(t) \/ ReadLatest(t)
    PROVE  Typed'
<1> USE DEF UnchangedTables, UnchangedConnections, Typed, StepsBounded
<1>0. CallsTyped /\ run[t] \in Locals
  BY DEF CallsTyped, TypeOK
<1>1. ASSUME NEW s \in Sessions, CreateSession(t, s) PROVE Typed'
  <2>1. [run[t] EXCEPT !.sid = s] \in Locals
    BY <1>0 DEF Locals
  <2>2. /\ [run[t] EXCEPT !.sid = s].sid = s
        /\ [run[t] EXCEPT !.sid = s].user = run[t].user
    BY <1>0 DEF Locals
  <2>3. run[t].user \in Users
    BY <1>0, <1>1 DEF CreateSession, CallsTyped, Awaits
  <2>4. CallsTyped'
    BY <1>0, <1>1, <2>1, <2>2, <2>3, LocallyTyped DEF CreateSession, Awaits
  <2> QED BY <1>1, <2>3, <2>4 DEF CreateSession, TypeOK, CallsTyped
<1>2. ASSUME LoadSession(t) PROVE Typed'
  <2>1. CallsTyped'
    BY <1>0, <1>2, GotoTyped DEF LoadSession, AfterSetup, Awaits, Ended
  <2> QED BY <1>2, <2>1 DEF LoadSession, TypeOK, CallsTyped
<1>3. ASSUME Unpause(t) PROVE Typed'
  <2>1. CallsTyped'
    BY <1>0, <1>3, GotoTyped DEF Unpause, Awaits, Ended
  <2> QED BY <1>3, <2>1 DEF Unpause, StatusUpdate, TypeOK, CallsTyped
<1>4. ASSUME ReadLatest(t) PROVE Typed'
  <2> DEFINE n == LatestNumber(StepsOf(run[t].sid, run[t].user))
             r == [run[t] EXCEPT !.base = n]
  <2>1. n \in Nat
    BY LatestIsGreatest DEF StepsOf, TypeOK
  <2> HIDE DEF n
  <2>2. r \in Locals /\ r.user = run[t].user /\ r.sid = run[t].sid
    BY <1>0, <2>1 DEF Locals
  <2>3. Locally(t, r) /\ Goto(t, AfterSetup(t)) /\ pc[t] = "latest"
    BY <1>4 DEF ReadLatest, n
  <2> HIDE DEF r
  <2>4. CallsTyped'
    BY <1>0, <2>2, <2>3, LocallyTyped DEF AfterSetup, Awaits, CallsTyped
  <2> QED BY <1>4, <2>4 DEF ReadLatest, TypeOK, CallsTyped
<1> QED BY <1>1, <1>2, <1>3, <1>4

LEMMA NewMessageTyped ==
    ASSUME TypeOK, NEW t \in Runs, run[t].user \in Users PROVE NewMessage(t) \in Message
<1>1. run[t] \in Locals /\ run[t].user \in Users
  BY DEF TypeOK
<1>2. StepNumber(t) \in Nat
  BY StepNumberType
<1>3. /\ run[t].count + 1 \in Nat /\ run[t].next \in Nat /\ run[t].calls \in Nat
      /\ run[t].phase \in Roles
  BY <1>1 DEF Locals
<1> QED BY <1>1, <1>2, <1>3 DEF NewMessage, NewOrdinal, Message

LEMMA AppendTyped ==
    ASSUME Typed, NEW t \in Runs,
           EncodeFails(t) \/ CountMessages(t) \/ InsertMessage(t) \/ InsertFails(t)
    PROVE  Typed'
<1> USE DEF UnchangedTables, UnchangedConnections, Typed, StepsBounded
<1>0. CallsTyped /\ run[t] \in Locals
  BY DEF CallsTyped, TypeOK
<1>1. CASE EncodeFails(t)
  <2>1. CallsTyped'
    BY <1>0, <1>1, GotoTyped DEF EncodeFails, Ended
  <2> QED BY <1>1, <2>1 DEF EncodeFails, TypeOK, CallsTyped
<1>2. CASE CountMessages(t)
  <2> DEFINE n == CountedRows(run[t].sid)
             r == [run[t] EXCEPT !.count = n]
  <2>1. n \in Nat
    <3>1. run[t].sid \in Sessions
      BY <1>0, <1>2 DEF CountMessages, CallsTyped, Awaits
    <3> QED BY <3>1 DEF TypeOK, CountedRows
  <2> HIDE DEF n
  <2>2. r \in Locals /\ r.user = run[t].user /\ r.sid = run[t].sid
    BY <1>0, <2>1 DEF Locals
  <2>3. Locally(t, r) /\ Goto(t, "insert") /\ pc[t] = "count"
    BY <1>2 DEF CountMessages, n
  <2> HIDE DEF r
  <2>4. CallsTyped'
    BY <1>0, <2>2, <2>3, LocallyTyped DEF Awaits, CallsTyped
  <2> QED BY <1>2, <2>4 DEF CountMessages, TypeOK, CallsTyped
<1>3. CASE InsertMessage(t)
  <2>0. run[t].sid \in Sessions /\ run[t].user \in Users
    BY <1>0, <1>3 DEF InsertMessage, CallsTyped, Awaits
  <2>1. /\ NewMessage(t) \in Message /\ run[t].sid \in Sessions /\ run[t].user \in Users
        /\ run[t].next \in Nat /\ run[t].phase \in Roles
    BY <1>0, <2>0, NewMessageTyped DEF Locals
  <2>2. messages' \in [Sessions -> Seq(Message)]
    BY <1>3, <2>1 DEF InsertMessage, TypeOK
  <2> DEFINE r(n) == [run[t] EXCEPT !.count = 0, !.next = n]
  <2>3. \A n \in Nat : r(n) \in Locals /\ r(n).user = run[t].user /\ r(n).sid = run[t].sid
    BY <1>0 DEF Locals
  <2>4. PICK n \in Nat, p \in Awaits : Locally(t, r(n)) /\ Goto(t, p)
    <3>1. AfterPhase(t) \in Awaits
      BY <2>1 DEF AfterPhase, Awaits, Roles
    <3>2. CASE run[t].next < PhaseSize(t)
      <4>1. Locally(t, r(run[t].next + 1)) /\ Goto(t, "count")
        BY <1>3, <3>2 DEF InsertMessage
      <4>2. run[t].next + 1 \in Nat /\ "count" \in Awaits
        BY <2>1 DEF Awaits
      <4> QED BY <4>1, <4>2
    <3>3. CASE ~(run[t].next < PhaseSize(t))
      BY <1>3, <2>1, <3>1, <3>3 DEF InsertMessage
    <3> QED BY <3>2, <3>3
  <2> HIDE DEF r
  <2>5. CallsTyped'
    BY <1>0, <2>1, <2>3, <2>4, LocallyTyped
  <2> QED BY <1>3, <2>2, <2>5 DEF InsertMessage, TypeOK, CallsTyped
<1>4. CASE InsertFails(t)
  <2>1. CallsTyped'
    BY <1>0, <1>4, GotoTyped DEF InsertFails, Ended
  <2> QED BY <1>4, <2>1 DEF InsertFails, TypeOK, CallsTyped
<1> QED BY <1>1, <1>2, <1>3, <1>4

LEMMA ThinkTyped ==
    ASSUME Typed, NEW t \in Runs,
           \/ ReadHistory(t) \/ LLMFails(t)
           \/ \E n \in 0..MaxCalls : LLMAnswers(t, n)
           \/ \E o \in Outcomes : ExecuteTool(t, o)
    PROVE  Typed'
<1> USE DEF UnchangedTables, UnchangedConnections, Typed, StepsBounded
<1>0. CallsTyped /\ run[t] \in Locals
  BY DEF CallsTyped, TypeOK
<1>1. CASE ReadHistory(t)
  <2> DEFINE h == History(run[t].sid)
             r == [run[t] EXCEPT !.prompt = h]
  <2>1. h \in SUBSET Nat
    <3>1. run[t].sid \in Sessions
      BY <1>0, <1>1 DEF ReadHistory, CallsTyped, Awaits
    <3>2. DOMAIN messages[run[t].sid] \subseteq Nat
      BY <3>1 DEF TypeOK
    <3> QED BY <3>2 DEF History
  <2> HIDE DEF h
  <2>2. r \in Locals /\ r.user = run[t].user /\ r.sid = run[t].sid
    BY <1>0, <2>1 DEF Locals
  <2>3. Locally(t, r) /\ Goto(t, "llm") /\ pc[t] = "history"
    BY <1>1 DEF ReadHistory, h
  <2> HIDE DEF r
  <2>4. CallsTyped'
    BY <1>0, <2>2, <2>3, LocallyTyped DEF Awaits, CallsTyped
  <2> QED BY <1>1, <2>4 DEF ReadHistory, TypeOK, CallsTyped
<1>2. CASE LLMFails(t)
  <2>1. CallsTyped'
    BY <1>0, <1>2, GotoTyped DEF LLMFails, Ended
  <2> QED BY <1>2, <2>1 DEF LLMFails, TypeOK, CallsTyped
<1>3. ASSUME NEW n \in 0..MaxCalls, LLMAnswers(t, n) PROVE Typed'
  <2> DEFINE r == [run[t] EXCEPT !.phase = "assistant", !.calls = n, !.results = <<>>,
                                 !.prompt = {}]
  <2>1. n \in Nat /\ <<>> \in Seq(Outcomes) /\ "assistant" \in Roles
    BY BoundAssumption DEF Roles
  <2>2. r \in Locals /\ r.user = run[t].user /\ r.sid = run[t].sid
    BY <1>0, <2>1 DEF Locals
  <2>3. Locally(t, r) /\ Goto(t, "count") /\ pc[t] = "llm"
    BY <1>3 DEF LLMAnswers
  <2> HIDE DEF r
  <2>4. CallsTyped'
    BY <1>0, <2>2, <2>3, LocallyTyped DEF Awaits, CallsTyped
  <2> QED BY <1>3, <2>4 DEF LLMAnswers, TypeOK, CallsTyped
<1>4. ASSUME NEW o \in Outcomes, ExecuteTool(t, o) PROVE Typed'
  <2>1. run[t].results \in Seq(Outcomes)
    BY <1>0 DEF Locals
  <2> DEFINE res == Append(run[t].results, o)
             r(ph) == [run[t] EXCEPT !.results = res, !.phase = ph]
             q == [run[t] EXCEPT !.results = res]
  <2>2. res \in Seq(Outcomes)
    BY <2>1
  <2>3. executed' \subseteq [sid: Sessions, num: Nat, call: Nat, by: Runs]
    <3>1. run[t].sid \in Sessions
      BY <1>0, <1>4 DEF ExecuteTool, CallsTyped, Awaits
    <3>2. StepNumber(t) \in Nat /\ Len(run[t].results) + 1 \in Nat
      BY <2>1, StepNumberType
    <3> DEFINE e == [sid |-> run[t].sid, num |-> StepNumber(t),
                     call |-> Len(run[t].results) + 1, by |-> t]
    <3>3. e \in [sid: Sessions, num: Nat, call: Nat, by: Runs]
      BY <3>1, <3>2
    <3>4. executed' = executed \cup {e}
      BY <1>4 DEF ExecuteTool
    <3> QED BY <3>3, <3>4 DEF TypeOK
  <2>4. \/ Locally(t, q) /\ Goto(t, "tools")
        \/ Locally(t, r("tool")) /\ Goto(t, "count")
    <3>1. UNCHANGED pc /\ pc[t] = "tools" => Goto(t, "tools")
      BY <1>0 DEF CallsTyped, Goto
    <3>2. CASE Len(run[t].results) + 1 < run[t].calls
      BY <1>4, <3>1, <3>2 DEF ExecuteTool
    <3>3. CASE ~(Len(run[t].results) + 1 < run[t].calls)
      BY <1>4, <3>3 DEF ExecuteTool
    <3> QED BY <3>2, <3>3
  <2> HIDE DEF res
  <2>5. q \in Locals /\ q.user = run[t].user /\ q.sid = run[t].sid
    BY <1>0, <2>2 DEF Locals
  <2>6. r("tool") \in Locals /\ r("tool").user = run[t].user /\ r("tool").sid = run[t].sid
    BY <1>0, <2>2 DEF Locals, Roles
  <2> HIDE DEF q, r
  <2>7. run[t].user \in Users /\ run[t].sid \in Sessions
    BY <1>0, <1>4 DEF ExecuteTool, CallsTyped, Awaits
  <2>8. CallsTyped'
    BY <1>0, <2>4, <2>5, <2>6, <2>7, LocallyTyped DEF Awaits
  <2> QED BY <1>4, <2>3, <2>8 DEF ExecuteTool, TypeOK, CallsTyped
<1> QED BY <1>1, <1>2, <1>3, <1>4

LEMMA RowTyped ==
    ASSUME Typed, NEW t \in Runs, run[t].sid \in Sessions, run[t].user \in Users,
           steps' = steps \cup {NewStepRow(t)}
    PROVE  steps' \subseteq StepRow /\ StepsBounded'
<1>1. NewStepRow(t) \in StepRow
  BY StepNumberType DEF NewStepRow, StepRow, Typed
<1>2. PICK b \in Nat : \A r \in steps : r.num <= b
  BY DEF Typed, StepsBounded
<1>3. NewStepRow(t).num \in Nat /\ \A r \in steps : r.num \in Nat
  BY <1>1 DEF StepRow, Typed, TypeOK
<1>4. b + NewStepRow(t).num \in Nat /\ \A r \in steps' : r.num <= b + NewStepRow(t).num
  BY <1>2, <1>3
<1>5. steps' \subseteq StepRow
  BY <1>1 DEF Typed, TypeOK
<1> QED BY <1>4, <1>5 DEF StepsBounded

LEMMA MarkTyped ==
    ASSUME Typed, NEW t \in Runs,
           steps' = {IF Marked(t, r) THEN Complete(t, r) ELSE r : r \in steps}
    PROVE  steps' \subseteq StepRow /\ StepsBounded'
<1>1. \A q \in StepRow : Complete(t, q) \in StepRow /\ Complete(t, q).num = q.num
  BY DEF Complete, StepRow
<1>2. \A r \in steps' : \E q \in steps : r = q \/ r = Complete(t, q)
  OBVIOUS
<1>3. steps \subseteq StepRow
  BY DEF Typed, TypeOK
<1>4. \A r \in steps' : r \in StepRow /\ \E q \in steps : r.num = q.num
  BY <1>1, <1>2, <1>3
<1> QED BY <1>4 DEF StepsBounded, Typed

LEMMA PersistTyped ==
    ASSUME Typed, NEW t \in Runs,
           \/ PersistStep(t) \/ PersistFails(t) \/ RereadStep(t)
           \/ ReadLastStep(t) \/ MarkStep(t) \/ CloseSession(t)
    PROVE  Typed'
<1> USE DEF UnchangedTables, UnchangedConnections, Typed
<1>0. CallsTyped /\ run[t] \in Locals
  BY DEF CallsTyped, TypeOK
<1>1. CASE PersistStep(t)
  <2>1. CallsTyped'
    BY <1>0, <1>1, GotoTyped DEF PersistStep, Awaits, Ended
  <2>2. run[t].sid \in Sessions /\ run[t].user \in Users
    BY <1>0, <1>1 DEF PersistStep, CallsTyped, Awaits
  <2>3. steps' \subseteq StepRow /\ StepsBounded'
    BY <1>1, <2>2, RowTyped DEF PersistStep
  <2> QED BY <1>1, <2>1, <2>3 DEF PersistStep, TypeOK, CallsTyped
<1>2. CASE PersistFails(t)
  <2>1. CallsTyped'
    BY <1>0, <1>2, GotoTyped DEF PersistFails, Ended
  <2> QED BY <1>2, <2>1 DEF PersistFails, TypeOK, CallsTyped, StepsBounded
<1>3. CASE RereadStep(t) \/ ReadLastStep(t)
  <2>1. PICK n \in Nat, p \in {"lastStep", "mark", "raised"} :
           Locally(t, [run[t] EXCEPT !.target = n]) /\ Goto(t, p)
    <3>1. CASE RereadStep(t)
      BY <3>1, StepNumberType DEF RereadStep
    <3>2. CASE ReadLastStep(t)
      <4>1. LatestNumber(StepsOf(run[t].sid, run[t].user)) \in Nat
        BY LatestIsGreatest DEF StepsOf, StepsBounded, TypeOK
      <4> QED BY <3>2, <4>1 DEF ReadLastStep
    <3> QED BY <1>3, <3>1, <3>2
  <2> DEFINE r == [run[t] EXCEPT !.target = n]
  <2>2. r \in Locals /\ r.user = run[t].user /\ r.sid = run[t].sid
    BY <1>0 DEF Locals
  <2>3. Locally(t, r)
    BY <2>1
  <2> HIDE DEF r
  <2>4. run[t].user \in Users /\ run[t].sid \in Sessions
    BY <1>0, <1>3 DEF RereadStep, ReadLastStep, CallsTyped, Awaits
  <2>5. CallsTyped'
    BY <1>0, <2>1, <2>2, <2>3, <2>4, LocallyTyped DEF Awaits, Ended
  <2> QED BY <1>3, <2>5 DEF RereadStep, ReadLastStep, TypeOK, CallsTyped, StepsBounded
<1>4. CASE MarkStep(t)
  <2>1. run[t].user \in Users /\ run[t].sid \in Sessions
    BY <1>0, <1>4 DEF MarkStep, CallsTyped, Awaits
  <2>2. steps' \subseteq StepRow /\ StepsBounded'
    BY <1>4, MarkTyped DEF MarkStep
  <2>3. CallsTyped'
    <3> DEFINE r == [run[t] EXCEPT !.k = @ + 1]
    <3>0. run[t].k + 1 \in Nat
      BY <1>0 DEF Locals
    <3>1. r \in Locals /\ r.user = run[t].user /\ r.sid = run[t].sid
      BY <1>0, <3>0 DEF Locals
    <3>2. PICK p \in {"close", "history", "failed"} : Goto(t, p)
      BY <1>4 DEF MarkStep
    <3>3. Locally(t, r) \/ UNCHANGED run
      BY <1>4 DEF MarkStep
    <3>4. pc[t] = "mark"
      BY <1>4 DEF MarkStep
    <3> HIDE DEF r
    <3>5. CASE Locally(t, r)
      BY <1>0, <2>1, <3>1, <3>2, <3>5, LocallyTyped DEF Awaits, Ended
    <3>6. CASE UNCHANGED run
      BY <1>0, <3>2, <3>4, <3>6, GotoTyped DEF Awaits, Ended
    <3> QED BY <3>3, <3>5, <3>6
  <2> QED BY <1>4, <2>2, <2>3 DEF MarkStep, TypeOK, CallsTyped
<1>5. CASE CloseSession(t)
  <2>1. CallsTyped'
    BY <1>0, <1>5, GotoTyped DEF CloseSession, Ended
  <2> QED BY <1>5, <2>1 DEF CloseSession, StatusUpdate, TypeOK, CallsTyped, StepsBounded
<1> QED BY <1>1, <1>2, <1>3, <1>4, <1>5

LEMMA OutsideTyped ==
    ASSUME Typed,
           Crash \/ Administer \/ \E t \in Runs : Abort(t) \/ CutOff(t) \/ LockedOut(t)
    PROVE  Typed'
<1> USE DEF UnchangedTables, UnchangedConnections, Typed
<1>0. CallsTyped
  BY DEF CallsTyped, TypeOK
<1>1. ASSUME NEW t \in Runs, Abort(t) \/ CutOff(t) \/ LockedOut(t) PROVE Typed'
  <2>1. CallsTyped' /\ UNCHANGED <<status, owner, messages, steps, executed>>
    <3>1. Stops(t) /\ "raised" \in Ended
      BY <1>1, Stopping DEF Ended
    <3>2. UNCHANGED run /\ Goto(t, "raised") /\ UNCHANGED <<status, owner, messages, steps, executed>>
      BY <3>1 DEF Stops
    <3> QED BY <1>0, <3>1, <3>2, GotoTyped
  <2>2. faults' \in 0..MaxFaults
    BY <1>1, BoundAssumption DEF Abort, CutOff, LockedOut, TypeOK
  <2>3. left' \subseteq [by: Runs, at: Writes] /\ disturbed' \in BOOLEAN
    <3>1. CASE CutOff(t)
      <4>1. pc[t] \in Writes /\ disturbed' = TRUE
        BY <3>1 DEF CutOff
      <4>2. [by |-> t, at |-> pc[t]] \in [by: Runs, at: Writes]
        BY <4>1
      <4>3. left' = left \cup {[by |-> t, at |-> pc[t]]} \/ left' = left
        BY <3>1 DEF CutOff
      <4> QED BY <4>1, <4>2, <4>3 DEF TypeOK
    <3>2. CASE Abort(t) \/ LockedOut(t)
      BY <3>2 DEF Abort, LockedOut, TypeOK
    <3> QED BY <1>1, <3>1, <3>2
  <2> QED BY <2>1, <2>2, <2>3 DEF TypeOK, CallsTyped, StepsBounded
<1>2. CASE Crash
  <2>1. CallsTyped'
    BY <1>0, <1>2 DEF Crash, CallsTyped, Live, Awaits, Ended
  <2>2. faults' \in 0..MaxFaults
    BY <1>2, BoundAssumption DEF Crash, TypeOK
  <2> QED BY <1>2, <2>1, <2>2 DEF Crash, TypeOK, CallsTyped, StepsBounded
<1>3. ASSUME NEW s \in Sessions, NEW st \in AdminOps, SetStatus(s, st) PROVE Typed'
  <2>1. st \in {"paused", "active", "archived"}
    BY <1>3, ChoiceAssumption DEF SetStatus
  <2> QED BY <1>3, <2>1 DEF SetStatus, TypeOK, StepsBounded
<1>4. ASSUME NEW s \in Sessions, DeleteSession(s) PROVE Typed'
  <2>1. messages' \in [Sessions -> Seq(Message)]
    BY <1>4 DEF DeleteSession, TypeOK
  <2>2. steps' \subseteq steps
    BY <1>4 DEF DeleteSession
  <2> QED BY <1>4, <2>1, <2>2 DEF DeleteSession, TypeOK, StepsBounded
<1> QED BY <1>1, <1>2, <1>3, <1>4 DEF Administer

(* What a landing write changes, table by table. *)
LEMMA LandMoves ==
    ASSUME TypeInv, NEW w \in left, Land(w)
    PROVE  /\ w.by \in Runs /\ left' \subseteq left /\ UNCHANGED <<executed, pc, run, disturbed, faults>>
           /\ \/ UNCHANGED <<status, owner>>
              \/ /\ UNCHANGED owner /\ w.at \in {"unpause", "close"}
                 /\ \E st \in {"active", "completed"} :
                      StatusUpdate(w.by, st)
              \/ \E n \in Sessions :
                   /\ w.at = "create" /\ status[n] = "unused"
                   /\ status' = [status EXCEPT ![n] = "active"]
                   /\ owner' = [owner EXCEPT ![n] = run[w.by].user]
           /\ \/ UNCHANGED messages
              \/ /\ w.at = "insert" /\ ParentExists(run[w.by].sid) /\ UNCHANGED <<status, owner, steps>>
                 /\ messages' = [messages EXCEPT ![run[w.by].sid] = Append(@, NewMessage(w.by))]
           /\ \/ UNCHANGED steps
              \/ /\ w.at = "persist" /\ ParentExists(run[w.by].sid) /\ ~Duplicate(w.by)
                 /\ UNCHANGED <<status, owner, messages>>
                 /\ steps' = steps \cup {NewStepRow(w.by)}
              \/ /\ w.at = "mark" /\ UNCHANGED <<status, owner, messages>>
                 /\ steps' = {IF Marked(w.by, r) THEN Complete(w.by, r) ELSE r : r \in steps}
<1>1. w.by \in Runs
  BY DEF TypeInv, Typed, TypeOK
<1>2. left' \subseteq left /\ UNCHANGED <<executed, pc, run, disturbed, faults>>
  BY DEF Land
<1> DEFINE t == w.by
           Place == run[t].sid
           Late == steps \cup {NewStepRow(t)}
           Done == {IF Marked(t, r) THEN Complete(t, r) ELSE r : r \in steps}
           Said == [messages EXCEPT ![Place] = Append(@, NewMessage(t))]
<1>3. \/ /\ w.at = "create" /\ UNCHANGED <<messages, steps>>
         /\ \E n \in Sessions :
              /\ status[n] = "unused"
              /\ status' = [status EXCEPT ![n] = "active"]
              /\ owner' = [owner EXCEPT ![n] = run[t].user]
      \/ /\ w.at \in {"unpause", "close"} /\ UNCHANGED <<owner, messages, steps>>
         /\ StatusUpdate(t, IF w.at = "close" THEN "completed" ELSE "active")
      \/ /\ w.at = "insert" /\ ParentExists(Place) /\ UNCHANGED <<status, owner, steps>>
         /\ messages' = Said
      \/ /\ w.at = "persist" /\ ParentExists(Place) /\ ~Duplicate(t)
         /\ UNCHANGED <<status, owner, messages>> /\ steps' = Late
      \/ w.at = "mark" /\ UNCHANGED <<status, owner, messages>> /\ steps' = Done
  BY DEF Land
<1> HIDE DEF Late, Done, Said
<1>4. \A v : v \in {"unpause", "close"} =>
         (IF v = "close" THEN "completed" ELSE "active") \in {"active", "completed"}
  OBVIOUS
<1> QED BY ZenonT(30), <1>1, <1>2, <1>3, <1>4 DEF Late, Done, Said

LEMMA LandTyped ==
    ASSUME TypeInv, NEW w \in left, Land(w) PROVE Typed'
<1> DEFINE t == w.by
<1>1. /\ t \in Runs /\ w.at \in Writes /\ run[t] \in Locals /\ run[t].user \in Users
      /\ w.at # "create" => run[t].sid \in Sessions
  BY DEF TypeInv, Typed, TypeOK, LeftTyped
<1>2. left' \subseteq [by: Runs, at: Writes] /\ disturbed' \in BOOLEAN /\ faults' \in 0..MaxFaults
      /\ UNCHANGED <<pc, run, executed>>
  BY LandMoves DEF TypeInv, Typed, TypeOK
<1>3. /\ status' \in [Sessions -> {"unused", "active", "paused", "completed", "archived", "deleted"}]
      /\ owner' \in [Sessions -> Users \cup {NoUser}]
  BY <1>1, LandMoves DEF StatusUpdate, TypeInv, Typed, TypeOK
<1>4. messages' \in [Sessions -> Seq(Message)]
  <2>1. NewMessage(t) \in Message
    BY <1>1, NewMessageTyped DEF TypeInv, Typed
  <2>2. CASE UNCHANGED messages
    BY <2>2 DEF TypeInv, Typed, TypeOK
  <2>3. CASE w.at = "insert" /\ messages' = [messages EXCEPT ![run[t].sid] = Append(@, NewMessage(t))]
    BY <1>1, <2>1, <2>3 DEF TypeInv, Typed, TypeOK
  <2> QED BY <2>2, <2>3, LandMoves
<1>5. steps' \subseteq StepRow /\ StepsBounded'
  <2>1. CASE UNCHANGED steps
    BY <2>1 DEF TypeInv, Typed, TypeOK, StepsBounded
  <2>2. CASE w.at = "persist" /\ steps' = steps \cup {NewStepRow(t)}
    BY <1>1, <2>2, RowTyped DEF TypeInv, Typed
  <2>3. CASE steps' = {IF Marked(t, r) THEN Complete(t, r) ELSE r : r \in steps}
    BY <1>1, <2>3, MarkTyped DEF TypeInv, Typed
  <2> QED BY <2>1, <2>2, <2>3, LandMoves
<1> QED BY <1>2, <1>3, <1>4, <1>5 DEF Typed, TypeInv, TypeOK

(* A call changes neither the place nor the locals of another call. *)
LEMMA OthersUntouched ==
    ASSUME Typed, NEW t \in Runs, Start(t) \/ Proceed(t) \/ Stops(t),
           NEW o \in Runs, o # t
    PROVE  pc'[o] = pc[o] /\ run'[o] = run[o]
<1>1. pc \in [Runs -> {"idle"} \cup Awaits \cup Ended] /\ run \in [Runs -> Locals]
  BY DEF Typed, TypeOK
<1> USE DEF Goto, Locally
<1>2. CASE Start(t)
  BY <1>1, <1>2 DEF Start, StartNew, StartOn
<1>3. CASE Stops(t)
  BY <1>1, <1>3 DEF Stops
<1>4. CASE Proceed(t)
  <2>1. CASE \E s \in Sessions : CreateSession(t, s)
    BY <1>1, <2>1 DEF CreateSession
  <2>2. CASE LoadSession(t) \/ Unpause(t) \/ ReadLatest(t)
    BY <1>1, <2>2 DEF LoadSession, Unpause, ReadLatest
  <2>3. CASE EncodeFails(t) \/ CountMessages(t) \/ InsertMessage(t) \/ InsertFails(t)
    BY <1>1, <2>3 DEF EncodeFails, CountMessages, InsertMessage, InsertFails
  <2>4. CASE ReadHistory(t) \/ LLMFails(t) \/ \E n \in 0..MaxCalls : LLMAnswers(t, n)
    BY <1>1, <2>4 DEF ReadHistory, LLMFails, LLMAnswers
  <2>5. CASE \E x \in Outcomes : ExecuteTool(t, x)
    BY <1>1, <2>5 DEF ExecuteTool
  <2>6. CASE PersistStep(t) \/ PersistFails(t) \/ RereadStep(t)
    BY <1>1, <2>6 DEF PersistStep, PersistFails, RereadStep
  <2>7. CASE ReadLastStep(t) \/ MarkStep(t) \/ CloseSession(t)
    BY <1>1, <2>7 DEF ReadLastStep, MarkStep, CloseSession
  <2> QED BY <1>4, <2>1, <2>2, <2>3, <2>4, <2>5, <2>6, <2>7 DEF Proceed
<1> QED BY <1>2, <1>3, <1>4

(* A call that has ended stays where it is, and what it has left is what   *)
(* it was.                                                                 *)
LEMMA RaisedStays ==
    ASSUME TypeInv, [Next]_vars, NEW o \in Runs, pc[o] = "raised"
    PROVE  pc'[o] = "raised" /\ run'[o] = run[o]
<1>1. ASSUME NEW t \in Runs, Start(t) \/ Proceed(t) \/ Stops(t) PROVE t # o
  <2>1. Start(t) => pc[t] = "idle"
    BY DEF Start, StartNew, StartOn
  <2>2. Proceed(t) => pc[t] \in Awaits
    BY DEF Proceed, CreateSession, LoadSession, Unpause, ReadLatest, EncodeFails, CountMessages,
       InsertMessage, InsertFails, ReadHistory, LLMFails, LLMAnswers, ExecuteTool, PersistStep,
       PersistFails, RereadStep, ReadLastStep, MarkStep, CloseSession, Awaits
  <2>3. Stops(t) => pc[t] \in Awaits
    BY DEF Stops, Live
  <2> QED BY <1>1, <2>1, <2>2, <2>3 DEF Awaits
<1>2. ASSUME NEW t \in Runs, Start(t) \/ Proceed(t) \/ Stops(t)
      PROVE  pc'[o] = pc[o] /\ run'[o] = run[o]
  BY <1>1, <1>2, OthersUntouched DEF TypeInv
<1>3. ASSUME NEW w \in left, Land(w) PROVE UNCHANGED <<pc, run>>
  BY <1>3 DEF Land
<1>4. Crash => pc'[o] = pc[o] /\ UNCHANGED run
  BY DEF Crash, Live, Awaits
<1>5. Administer \/ UNCHANGED vars => UNCHANGED <<pc, run>>
  BY DEF Administer, SetStatus, DeleteSession, vars
<1> QED BY <1>2, <1>3, <1>4, <1>5, NextCases

(* Only a call that is cut off in a write leaves one.                      *)
LEMMA LeftMoves ==
    ASSUME [Next]_vars, NEW w \in left'
    PROVE  \/ w \in left
           \/ \E t \in Runs : CutOff(t) /\ Accepted(t) /\ w = [by |-> t, at |-> pc[t]]
<1> USE DEF UnchangedConnections
<1>1. ASSUME NEW t \in Runs, Proceed(t) PROVE UNCHANGED left
  BY <1>1 DEF Proceed, CreateSession, LoadSession, Unpause, ReadLatest, EncodeFails, CountMessages,
     InsertMessage, InsertFails, ReadHistory, LLMFails, LLMAnswers, ExecuteTool, PersistStep,
     PersistFails, RereadStep, ReadLastStep, MarkStep, CloseSession
<1>2. ASSUME NEW t \in Runs, Start(t) \/ Abort(t) \/ LockedOut(t) PROVE UNCHANGED left
  BY <1>2 DEF Start, StartNew, StartOn, Abort, LockedOut
<1>3. ASSUME NEW t \in Runs, CutOff(t)
      PROVE  w \in left \/ (Accepted(t) /\ w = [by |-> t, at |-> pc[t]])
  BY <1>3 DEF CutOff
<1>4. ASSUME NEW v \in left, Land(v) PROVE left' \subseteq left
  BY <1>4 DEF Land
<1>5. Crash => left' = {}
  BY DEF Crash
<1>6. Administer \/ UNCHANGED vars => UNCHANGED left
  BY DEF Administer, SetStatus, DeleteSession, vars
<1> QED BY <1>1, <1>2, <1>3, <1>4, <1>5, <1>6 DEF Next, Quiet

(* No connection is ever known to be clean again.                          *)
LEMMA DisturbedStays ==
    ASSUME [Next]_vars, disturbed PROVE disturbed'
<1> USE DEF UnchangedConnections
<1>1. ASSUME NEW t \in Runs, Proceed(t) PROVE disturbed'
  BY <1>1 DEF Proceed, CreateSession, LoadSession, Unpause, ReadLatest, EncodeFails, CountMessages,
     InsertMessage, InsertFails, ReadHistory, LLMFails, LLMAnswers, ExecuteTool, PersistStep,
     PersistFails, RereadStep, ReadLastStep, MarkStep, CloseSession
<1>2. ASSUME NEW t \in Runs, Start(t) \/ Abort(t) \/ CutOff(t) \/ LockedOut(t) PROVE disturbed'
  BY <1>2 DEF Start, StartNew, StartOn, Abort, CutOff, LockedOut
<1>3. ASSUME NEW w \in left, Land(w) PROVE disturbed'
  BY <1>3 DEF Land
<1>4. Crash \/ Administer \/ UNCHANGED vars => disturbed'
  BY DEF Crash, Administer, SetStatus, DeleteSession, vars
<1> QED BY <1>1, <1>2, <1>3, <1>4 DEF Next, Quiet

LEMMA TypeInvariant == Spec => []TypeInv
<1>1. Init => TypeInv
  <2> SUFFICES ASSUME Init PROVE TypeInv
    OBVIOUS
  <2>1. CallsTyped
    BY DEF Init, CallsTyped, Locals, Roles, Awaits
  <2>2. StepsBounded
    BY DEF Init, StepsBounded
  <2>3. messages \in [Sessions -> Seq(Message)] /\ steps \subseteq StepRow
    BY DEF Init
  <2>4. status \in [Sessions -> {"unused", "active", "paused", "completed", "archived", "deleted"}]
    BY DEF Init
  <2>5. owner \in [Sessions -> Users \cup {NoUser}]
    BY DEF Init
  <2>6. executed \subseteq [sid: Sessions, num: Nat, call: Nat, by: Runs] /\ faults \in 0..MaxFaults
    BY BoundAssumption DEF Init
  <2>7. left \subseteq [by: Runs, at: Writes] /\ disturbed \in BOOLEAN /\ LeftTyped
    BY DEF Init, LeftTyped
  <2> QED BY <2>1, <2>2, <2>3, <2>4, <2>5, <2>6, <2>7 DEF TypeInv, Typed, TypeOK, CallsTyped
<1>2. TypeInv /\ [Next]_vars => TypeInv'
  <2> SUFFICES ASSUME TypeInv, [Next]_vars PROVE TypeInv'
    OBVIOUS
  <2>1. ASSUME NEW t \in Runs, Proceed(t) PROVE Typed'
    BY <2>1, SetupTyped, AppendTyped, ThinkTyped, PersistTyped DEF Proceed, TypeInv
  <2>2. ASSUME UNCHANGED vars PROVE Typed'
    BY <2>2 DEF vars, TypeInv, Typed, TypeOK, StepsBounded
  <2>3. Typed'
    BY <2>1, <2>2, StartTyped, OutsideTyped, LandTyped DEF Next, Quiet, TypeInv
  <2>4. LeftTyped'
    <3> SUFFICES ASSUME NEW w \in left'
                 PROVE  /\ disturbed' /\ pc'[w.by] = "raised" /\ run'[w.by].user \in Users
                        /\ w.at # "create" => run'[w.by].sid \in Sessions
      BY DEF LeftTyped
    <3>0. disturbed'
      BY LeftMoves, DisturbedStays DEF TypeInv, LeftTyped, CutOff
    <3>1. CASE w \in left
      <4>1. /\ w.by \in Runs /\ pc[w.by] = "raised" /\ run[w.by].user \in Users
            /\ w.at # "create" => run[w.by].sid \in Sessions
        BY <3>1 DEF TypeInv, Typed, TypeOK, LeftTyped
      <4> QED BY <3>0, <4>1, RaisedStays
    <3>2. ASSUME NEW t \in Runs, CutOff(t), w = [by |-> t, at |-> pc[t]]
          PROVE  /\ pc'[w.by] = "raised" /\ run'[w.by].user \in Users
                 /\ w.at # "create" => run'[w.by].sid \in Sessions
      BY <3>2 DEF CutOff, Goto, Writes, Awaits, TypeInv, Typed, TypeOK
    <3> QED BY <3>0, <3>1, <3>2, LeftMoves
  <2> QED BY <2>3, <2>4 DEF TypeInv
<1> QED BY <1>1, <1>2, PTL DEF Spec

(* TypeOK for every instance: in particular the locals that index the      *)
(* tables (sid, target) always name something that was handed out.         *)
THEOREM TypeCorrect == Spec => []TypeOK
<1>1. TypeInv => TypeOK
  BY DEF TypeInv, Typed
<1> QED BY <1>1, TypeInvariant, PTL

-----------------------------------------------------------------------------
(* What a step leaves alone. *)

(* Which actions of a call, and which others, write to each table. *)
LEMMA CallMoves ==
    ASSUME NEW t \in Runs, Proceed(t)
    PROVE  /\ UNCHANGED owner \/ \E x \in Sessions : CreateSession(t, x)
           /\ UNCHANGED messages \/ InsertMessage(t)
           /\ UNCHANGED steps \/ PersistStep(t) \/ MarkStep(t)
           /\ UNCHANGED executed \/ \E o \in Outcomes : ExecuteTool(t, o)
<1> USE DEF UnchangedTables
<1>1. CASE \E x \in Sessions : CreateSession(t, x)
  BY <1>1 DEF CreateSession
<1>2. CASE LoadSession(t) \/ Unpause(t) \/ ReadLatest(t)
  BY <1>2 DEF LoadSession, Unpause, ReadLatest
<1>3. CASE EncodeFails(t) \/ CountMessages(t) \/ InsertFails(t)
  BY <1>3 DEF EncodeFails, CountMessages, InsertFails
<1>4. CASE InsertMessage(t)
  BY <1>4 DEF InsertMessage
<1>5. CASE ReadHistory(t) \/ LLMFails(t) \/ \E n \in 0..MaxCalls : LLMAnswers(t, n)
  BY <1>5 DEF ReadHistory, LLMFails, LLMAnswers
<1>6. CASE \E o \in Outcomes : ExecuteTool(t, o)
  BY <1>6 DEF ExecuteTool
<1>7. CASE PersistStep(t) \/ PersistFails(t) \/ RereadStep(t)
  BY <1>7 DEF PersistStep, PersistFails, RereadStep
<1>8. CASE ReadLastStep(t) \/ MarkStep(t) \/ CloseSession(t)
  BY <1>8 DEF ReadLastStep, MarkStep, CloseSession
<1> QED BY <1>1, <1>2, <1>3, <1>4, <1>5, <1>6, <1>7, <1>8 DEF Proceed

(* A call writes to a session for as long as it is in progress on it, and  *)
(* after that if it has left a write there.                                *)
Leaves(t) == \E w \in left : w.by = t /\ w.at # "create"

Bound(t) == pc[t] \in Awaits \ {"create"} \/ Leaves(t)

LEMMA BoundTyped ==
    ASSUME TypeInv, NEW t \in Runs, Bound(t)
    PROVE  /\ run[t].sid \in Sessions /\ run[t].user \in Users
           /\ Leaves(t) => pc[t] = "raised"
BY DEF Bound, Leaves, TypeInv, Typed, TypeOK, LeftTyped

LEMMA LeavesMoves ==
    ASSUME TypeInv, [Next]_vars, NEW t \in Runs, Leaves(t)'
    PROVE  pc'[t] = "raised" /\ run'[t] = run[t] /\ (Leaves(t) \/ pc[t] \in Writes \ {"create"})
<1>1. PICK w \in left' : w.by = t /\ w.at # "create"
  BY DEF Leaves
<1>2. CASE w \in left
  <2>1. Leaves(t) /\ pc[t] = "raised"
    BY <1>1, <1>2 DEF Leaves, TypeInv, LeftTyped
  <2> QED BY <2>1, RaisedStays
<1>3. ASSUME NEW o \in Runs, CutOff(o), w = [by |-> o, at |-> pc[o]]
      PROVE  pc'[t] = "raised" /\ run'[t] = run[t] /\ pc[t] \in Writes \ {"create"}
  <2>1. o = t /\ pc[t] # "create"
    BY <1>1, <1>3
  <2> QED BY <1>3, <2>1 DEF CutOff, Goto, TypeInv, Typed, TypeOK
<1> QED BY <1>2, <1>3, LeftMoves

(* What a write does to the tables, at once or when it lands later.        *)
Says(t) == /\ Bound(t) /\ pc[t] \in {"insert", "raised"}
           /\ ParentExists(run[t].sid) /\ UNCHANGED <<status, owner, steps>>
           /\ messages' = [messages EXCEPT ![run[t].sid] = Append(@, NewMessage(t))]

Adds(t) == /\ Bound(t) /\ pc[t] \in {"persist", "raised"}
           /\ ParentExists(run[t].sid) /\ ~Duplicate(t) /\ UNCHANGED <<status, owner, messages>>
           /\ steps' = steps \cup {NewStepRow(t)}

Marks(t) == /\ UNCHANGED <<status, owner, messages>>
            /\ steps' = {IF Marked(t, r) THEN Complete(t, r) ELSE r : r \in steps}

Makes(x) == status[x] = "unused" /\ \E u \in Users : owner' = [owner EXCEPT ![x] = u]

LEMMA TablesMove ==
    ASSUME TypeInv, [Next]_vars
    PROVE  /\ UNCHANGED owner \/ \E x \in Sessions : Makes(x)
           /\ \/ UNCHANGED messages
              \/ \E t \in Runs : Says(t)
              \/ \E s \in Sessions : DeleteSession(s)
           /\ \/ UNCHANGED steps
              \/ \E t \in Runs : Adds(t)
              \/ \E t \in Runs : Marks(t)
              \/ \E s \in Sessions : DeleteSession(s)
           /\ UNCHANGED executed \/ \E t \in Runs, o \in Outcomes : ExecuteTool(t, o)
<1> DEFINE Still == UNCHANGED <<owner, messages, steps, executed>>
<1> USE DEF UnchangedTables
<1>1. ASSUME NEW t \in Runs, Start(t) PROVE Still
  BY <1>1 DEF Start, StartNew, StartOn
<1>2. ASSUME NEW t \in Runs, Stops(t) PROVE Still
  BY <1>2 DEF Stops
<1>3. Crash \/ UNCHANGED vars => Still
  BY DEF Crash, vars
<1>4. ASSUME Administer
      PROVE  /\ UNCHANGED <<owner, executed>>
             /\ UNCHANGED <<messages, steps>> \/ \E s \in Sessions : DeleteSession(s)
  <2>1. ASSUME NEW s \in Sessions, NEW st \in AdminOps, SetStatus(s, st) PROVE Still
    BY <2>1 DEF SetStatus
  <2>2. ASSUME NEW s \in Sessions, DeleteSession(s) PROVE UNCHANGED <<owner, executed>>
    BY <2>2 DEF DeleteSession
  <2> QED BY <1>4, <2>1, <2>2 DEF Administer
<1>5. ASSUME NEW t \in Runs, Proceed(t)
      PROVE  /\ UNCHANGED owner \/ \E x \in Sessions : Makes(x)
             /\ UNCHANGED messages \/ Says(t)
             /\ UNCHANGED steps \/ Adds(t) \/ Marks(t)
             /\ UNCHANGED executed \/ \E o \in Outcomes : ExecuteTool(t, o)
  <2>1. InsertMessage(t) => Says(t)
    BY DEF InsertMessage, Says, Bound, Awaits
  <2>2. PersistStep(t) => Adds(t)
    BY DEF PersistStep, Adds, Bound, Awaits
  <2>3. MarkStep(t) => Marks(t)
    BY DEF MarkStep, Marks
  <2>4. ASSUME NEW x \in Sessions, CreateSession(t, x) PROVE Makes(x)
    <3>1. run[t].user \in Users
      BY <2>4 DEF CreateSession, TypeInv, Typed, TypeOK, Awaits
    <3> QED BY <2>4, <3>1 DEF CreateSession, Makes
  <2> QED BY <1>5, <2>1, <2>2, <2>3, <2>4, CallMoves
<1>6. ASSUME NEW w \in left, Land(w)
      PROVE  /\ UNCHANGED owner \/ \E x \in Sessions : Makes(x)
             /\ UNCHANGED messages \/ Says(w.by)
             /\ UNCHANGED steps \/ Adds(w.by) \/ Marks(w.by)
             /\ UNCHANGED executed /\ w.by \in Runs
  <2>1. w.by \in Runs /\ pc[w.by] = "raised" /\ run[w.by].user \in Users
    BY DEF TypeInv, Typed, TypeOK, LeftTyped
  <2>2. w.at # "create" => Bound(w.by)
    BY DEF Bound, Leaves
  <2>3. UNCHANGED owner \/ \E x \in Sessions : Makes(x)
    BY <1>6, <2>1, LandMoves DEF Makes
  <2>4. UNCHANGED messages \/ Says(w.by)
    BY <1>6, <2>1, <2>2, LandMoves DEF Says
  <2>5. UNCHANGED steps \/ Adds(w.by) \/ Marks(w.by)
    BY <1>6, <2>1, <2>2, LandMoves DEF Adds, Marks
  <2> QED BY <1>6, <2>1, <2>3, <2>4, <2>5, LandMoves
<1>7. CASE Administer
  BY <1>4, <1>7
<1>8. CASE Still
  BY <1>8
<1> QED BY <1>1, <1>2, <1>3, <1>5, <1>6, <1>7, <1>8, NextCases

(* As long as no connection was left in a transaction, all writes are done *)
(* by the calls that are at them.                                          *)
LEMMA CalmTables ==
    ASSUME TypeInv, [Next]_vars, ~disturbed
    PROVE  /\ \/ UNCHANGED messages
              \/ \E t \in Runs : InsertMessage(t)
              \/ \E s \in Sessions : DeleteSession(s)
           /\ \/ UNCHANGED steps
              \/ \E t \in Runs : PersistStep(t)
              \/ \E t \in Runs : MarkStep(t)
              \/ \E s \in Sessions : DeleteSession(s)
<1> DEFINE Still == UNCHANGED <<messages, steps>>
<1> USE DEF UnchangedTables
<1>1. ASSUME NEW t \in Runs, Start(t) \/ Stops(t) PROVE Still
  BY <1>1 DEF Start, StartNew, StartOn, Stops
<1>2. Crash \/ UNCHANGED vars => Still
  BY DEF Crash, vars
<1>3. ASSUME Administer PROVE Still \/ \E s \in Sessions : DeleteSession(s)
  BY <1>3 DEF Administer, SetStatus
<1>4. CASE \E t \in Runs : Proceed(t)
  BY <1>4, CallMoves
<1>5. left = {}
  BY DEF TypeInv, LeftTyped
<1> QED BY <1>1, <1>2, <1>3, <1>4, <1>5, NextCases

(* A session id that was used is never unused again, and a session that    *)
(* is gone never comes back.                                               *)
LEMMA StatusMoves ==
    ASSUME TypeInv, [Next]_vars, NEW s \in Sessions
    PROVE  /\ status[s] # "unused" => status'[s] # "unused"
           /\ status[s] # "unused" /\ Exists(s)' => Exists(s)
           /\ Exists(s) /\ ~Exists(s)' => DeleteSession(s)
<1>1. status \in [Sessions -> {"unused", "active", "paused", "completed", "archived", "deleted"}]
  BY DEF TypeInv, Typed, TypeOK
<1> USE DEF Exists, UnchangedTables
<1>2. ASSUME NEW t \in Runs, Start(t) \/ Stops(t) PROVE UNCHANGED status
  BY <1>2 DEF Start, StartNew, StartOn, Stops
<1>3. ASSUME NEW t \in Runs, NEW x \in Sessions, CreateSession(t, x)
      PROVE  status[x] = "unused" /\ status' = [status EXCEPT ![x] = "active"]
  BY <1>3 DEF CreateSession
<1>4. ASSUME NEW t \in Runs, Unpause(t) \/ CloseSession(t)
      PROVE  \/ UNCHANGED status
             \/ \E st \in {"active", "completed"} :
                  Exists(run[t].sid) /\ status' = [status EXCEPT ![run[t].sid] = st]
  BY <1>4 DEF Unpause, CloseSession, StatusUpdate, VisibleSession
<1>5. ASSUME NEW t \in Runs, Proceed(t),
             ~(\E x \in Sessions : CreateSession(t, x)), ~Unpause(t), ~CloseSession(t)
      PROVE  UNCHANGED status
  BY <1>5 DEF Proceed, LoadSession, ReadLatest, EncodeFails, CountMessages, InsertMessage,
     InsertFails, ReadHistory, LLMFails, LLMAnswers, ExecuteTool, PersistStep, PersistFails,
     RereadStep, ReadLastStep, MarkStep
<1>6. ASSUME Administer
      PROVE  \/ \E x \in Sessions, st \in {"active", "paused", "archived"} :
                  Exists(x) /\ status' = [status EXCEPT ![x] = st]
             \/ \E x \in Sessions :
                  Exists(x) /\ status' = [status EXCEPT ![x] = "deleted"] /\ DeleteSession(x)
  <2>1. ASSUME NEW x \in Sessions, DeleteSession(x)
        PROVE  Exists(x) /\ status' = [status EXCEPT ![x] = "deleted"]
    BY <2>1 DEF DeleteSession
  <2>2. ASSUME NEW x \in Sessions, NEW st \in AdminOps, SetStatus(x, st)
        PROVE  st \in {"active", "paused", "archived"} /\ Exists(x) /\ status' = [status EXCEPT ![x] = st]
    BY <2>2, ChoiceAssumption DEF SetStatus
  <2> QED BY <1>6, <2>1, <2>2 DEF Administer
<1>7. Crash \/ UNCHANGED vars => UNCHANGED status
  BY DEF Crash, vars
<1>8. ASSUME NEW w \in left, Land(w)
      PROVE  \/ UNCHANGED status
             \/ \E x \in Sessions : status[x] = "unused" /\ status' = [status EXCEPT ![x] = "active"]
             \/ \E st \in {"active", "completed"} :
                  Exists(run[w.by].sid) /\ status' = [status EXCEPT ![run[w.by].sid] = st]
  BY <1>8, LandMoves DEF StatusUpdate, VisibleSession
<1> QED BY <1>1, <1>2, <1>3, <1>4, <1>5, <1>6, <1>7, <1>8, NextCases

(* Once it has a session, a call keeps its session, its user and its mode; *)
(* it reads its offset once and counts its steps in MarkStep alone.        *)
LEMMA LocalsKept ==
    ASSUME TypeInv, NEW t \in Runs, Proceed(t), ~(\E s \in Sessions : CreateSession(t, s))
    PROVE  /\ pc[t] \in Awaits \ {"create"}
           /\ run'[t].sid = run[t].sid /\ run'[t].user = run[t].user /\ run'[t].mode = run[t].mode
           /\ ReadLatest(t) \/ run'[t].base = run[t].base
           /\ MarkStep(t) \/ run'[t].k = run[t].k
<1>0. run \in [Runs -> Locals] /\ run[t] \in Locals
  BY DEF TypeInv, Typed, TypeOK
<1>1. pc[t] \in Awaits \ {"create"}
  BY DEF Proceed, LoadSession, Unpause, ReadLatest, EncodeFails, CountMessages, InsertMessage,
     InsertFails, ReadHistory, LLMFails, LLMAnswers, ExecuteTool, PersistStep, PersistFails,
     RereadStep, ReadLastStep, MarkStep, CloseSession, Awaits
<1> DEFINE Same == /\ run'[t].sid = run[t].sid /\ run'[t].user = run[t].user /\ run'[t].mode = run[t].mode
                   /\ ReadLatest(t) \/ run'[t].base = run[t].base
                   /\ MarkStep(t) \/ run'[t].k = run[t].k
<1>2. UNCHANGED run => Same
  OBVIOUS
<1>3. ASSUME LoadSession(t) \/ Unpause(t) \/ EncodeFails(t) \/ InsertFails(t) \/ LLMFails(t)
           \/ PersistStep(t) \/ PersistFails(t) \/ CloseSession(t)
      PROVE  Same
  BY <1>2, <1>3 DEF LoadSession, Unpause, EncodeFails, InsertFails, LLMFails, PersistStep,
     PersistFails, CloseSession
<1>4. ASSUME ReadLatest(t)
      PROVE  Same
  <2>1. PICK v : run'[t] = [run[t] EXCEPT !.base = v]
    BY <1>0, <1>4 DEF ReadLatest, Locally
  <2> QED BY <1>0, <1>4, <2>1 DEF Locals
<1>5. ASSUME CountMessages(t)
      PROVE  Same
  <2>1. PICK v : run'[t] = [run[t] EXCEPT !.count = v]
    BY <1>0, <1>5 DEF CountMessages, Locally
  <2> QED BY <1>0, <2>1 DEF Locals
<1>6. ASSUME InsertMessage(t)
      PROVE  Same
  <2>1. PICK v : run'[t] = [run[t] EXCEPT !.count = 0, !.next = v]
    BY <1>0, <1>6 DEF InsertMessage, Locally
  <2> QED BY <1>0, <2>1 DEF Locals
<1>7. ASSUME ReadHistory(t)
      PROVE  Same
  <2>1. PICK v : run'[t] = [run[t] EXCEPT !.prompt = v]
    BY <1>0, <1>7 DEF ReadHistory, Locally
  <2> QED BY <1>0, <2>1 DEF Locals
<1>8. ASSUME NEW n \in 0..MaxCalls, LLMAnswers(t, n) PROVE Same
  <2>1. run'[t] = [run[t] EXCEPT !.phase = "assistant", !.calls = n, !.results = <<>>,
                                 !.prompt = {}]
    BY <1>0, <1>8 DEF LLMAnswers, Locally
  <2> QED BY <1>0, <2>1 DEF Locals
<1>9. ASSUME NEW o \in Outcomes, ExecuteTool(t, o) PROVE Same
  <2>1. PICK v : \/ run'[t] = [run[t] EXCEPT !.results = v]
                 \/ run'[t] = [run[t] EXCEPT !.results = v, !.phase = "tool"]
    BY <1>0, <1>9 DEF ExecuteTool, Locally
  <2> QED BY <1>0, <2>1 DEF Locals
<1>10. ASSUME RereadStep(t) \/ ReadLastStep(t)
      PROVE  Same
  <2>1. PICK v : run'[t] = [run[t] EXCEPT !.target = v]
    BY <1>0, <1>10 DEF RereadStep, ReadLastStep, Locally
  <2> QED BY <1>0, <2>1 DEF Locals
<1>11. ASSUME MarkStep(t)
      PROVE  Same
  <2>1. PICK v : UNCHANGED run \/ run'[t] = [run[t] EXCEPT !.k = v]
    BY <1>0, <1>11 DEF MarkStep, Locally
  <2> QED BY <1>0, <1>11, <2>1 DEF Locals
<1> QED BY <1>1, <1>3, <1>4, <1>5, <1>6, <1>7, <1>8, <1>9, <1>10, <1>11 DEF Proceed

-----------------------------------------------------------------------------
(* Rows and calls refer to sessions that were handed out. *)

HandedOut ==
    /\ \A t \in Runs : Bound(t) => status[run[t].sid] # "unused"
    /\ \A e \in executed : status[e.sid] # "unused"
    /\ NoOrphanRows

LEMMA HandedOutInvariant == Spec => []HandedOut
<1>1. Init => HandedOut
  BY DEF Init, HandedOut, NoOrphanRows, Bound, Leaves, Awaits, Exists
<1>2. TypeInv /\ TypeInv' /\ HandedOut /\ [Next]_vars => HandedOut'
  <2> SUFFICES ASSUME TypeInv, TypeInv', HandedOut, [Next]_vars PROVE HandedOut'
    OBVIOUS
  <2>1. \A o \in Runs : Bound(o)' => status'[run'[o].sid] # "unused"
    <3> SUFFICES ASSUME NEW o \in Runs, Bound(o)'
                 PROVE  status'[run'[o].sid] # "unused"
      OBVIOUS
    <3>1. ASSUME Bound(o), run'[o].sid = run[o].sid PROVE status'[run'[o].sid] # "unused"
      BY <3>1, BoundTyped, StatusMoves DEF HandedOut
    <3>9. CASE Leaves(o)'
      BY <3>1, <3>9, LeavesMoves DEF Bound, Writes, Awaits
    <3> SUFFICES ASSUME pc'[o] \in Awaits \ {"create"} PROVE status'[run'[o].sid] # "unused"
      BY <3>9 DEF Bound
    <3>2. ASSUME NEW s \in Sessions, CreateSession(o, s) PROVE status'[run'[o].sid] # "unused"
      <4>1. run'[o].sid = s /\ status'[s] = "active"
        BY <3>2 DEF CreateSession, Locally, TypeInv, Typed, TypeOK, Locals
      <4> QED BY <4>1
    <3>3. CASE Start(o)
      <4>1. ASSUME NEW u \in Users, NEW n \in 0..MaxInputs, StartNew(o, u, n) PROVE FALSE
        BY <4>1 DEF StartNew, Goto, TypeInv, Typed, TypeOK
      <4>2. ASSUME NEW u \in Users, NEW n \in 0..MaxInputs, NEW s \in Sessions,
                   NEW m \in {"continue", "resume"}, StartOn(o, u, n, s, m)
            PROVE  status'[run'[o].sid] # "unused"
        BY <4>2 DEF StartOn, Locally, UnchangedTables, TypeInv, Typed, TypeOK, Locals
      <4> QED BY <3>3, <4>1, <4>2 DEF Start
    <3>4. CASE Stops(o)
      BY <3>4 DEF Stops, Goto, TypeInv, Typed, TypeOK, Awaits
    <3>5. CASE Proceed(o)
      BY <3>1, <3>2, <3>5, LocalsKept DEF Bound
    <3>6. ASSUME NEW t \in Runs, t # o, Start(t) \/ Proceed(t) \/ Stops(t)
          PROVE  status'[run'[o].sid] # "unused"
      <4>1. pc'[o] = pc[o] /\ run'[o] = run[o]
        BY <3>6, OthersUntouched DEF TypeInv
      <4> QED BY <3>1, <4>1 DEF Bound
    <3>7. CASE Crash
      BY <3>1, <3>7 DEF Crash, Bound, Live, Awaits, TypeInv, Typed, TypeOK
    <3>8. CASE Administer \/ UNCHANGED vars \/ \E w \in left : Land(w)
      BY <3>1, <3>8 DEF Administer, SetStatus, DeleteSession, vars, Land, Bound
    <3> QED BY <3>3, <3>4, <3>5, <3>6, <3>7, <3>8, NextCases
  <2>2. \A e \in executed' : status'[e.sid] # "unused"
    <3>1. executed' = executed \/ \E t \in Runs, o \in Outcomes : ExecuteTool(t, o)
      BY TablesMove
    <3>2. ASSUME NEW t \in Runs, NEW o \in Outcomes, ExecuteTool(t, o), NEW e \in executed'
          PROVE  e \in executed \/ (e.sid = run[t].sid /\ Bound(t))
      BY <3>2 DEF ExecuteTool, Bound, Awaits
    <3>3. \A e \in executed : e.sid \in Sessions
      BY DEF TypeInv, Typed, TypeOK
    <3>4. \A t \in Runs : Bound(t) => run[t].sid \in Sessions
      BY BoundTyped
    <3> QED BY <3>1, <3>2, <3>3, <3>4, StatusMoves DEF HandedOut
  <2>3. NoOrphanRows'
    <3> SUFFICES ASSUME NEW s \in Sessions, ~Exists(s)'
                 PROVE  messages'[s] = <<>> /\ \A r \in steps' : r.sid # s
      BY DEF NoOrphanRows
    <3>1. CASE UNCHANGED <<messages, steps>> /\ ~Exists(s)
      BY <3>1 DEF HandedOut, NoOrphanRows
    <3>2. ASSUME NEW t \in Runs, Says(t)
          PROVE  messages'[s] = <<>> /\ \A r \in steps' : r.sid # s
      BY <3>2 DEF Says, ParentExists, Exists, HandedOut, NoOrphanRows, TypeInv, Typed, TypeOK
    <3>3. ASSUME NEW t \in Runs, Adds(t)
          PROVE  messages'[s] = <<>> /\ \A r \in steps' : r.sid # s
      BY <3>3 DEF Adds, ParentExists, Exists, NewStepRow, HandedOut, NoOrphanRows
    <3>4. ASSUME NEW t \in Runs, Marks(t)
          PROVE  messages'[s] = <<>> /\ \A r \in steps' : r.sid # s
      <4>1. \A r \in steps' : \E q \in steps : r.sid = q.sid
        BY <3>4 DEF Marks, Complete, TypeInv, Typed, TypeOK, StepRow
      <4>2. ~Exists(s)
        BY <3>4 DEF Marks, Exists
      <4> QED BY <3>4, <4>1, <4>2 DEF Marks, HandedOut, NoOrphanRows
    <3>5. ASSUME NEW x \in Sessions,
                 DeleteSession(x) \/ \E st \in AdminOps : SetStatus(x, st)
          PROVE  messages'[s] = <<>> /\ \A r \in steps' : r.sid # s
      <4>1. CASE \E st \in AdminOps : SetStatus(x, st)
        BY <4>1, ChoiceAssumption DEF SetStatus, Exists, HandedOut, NoOrphanRows, TypeInv, Typed, TypeOK
      <4>2. CASE DeleteSession(x) /\ x = s
        BY <4>2 DEF DeleteSession, TypeInv, Typed, TypeOK
      <4>3. CASE DeleteSession(x) /\ x # s
        BY <4>3 DEF DeleteSession, Exists, HandedOut, NoOrphanRows, TypeInv, Typed, TypeOK
      <4> QED BY <3>5, <4>1, <4>2, <4>3
    <3>6. CASE UNCHANGED <<messages, steps>>
      <4>1. CASE Exists(s)
        BY <3>5, <4>1, StatusMoves
      <4> QED BY <3>1, <3>6, <4>1
    <3> QED BY <3>2, <3>3, <3>4, <3>5, <3>6, TablesMove
  <2> QED BY <2>1, <2>2, <2>3 DEF HandedOut
<1> QED BY <1>1, <1>2, TypeInvariant, PTL DEF Spec

(* NoOrphanRows for every instance: rows never outlive their session.      *)
THEOREM RowsGoWithSession == Spec => []NoOrphanRows
<1>1. HandedOut => NoOrphanRows
  BY DEF HandedOut
<1> QED BY <1>1, HandedOutInvariant, PTL

-----------------------------------------------------------------------------
(* Contiguous step numbers.  The UNIQUE constraint lets a call insert only *)
(* numbers that are free; what makes them contiguous is that all numbers   *)
(* before the one it inserts are taken: up to its offset because the table *)
(* was contiguous when it read the latest row, and from there on because   *)
(* it inserted them itself; rows only go with their session.               *)

(* The steps a call relies on, and so does the row it may have left: up to *)
(* the one it has persisted, or up to the one before.                      *)
Reached(t) == IF pc[t] \in {"reread", "lastStep", "mark", "close"}
              THEN StepNumber(t) ELSE StepNumber(t) - 1

BeforeLoop(t) == pc[t] \in {"idle", "create", "load", "unpause", "latest"}

StepsKnown(t) ==
    /\ run[t].k > 0
    /\ BeforeLoop(t) => run[t].base = 0 /\ run[t].k = 1
    /\ Bound(t) /\ Exists(run[t].sid) => \A n \in 1..Reached(t) : Taken(run[t].sid, n)

StepsInv == StepNumbersContiguous /\ \A t \in Runs : StepsKnown(t)

(* The rows after Marks are the rows before it, one of them rewritten   *)
(* in place.                                                               *)
LEMMA MarkKeepsNumbers ==
    ASSUME TypeInv, NEW t \in Runs, Marks(t)
    PROVE  /\ \A r \in steps' : \E q \in steps :
                r = (IF Marked(t, q) THEN Complete(t, q) ELSE q) /\ r.sid = q.sid /\ r.num = q.num
                /\ r.user = q.user
           /\ \A q \in steps : \E r \in steps' : r.sid = q.sid /\ r.num = q.num
<1>1. \A q \in steps : LET c == Complete(t, q) IN
                       c.sid = q.sid /\ c.num = q.num /\ c.user = q.user
  BY DEF Complete, TypeInv, Typed, TypeOK, StepRow
<1>2. steps' = {IF Marked(t, r) THEN Complete(t, r) ELSE r : r \in steps}
  BY DEF Marks
<1> QED BY <1>1, <1>2

LEMMA TakenStays ==
    ASSUME TypeInv, [Next]_vars, NEW s \in Sessions, NEW n, Taken(s, n), Exists(s)'
    PROVE  Taken(s, n)'
<1>1. CASE \E t \in Runs : Marks(t)
  BY <1>1, MarkKeepsNumbers DEF Taken
<1>2. CASE \E x \in Sessions : DeleteSession(x)
  BY <1>2 DEF DeleteSession, Exists, Taken, TypeInv, Typed, TypeOK
<1>3. CASE UNCHANGED steps \/ \E t \in Runs : Adds(t)
  BY <1>3 DEF Adds, Taken
<1> QED BY <1>1, <1>2, <1>3, TablesMove

(* A call that does not move on to a further step still knows its steps.   *)
LEMMA KnownStays ==
    ASSUME TypeInv, HandedOut, [Next]_vars, NEW t \in Runs, StepsKnown(t),
           run'[t].sid = run[t].sid, run'[t].base = run[t].base, run'[t].k = run[t].k,
           BeforeLoop(t)' => BeforeLoop(t),
           Bound(t)' =>
              /\ Bound(t)
              /\ pc'[t] \in {"reread", "lastStep", "mark", "close"}
                    => pc[t] \in {"reread", "lastStep", "mark", "close"}
    PROVE  StepsKnown(t)'
<1>1. run'[t].k > 0 /\ (BeforeLoop(t)' => run'[t].base = 0 /\ run'[t].k = 1)
  BY DEF StepsKnown
<1>2. ASSUME Bound(t)', Exists(run[t].sid)', NEW n \in 1..Reached(t)'
      PROVE  Taken(run[t].sid, n)'
  <2>1. run[t].sid \in Sessions /\ Exists(run[t].sid)
    BY <1>2, BoundTyped, StatusMoves DEF HandedOut
  <2>2. run[t].base \in Nat /\ run[t].k \in Nat
    BY DEF TypeInv, Typed, TypeOK, Locals
  <2>3. n \in 1..Reached(t)
    BY <1>2, <2>2 DEF Reached, StepNumber
  <2> QED BY <1>2, <2>1, <2>3, TakenStays DEF StepsKnown
<1> QED BY <1>1, <1>2 DEF StepsKnown

LEMMA StepsKnownStep ==
    ASSUME TypeInv, TypeInv', HandedOut, StepsInv, [Next]_vars, NEW o \in Runs
    PROVE  StepsKnown(o)'
<1>0. /\ run \in [Runs -> Locals] /\ run[o] \in Locals /\ run'[o] \in Locals
      /\ pc \in [Runs -> {"idle"} \cup Awaits \cup Ended]
      /\ StepsKnown(o)
  BY DEF TypeInv, Typed, TypeOK, StepsInv
<1>7. CASE Leaves(o)'
  <2>1. pc'[o] = "raised" /\ run'[o] = run[o] /\ Bound(o)
    BY <1>7, LeavesMoves DEF Bound, Writes, Awaits
  <2> QED BY <1>0, <2>1, KnownStays DEF BeforeLoop
<1> SUFFICES ASSUME ~Leaves(o)', Bound(o)' <=> pc'[o] \in Awaits \ {"create"} PROVE StepsKnown(o)'
  BY <1>7 DEF Bound
<1>1. CASE UNCHANGED <<pc[o], run[o]>>
  BY <1>0, <1>1, KnownStays DEF BeforeLoop, Bound
<1>2. CASE Start(o)
  <2>1. run[o].base = 0 /\ run[o].k = 1
    BY <1>0, <1>2 DEF Start, StartNew, StartOn, BeforeLoop, StepsKnown
  <2>2. /\ run'[o].base = run[o].base /\ run'[o].k = run[o].k
        /\ pc'[o] \in {"create", "load"}
    <3>1. ASSUME NEW u \in Users, NEW n \in 0..MaxInputs, StartNew(o, u, n)
          PROVE  /\ run'[o].base = run[o].base /\ run'[o].k = run[o].k
                 /\ pc'[o] = "create"
      <4>1. run'[o] = [run[o] EXCEPT !.user = u, !.inputs = n] /\ pc'[o] = "create"
        BY <1>0, <3>1 DEF StartNew, Locally, Goto
      <4> QED BY <1>0, <4>1 DEF Locals
    <3>2. ASSUME NEW u \in Users, NEW n \in 0..MaxInputs, NEW s \in Sessions,
                 NEW m \in {"continue", "resume"}, StartOn(o, u, n, s, m)
          PROVE  /\ run'[o].base = run[o].base /\ run'[o].k = run[o].k
                 /\ pc'[o] = "load"
      <4>1. /\ run'[o] = [run[o] EXCEPT !.user = u, !.inputs = n, !.sid = s, !.mode = m]
            /\ pc'[o] = "load"
        BY <1>0, <3>2 DEF StartOn, Locally, Goto
      <4> QED BY <1>0, <4>1 DEF Locals
    <3> QED BY <1>2, <3>1, <3>2 DEF Start
  <2> QED BY <2>1, <2>2 DEF StepsKnown, Reached, StepNumber
<1>3. CASE Stops(o) \/ Crash
  <2>1. run' = run /\ (pc'[o] \in Ended \/ pc'[o] = pc[o])
    BY <1>0, <1>3 DEF Stops, Crash, Goto, Ended
  <2>2. CASE pc'[o] \in Ended
    BY <1>0, <2>1, <2>2 DEF StepsKnown, BeforeLoop, Awaits, Ended
  <2> QED BY <1>1, <2>1, <2>2
<1>4. CASE Proceed(o)
  <2>1. ASSUME NEW s \in Sessions, CreateSession(o, s) PROVE StepsKnown(o)'
    <3>1. run'[o] = [run[o] EXCEPT !.sid = s] /\ pc[o] = "create" /\ pc'[o] = "load"
      BY <1>0, <2>1 DEF CreateSession, Locally, Goto
    <3>2. run'[o].base = 0 /\ run'[o].k = 1
      BY <1>0, <3>1 DEF Locals, StepsKnown, BeforeLoop
    <3> QED BY <3>1, <3>2 DEF StepsKnown, Reached, StepNumber
  <2>2. CASE ReadLatest(o)
    <3> DEFINE rows == StepsOf(run[o].sid, run[o].user)
               l == LatestNumber(rows)
    <3>1. /\ run'[o].base = l /\ run'[o].k = 1 /\ run'[o].sid = run[o].sid
          /\ pc'[o] \in {"history", "count"}
      <4>1. run'[o] = [run[o] EXCEPT !.base = l] /\ run[o].k = 1
        BY <1>0, <2>2 DEF ReadLatest, Locally, StepsKnown, BeforeLoop
      <4>2. pc'[o] \in {"history", "count"}
        BY <1>0, <2>2 DEF ReadLatest, Goto, AfterSetup
      <4> QED BY <1>0, <4>1, <4>2 DEF Locals
    <3>2. /\ l \in Nat
          /\ rows = {} => l = 0
          /\ rows # {} => \E r \in rows : r.num = l
      BY LatestIsGreatest DEF TypeInv, Typed, TypeOK, StepsBounded, StepsOf
    <3>3. \A n \in 1..l : Taken(run[o].sid, n)
      <4> SUFFICES ASSUME NEW n \in 1..l PROVE Taken(run[o].sid, n)
        OBVIOUS
      <4>1. PICK r \in steps : r.sid = run[o].sid /\ r.num = l
        BY <3>2 DEF StepsOf
      <4>2. n = l \/ n \in 1..(r.num - 1)
        BY <3>2, <4>1
      <4> QED BY <4>1, <4>2 DEF Taken, StepsInv, StepNumbersContiguous
    <3>4. steps' = steps
      BY <2>2 DEF ReadLatest, UnchangedTables
    <3>5. Reached(o)' = l
      BY <3>1, <3>2 DEF Reached, StepNumber
    <3> QED BY <3>1, <3>3, <3>4, <3>5 DEF StepsKnown, BeforeLoop, Taken
  <2>3. CASE PersistStep(o)
    <3>1. /\ pc[o] = "persist" /\ pc'[o] = "reread" /\ run' = run
          /\ steps' = steps \cup {NewStepRow(o)} /\ Exists(run[o].sid)
      BY <1>0, <2>3 DEF PersistStep, Goto, ParentExists
    <3>2. StepNumber(o) \in Nat /\ Reached(o)' = StepNumber(o) /\ Reached(o) = StepNumber(o) - 1
      BY <3>1, StepNumberType DEF Reached, StepNumber, TypeInv, Typed
    <3>3. \A n \in 1..Reached(o) : Taken(run[o].sid, n)
      BY <1>0, <3>1 DEF StepsKnown, Bound, Awaits
    <3>4. \A n \in 1..Reached(o)' : Taken(run[o].sid, n)'
      <4> SUFFICES ASSUME NEW n \in 1..StepNumber(o)
                   PROVE  \E r \in steps' : r.sid = run[o].sid /\ r.num = n
        BY <3>1, <3>2 DEF Taken
      <4>1. CASE n = StepNumber(o)
        <5>1. NewStepRow(o).sid = run[o].sid /\ NewStepRow(o).num = StepNumber(o)
          BY DEF NewStepRow
        <5> QED BY <3>1, <4>1, <5>1
      <4>2. CASE n \in 1..Reached(o)
        BY <3>1, <3>3, <4>2 DEF Taken
      <4> QED BY <3>2, <4>1, <4>2
    <3> QED BY <1>0, <3>1, <3>4 DEF StepsKnown, BeforeLoop
  <2>4. CASE MarkStep(o)
    <3>1. /\ pc[o] = "mark" /\ run'[o].sid = run[o].sid /\ run'[o].base = run[o].base
      <4>1. pc[o] = "mark" /\ ~(\E s \in Sessions : CreateSession(o, s)) /\ ~ReadLatest(o)
        BY <2>4 DEF MarkStep, CreateSession, ReadLatest
      <4> QED BY <1>4, <4>1, LocalsKept
    <3>2. \/ pc'[o] = "history" /\ run'[o].k = run[o].k + 1
          \/ pc'[o] \in {"close", "failed"} /\ run'[o].k = run[o].k
      <4>1. CASE run[o].calls # 0 /\ run[o].k < MaxSteps
        <5>1. run'[o] = [run[o] EXCEPT !.k = @ + 1] /\ pc'[o] = "history"
          BY <1>0, <2>4, <4>1 DEF MarkStep, Locally, Goto
        <5> QED BY <1>0, <5>1 DEF Locals
      <4>2. CASE ~(run[o].calls # 0 /\ run[o].k < MaxSteps)
        <5>1. run'[o] = run[o] /\ pc'[o] \in {"close", "failed"}
          BY <1>0, <2>4, <4>2 DEF MarkStep, Goto
        <5> QED BY <5>1
      <4> QED BY <4>1, <4>2
    <3>3. CASE pc'[o] = "history" /\ run'[o].k = run[o].k + 1
      <4>1. Reached(o)' = Reached(o)
        BY <1>0, <3>1, <3>3 DEF Reached, StepNumber, Locals
      <4>2. run[o].sid \in Sessions /\ status[run[o].sid] # "unused"
        BY <3>1, BoundTyped DEF HandedOut, Bound, Awaits
      <4>3. Exists(run[o].sid)' => \A n \in 1..Reached(o)' : Taken(run[o].sid, n)'
        BY <1>0, <3>1, <4>1, <4>2, TakenStays, StatusMoves DEF StepsKnown, Bound, Awaits
      <4>4. run[o].k + 1 > 0
        BY <1>0 DEF Locals
      <4> QED BY <3>1, <3>3, <4>3, <4>4 DEF StepsKnown, BeforeLoop
    <3>4. CASE pc'[o] \in {"close", "failed"} /\ run'[o].k = run[o].k
      BY <1>0, <3>1, <3>4, KnownStays DEF BeforeLoop, Bound, Awaits
    <3> QED BY <3>2, <3>3, <3>4
  <2>5. CASE /\ ~(\E s \in Sessions : CreateSession(o, s))
             /\ ~ReadLatest(o) /\ ~PersistStep(o) /\ ~MarkStep(o)
    <3>1. /\ pc[o] \in Awaits \ {"create"} /\ run'[o].sid = run[o].sid
          /\ run'[o].base = run[o].base /\ run'[o].k = run[o].k
      BY <1>4, <2>5, LocalsKept
    <3>2. /\ BeforeLoop(o)' => BeforeLoop(o)
          /\ pc'[o] \in {"reread", "lastStep", "mark", "close"}
                => pc[o] \in {"reread", "lastStep", "mark", "close"}
      <4>1. CASE LoadSession(o) \/ Unpause(o) \/ EncodeFails(o) \/ CountMessages(o)
        BY <1>0, <4>1 DEF LoadSession, Unpause, EncodeFails, CountMessages, AfterSetup,
           BeforeLoop, Goto
      <4>2. CASE InsertMessage(o) \/ InsertFails(o)
        <5>1. run[o].phase \in Roles
          BY <1>0 DEF Locals
        <5>2. AfterPhase(o) \in {"history", "persist", "tools"}
          BY <5>1 DEF AfterPhase, Roles
        <5>3. pc'[o] \in {"count", "history", "persist", "tools", "raised"}
          BY <1>0, <4>2, <5>2 DEF InsertMessage, InsertFails, Goto
        <5> QED BY <5>3 DEF BeforeLoop
      <4>3. CASE ReadHistory(o) \/ LLMFails(o) \/ \E n \in 0..MaxCalls : LLMAnswers(o, n)
        BY <1>0, <4>3 DEF ReadHistory, LLMFails, LLMAnswers, BeforeLoop, Goto
      <4>4. CASE \E x \in Outcomes : ExecuteTool(o, x)
        BY <1>0, <4>4 DEF ExecuteTool, BeforeLoop, Goto
      <4>5. CASE PersistFails(o) \/ RereadStep(o) \/ ReadLastStep(o) \/ CloseSession(o)
        BY <1>0, <4>5 DEF PersistFails, RereadStep, ReadLastStep, CloseSession, BeforeLoop, Goto
      <4> QED BY <1>4, <2>5, <4>1, <4>2, <4>3, <4>4, <4>5 DEF Proceed
    <3> QED BY <1>0, <3>1, <3>2, KnownStays DEF Bound
  <2> QED BY <1>4, <2>1, <2>2, <2>3, <2>4, <2>5
<1>5. ASSUME NEW t \in Runs, t # o, Start(t) \/ Proceed(t) \/ Stops(t)
      PROVE  UNCHANGED <<pc[o], run[o]>>
  BY <1>5, OthersUntouched DEF TypeInv
<1>6. Administer \/ UNCHANGED vars \/ (\E w \in left : Land(w)) => UNCHANGED <<pc[o], run[o]>>
  BY DEF Administer, SetStatus, DeleteSession, vars, Land
<1> QED BY <1>1, <1>2, <1>3, <1>4, <1>5, <1>6, NextCases

LEMMA ContiguousStep ==
    ASSUME TypeInv, TypeInv', HandedOut, StepsInv, [Next]_vars
    PROVE  StepNumbersContiguous'
<1> USE DEF StepNumbersContiguous
<1>0. StepNumbersContiguous
  BY DEF StepsInv
<1>1. CASE UNCHANGED steps
  BY <1>0, <1>1 DEF Taken
<1>2. ASSUME NEW t \in Runs, Adds(t) PROVE StepNumbersContiguous'
  <2> DEFINE new == NewStepRow(t)
  <2>1. /\ steps' = steps \cup {new} /\ ~Taken(run[t].sid, StepNumber(t))
        /\ new.sid = run[t].sid /\ new.num = StepNumber(t)
    BY <1>2 DEF Adds, Duplicate, NewStepRow
  <2>2. run[t].base \in Nat /\ run[t].k \in Nat /\ StepNumber(t) \in Nat
    BY StepNumberType DEF TypeInv, Typed, TypeOK, Locals
  <2>3. \A n \in 1..(StepNumber(t) - 1) : Taken(run[t].sid, n)
    BY <1>2 DEF Adds, ParentExists, StepsInv, StepsKnown, Reached
  <2>4. StepNumber(t) > 0
    BY <2>2 DEF StepsInv, StepsKnown, StepNumber
  <2> HIDE DEF new
  <2>5. \A p, q \in steps' : p.sid = q.sid /\ p.num = q.num => p = q
    BY <1>0, <2>1 DEF Taken
  <2>6. \A r \in steps' : r.num > 0 /\ \A n \in 1..(r.num - 1) : Taken(r.sid, n)'
    BY <1>0, <2>1, <2>3, <2>4 DEF Taken
  <2> QED BY <2>5, <2>6
<1>3. ASSUME NEW t \in Runs, Marks(t) PROVE StepNumbersContiguous'
  <2>1. \A p, q \in steps' : p.sid = q.sid /\ p.num = q.num => p = q
    BY <1>0, <1>3, MarkKeepsNumbers
  <2>2. \A r \in steps' : r.num > 0 /\ \A n \in 1..(r.num - 1) : Taken(r.sid, n)'
    BY <1>0, <1>3, MarkKeepsNumbers DEF Taken
  <2> QED BY <2>1, <2>2
<1>4. ASSUME NEW s \in Sessions, DeleteSession(s) PROVE StepNumbersContiguous'
  BY <1>0, <1>4 DEF DeleteSession, Taken
<1> QED BY <1>1, <1>2, <1>3, <1>4, TablesMove

LEMMA StepsInvariant == Spec => []StepsInv
<1>1. Init => StepsInv
  BY DEF Init, StepsInv, StepNumbersContiguous, StepsKnown, Bound, Leaves, Awaits
<1>2. TypeInv /\ TypeInv' /\ HandedOut /\ StepsInv /\ [Next]_vars => StepsInv'
  BY ContiguousStep, StepsKnownStep DEF StepsInv
<1> QED BY <1>1, <1>2, TypeInvariant, HandedOutInvariant, PTL DEF Spec

(* StepNumbersContiguous for every instance: whatever calls interleave on  *)
(* a session and whenever they crash or are aborted, its step rows are     *)
(* numbered 1..n, each number once.                                        *)
THEOREM StepNumbersStayContiguous == Spec => []StepNumbersContiguous
<1>1. StepsInv => StepNumbersContiguous
  BY DEF StepsInv
<1> QED BY <1>1, StepsInvariant, PTL

-----------------------------------------------------------------------------
(* Tenant isolation.  A call looks at the owner of its session once; from  *)
(* then on it adds rows in the name of its user without looking again.     *)
(* That is enough because an id never gets a second owner and the foreign  *)
(* keys stop a call whose session is gone.                                 *)

OwnerKnown(t) ==
    Bound(t) /\ pc[t] # "load" /\ Exists(run[t].sid) =>
        owner[run[t].sid] = run[t].user

OwnerInv == RowsBelongToOwner /\ \A t \in Runs : OwnerKnown(t)

LEMMA OwnerMoves ==
    ASSUME TypeInv, [Next]_vars, NEW s \in Sessions, status[s] # "unused"
    PROVE  owner'[s] = owner[s]
<1>1. UNCHANGED owner \/ \E x \in Sessions : Makes(x)
  BY TablesMove
<1> QED BY <1>1 DEF Makes, TypeInv, Typed, TypeOK

LEMMA OwnerKnownStep ==
    ASSUME TypeInv, TypeInv', HandedOut, OwnerInv, [Next]_vars, NEW o \in Runs
    PROVE  OwnerKnown(o)'
<1>0. /\ pc \in [Runs -> {"idle"} \cup Awaits \cup Ended]
      /\ OwnerKnown(o)
  BY DEF TypeInv, Typed, TypeOK, OwnerInv
<1>1. ASSUME Bound(o), pc[o] # "load", run'[o].sid = run[o].sid, run'[o].user = run[o].user
      PROVE  OwnerKnown(o)'
  <2>1. run[o].sid \in Sessions /\ status[run[o].sid] # "unused"
    BY <1>1, BoundTyped DEF HandedOut
  <2>2. owner'[run[o].sid] = owner[run[o].sid]
    BY <2>1, OwnerMoves
  <2>3. Exists(run[o].sid)' => Exists(run[o].sid)
    BY <1>1, <2>1, StatusMoves DEF Exists
  <2> QED BY <1>0, <1>1, <2>2, <2>3 DEF OwnerKnown
<1>8. CASE Leaves(o)'
  <2>1. run'[o] = run[o] /\ Bound(o) /\ pc[o] # "load"
    BY <1>8, LeavesMoves, BoundTyped DEF Bound, Writes, Awaits
  <2> QED BY <1>1, <2>1
<1> SUFFICES ASSUME ~Leaves(o)', Bound(o)' <=> pc'[o] \in Awaits \ {"create"} PROVE OwnerKnown(o)'
  BY <1>8 DEF Bound
<1>2. CASE UNCHANGED <<pc[o], run[o]>>
  BY <1>1, <1>2 DEF OwnerKnown, Bound
<1>3. CASE Start(o)
  BY <1>0, <1>3 DEF Start, StartNew, StartOn, Goto, OwnerKnown
<1>4. CASE Stops(o) \/ Crash
  <2>1. run' = run /\ (pc'[o] \in Ended \/ pc'[o] = pc[o])
    BY <1>0, <1>4 DEF Stops, Crash, Goto, Ended
  <2>2. CASE pc'[o] \in Ended
    BY <2>2 DEF OwnerKnown, Awaits, Ended
  <2> QED BY <1>2, <2>1, <2>2
<1>5. CASE Proceed(o)
  <2>1. CASE \E s \in Sessions : CreateSession(o, s)
    BY <1>0, <2>1 DEF CreateSession, Goto, OwnerKnown
  <2>2. CASE LoadSession(o)
    <3>1. pc'[o] \in Awaits => VisibleSession(run[o].sid, run[o].user)
      BY <1>0, <2>2 DEF LoadSession, Goto, Awaits
    <3>2. run' = run /\ owner' = owner
      BY <2>2 DEF LoadSession, UnchangedTables
    <3> QED BY <3>1, <3>2 DEF OwnerKnown, VisibleSession
  <2>3. CASE ~(\E s \in Sessions : CreateSession(o, s)) /\ ~LoadSession(o)
    <3>1. pc[o] # "load"
      BY <1>5, <2>3 DEF Proceed, CreateSession, Unpause, ReadLatest, EncodeFails,
         CountMessages, InsertMessage, InsertFails, ReadHistory, LLMFails, LLMAnswers,
         ExecuteTool, PersistStep, PersistFails, RereadStep, ReadLastStep, MarkStep,
         CloseSession
    <3> QED BY <1>1, <1>5, <2>3, <3>1, LocalsKept DEF Bound
  <2> QED BY <2>1, <2>2, <2>3
<1>6. ASSUME NEW t \in Runs, t # o, Start(t) \/ Proceed(t) \/ Stops(t)
      PROVE  UNCHANGED <<pc[o], run[o]>>
  BY <1>6, OthersUntouched DEF TypeInv
<1>7. Administer \/ UNCHANGED vars \/ (\E w \in left : Land(w)) => UNCHANGED <<pc[o], run[o]>>
  BY DEF Administer, SetStatus, DeleteSession, vars, Land
<1> QED BY <1>2, <1>3, <1>4, <1>5, <1>6, <1>7, NextCases

LEMMA OwnerInvariant == Spec => []OwnerInv
<1>1. Init => OwnerInv
  BY DEF Init, OwnerInv, RowsBelongToOwner, OwnerKnown, Bound, Leaves, Awaits
<1>2. TypeInv /\ TypeInv' /\ HandedOut /\ HandedOut' /\ OwnerInv /\ [Next]_vars => OwnerInv'
  <2> SUFFICES ASSUME TypeInv, TypeInv', HandedOut, HandedOut', OwnerInv, [Next]_vars
               PROVE  RowsBelongToOwner'
    BY OwnerKnownStep DEF OwnerInv
  <2>0. RowsBelongToOwner
    BY DEF OwnerInv
  <2>1. ASSUME NEW s \in Sessions, NEW i \in DOMAIN messages'[s]
        PROVE  messages'[s][i].user = owner'[s]
    <3>1. Exists(s)'
      BY <2>1 DEF HandedOut, NoOrphanRows
    <3>2. ASSUME i \in DOMAIN messages[s], messages'[s][i] = messages[s][i]
          PROVE  messages'[s][i].user = owner'[s]
      <4>1. status[s] # "unused"
        BY <3>2 DEF HandedOut, NoOrphanRows, Exists
      <4> QED BY <2>0, <3>2, <4>1, OwnerMoves DEF RowsBelongToOwner
    <3>3. CASE UNCHANGED messages
      BY <2>1, <3>2, <3>3
    <3>4. ASSUME NEW t \in Runs, Says(t) PROVE messages'[s][i].user = owner'[s]
      <4>0. run[t].sid \in Sessions /\ run[t].user \in Users
        BY <3>4, BoundTyped DEF Says
      <4>1. /\ run[t].sid \in Sessions /\ Exists(run[t].sid) /\ owner' = owner
            /\ owner[run[t].sid] = run[t].user
            /\ messages' = [messages EXCEPT ![run[t].sid] = Append(@, NewMessage(t))]
        BY <3>4, <4>0 DEF Says, ParentExists, OwnerInv, OwnerKnown
      <4>2. NewMessage(t).user = run[t].user
        BY DEF NewMessage
      <4>3. messages[s] \in Seq(Message) /\ NewMessage(t) \in Message
        BY <4>0, NewMessageTyped DEF TypeInv, Typed, TypeOK
      <4> HIDE DEF NewMessage
      <4>4. CASE s = run[t].sid
        <5>1. messages'[s] = Append(messages[s], NewMessage(t))
          BY <4>1, <4>4 DEF TypeInv, Typed, TypeOK
        <5>2. \/ i \in DOMAIN messages[s] /\ messages'[s][i] = messages[s][i]
              \/ messages'[s][i] = NewMessage(t)
          BY <2>1, <4>3, <5>1
        <5> QED BY <3>2, <4>1, <4>2, <4>4, <5>2
      <4>5. CASE s # run[t].sid
        BY <2>1, <3>2, <4>1, <4>5 DEF TypeInv, Typed, TypeOK
      <4> QED BY <4>4, <4>5
    <3>5. ASSUME NEW x \in Sessions, DeleteSession(x) PROVE messages'[s][i].user = owner'[s]
      BY <2>1, <3>1, <3>2, <3>5 DEF DeleteSession, Exists, TypeInv, Typed, TypeOK
    <3> QED BY <3>3, <3>4, <3>5, TablesMove
  <2>2. ASSUME NEW r \in steps' PROVE r.user = owner'[r.sid]
    <3>1. ASSUME NEW q \in steps, r.sid = q.sid, r.user = q.user PROVE r.user = owner'[r.sid]
      <4>1. q.sid \in Sessions /\ status[q.sid] # "unused"
        BY DEF HandedOut, NoOrphanRows, Exists, TypeInv, Typed, TypeOK, StepRow
      <4> QED BY <2>0, <3>1, <4>1, OwnerMoves DEF RowsBelongToOwner
    <3>2. ASSUME NEW t \in Runs, Adds(t) PROVE r.user = owner'[r.sid]
      <4>1. /\ steps' = steps \cup {NewStepRow(t)} /\ owner' = owner
            /\ owner[run[t].sid] = run[t].user
        BY <3>2 DEF Adds, ParentExists, OwnerInv, OwnerKnown
      <4>2. NewStepRow(t).user = run[t].user /\ NewStepRow(t).sid = run[t].sid
        BY DEF NewStepRow
      <4> QED BY <2>2, <3>1, <4>1, <4>2
    <3>3. ASSUME NEW t \in Runs, Marks(t) PROVE r.user = owner'[r.sid]
      BY <2>2, <3>1, <3>3, MarkKeepsNumbers
    <3>4. CASE UNCHANGED steps \/ \E x \in Sessions : DeleteSession(x)
      BY <2>2, <3>1, <3>4 DEF DeleteSession
    <3> QED BY <3>2, <3>3, <3>4, TablesMove
  <2> QED BY <2>1, <2>2 DEF RowsBelongToOwner
<1> QED BY <1>1, <1>2, TypeInvariant, HandedOutInvariant, PTL DEF Spec

(* RowsBelongToOwner for every instance: no interleaving of calls, crashes *)
(* and deletions lets a row of one user end up in a session of another.    *)
THEOREM TenantsStayApart == Spec => []RowsBelongToOwner
<1>1. OwnerInv => RowsBelongToOwner
  BY DEF OwnerInv
<1> QED BY <1>1, OwnerInvariant, PTL

-----------------------------------------------------------------------------
(* The order of a call's messages.  A call that is about to insert has     *)
(* read a count that no ordinal of its own is past, because no ordinal at  *)
(* all was past it when it was read and only the call itself adds to its   *)
(* own; messages of others may get the same ordinals.                      *)

InOwnOrder ==
    \A s \in Sessions : \A i, j \in DOMAIN messages[s] :
        i < j /\ messages[s][i].by = messages[s][j].by
            => messages[s][i].ordinal < messages[s][j].ordinal

OrdinalsBounded ==
    \A s \in Sessions : \A i \in DOMAIN messages[s] : messages[s][i].ordinal <= Len(messages[s])

CountKnown(t) ==
    pc[t] = "insert" /\ Exists(run[t].sid) =>
        /\ run[t].count <= Len(messages[run[t].sid])
        /\ \A i \in DOMAIN messages[run[t].sid] :
              messages[run[t].sid][i].by = t => messages[run[t].sid][i].ordinal <= run[t].count

OrderInv == InOwnOrder /\ OrdinalsBounded /\ \A t \in Runs : CountKnown(t)

(* What a new message does to the rows of its session. *)
LEMMA SaysAppends ==
    ASSUME TypeInv, NEW t \in Runs, Says(t)
    PROVE  LET s == run[t].sid  m == messages[s]  n == messages'[s] IN
           /\ s \in Sessions /\ Exists(s)
           /\ Len(m) \in Nat /\ Len(n) = Len(m) + 1
           /\ DOMAIN m = 1..Len(m) /\ DOMAIN n = 1..(Len(m) + 1)
           /\ \A i \in 1..Len(m) : n[i] = m[i]
           /\ n[Len(m) + 1] = NewMessage(t)
           /\ \A x \in Sessions \ {s} : messages'[x] = messages[x]
<1> DEFINE s == run[t].sid
<1>1. /\ s \in Sessions /\ Exists(s) /\ run[t].user \in Users
      /\ messages' = [messages EXCEPT ![s] = Append(@, NewMessage(t))]
  BY BoundTyped DEF Says, ParentExists
<1>2. messages \in [Sessions -> Seq(Message)] /\ NewMessage(t) \in Message
  BY <1>1, NewMessageTyped DEF TypeInv, Typed, TypeOK
<1>3. messages'[s] = Append(messages[s], NewMessage(t)) /\ messages[s] \in Seq(Message)
  BY <1>1, <1>2
<1>4. \A x \in Sessions \ {s} : messages'[x] = messages[x]
  BY <1>1, <1>2
<1> HIDE DEF s
<1>5. /\ Len(messages[s]) \in Nat /\ Len(messages'[s]) = Len(messages[s]) + 1
      /\ DOMAIN messages[s] = 1..Len(messages[s])
      /\ DOMAIN messages'[s] = 1..(Len(messages[s]) + 1)
      /\ \A i \in 1..Len(messages[s]) : messages'[s][i] = messages[s][i]
      /\ messages'[s][Len(messages[s]) + 1] = NewMessage(t)
  BY <1>2, <1>3
<1> QED BY <1>1, <1>4, <1>5 DEF s

LEMMA InsertAppends ==
    ASSUME TypeInv, NEW t \in Runs, InsertMessage(t)
    PROVE  LET s == run[t].sid  m == messages[s]  n == messages'[s] IN
           /\ s \in Sessions /\ Exists(s) /\ pc[t] = "insert"
           /\ Len(m) \in Nat /\ Len(n) = Len(m) + 1
           /\ DOMAIN m = 1..Len(m) /\ DOMAIN n = 1..(Len(m) + 1)
           /\ \A i \in 1..Len(m) : n[i] = m[i]
           /\ n[Len(m) + 1] = NewMessage(t)
           /\ \A x \in Sessions \ {s} : messages'[x] = messages[x]
<1>1. Says(t) /\ pc[t] = "insert"
  BY DEF InsertMessage, Says, Bound, Awaits
<1> QED BY <1>1, SaysAppends

(* Rows stay where they are as long as their session exists. *)
LEMMA MessagesStay ==
    ASSUME TypeInv, [Next]_vars, NEW s \in Sessions, Exists(s)'
    PROVE  /\ Len(messages[s]) <= Len(messages'[s])
           /\ \A i \in DOMAIN messages[s] : i \in DOMAIN messages'[s] /\ messages'[s][i] = messages[s][i]
<1>0. messages[s] \in Seq(Message)
  BY DEF TypeInv, Typed, TypeOK
<1>1. CASE messages'[s] = messages[s]
  BY <1>0, <1>1
<1>2. ASSUME NEW t \in Runs, Says(t), s = run[t].sid
      PROVE  /\ Len(messages[s]) <= Len(messages'[s])
             /\ \A i \in DOMAIN messages[s] : i \in DOMAIN messages'[s] /\ messages'[s][i] = messages[s][i]
  <2>1. /\ Len(messages[s]) \in Nat /\ Len(messages'[s]) = Len(messages[s]) + 1
        /\ DOMAIN messages[s] = 1..Len(messages[s])
        /\ DOMAIN messages'[s] = 1..(Len(messages[s]) + 1)
        /\ \A i \in 1..Len(messages[s]) : messages'[s][i] = messages[s][i]
    BY <1>2, SaysAppends
  <2> QED BY <2>1
<1>3. ASSUME NEW t \in Runs, Says(t), s # run[t].sid PROVE messages'[s] = messages[s]
  BY <1>3, SaysAppends
<1>4. ASSUME NEW x \in Sessions, DeleteSession(x) PROVE messages'[s] = messages[s]
  BY <1>4 DEF DeleteSession, Exists, TypeInv, Typed, TypeOK
<1> QED BY <1>1, <1>2, <1>3, <1>4, TablesMove

LEMMA OrderStep ==
    ASSUME TypeInv, OrderInv, ~disturbed, [Next]_vars
    PROVE  InOwnOrder' /\ OrdinalsBounded'
<1>0. InOwnOrder /\ OrdinalsBounded
  BY DEF OrderInv
<1>1. CASE UNCHANGED messages
  BY <1>0, <1>1 DEF InOwnOrder, OrdinalsBounded
<1>2. ASSUME NEW t \in Runs, InsertMessage(t) PROVE InOwnOrder' /\ OrdinalsBounded'
  <2> DEFINE s == run[t].sid
             l == Len(messages[s])
  <2>1. /\ s \in Sessions /\ Exists(s) /\ pc[t] = "insert"
        /\ l \in Nat /\ Len(messages'[s]) = l + 1
        /\ DOMAIN messages[s] = 1..l /\ DOMAIN messages'[s] = 1..(l + 1)
        /\ \A i \in 1..l : messages'[s][i] = messages[s][i]
        /\ messages'[s][l + 1] = NewMessage(t)
        /\ \A x \in Sessions \ {s} : messages'[x] = messages[x]
    BY <1>2, InsertAppends
  <2>2. NewMessage(t).ordinal = run[t].count + 1 /\ NewMessage(t).by = t
    BY DEF NewMessage, NewOrdinal
  <2>3. /\ run[t].count \in Nat /\ run[t].count <= l
        /\ \A i \in 1..l : messages[s][i].by = t => messages[s][i].ordinal <= run[t].count
    BY <2>1 DEF OrderInv, CountKnown, TypeInv, Typed, TypeOK, Locals
  <2>4. \A i \in 1..l : messages[s][i].ordinal \in Nat /\ messages[s][i].ordinal <= l
    <3>1. messages[s] \in Seq(Message)
      BY <2>1 DEF TypeInv, Typed, TypeOK
    <3>2. \A i \in 1..l : messages[s][i] \in Message
      BY <2>1, <3>1
    <3>3. \A i \in 1..l : messages[s][i].ordinal \in Nat
      BY <3>2 DEF Message
    <3> QED BY <1>0, <2>1, <3>3 DEF OrdinalsBounded
  <2> HIDE DEF s, l
  <2>5. \A i, j \in 1..(l + 1) : i < j /\ messages'[s][i].by = messages'[s][j].by
            => messages'[s][i].ordinal < messages'[s][j].ordinal
    <3> SUFFICES ASSUME NEW i \in 1..(l + 1), NEW j \in 1..(l + 1), i < j,
                        messages'[s][i].by = messages'[s][j].by
                 PROVE  messages'[s][i].ordinal < messages'[s][j].ordinal
      OBVIOUS
    <3>1. CASE j = l + 1
      <4>1. i \in 1..l
        BY <2>1, <3>1
      <4>2. messages'[s][i] = messages[s][i] /\ messages'[s][j] = NewMessage(t)
        BY <2>1, <3>1, <4>1
      <4>3. messages[s][i].ordinal <= run[t].count /\ messages[s][i].ordinal \in Nat
        BY <2>2, <2>3, <2>4, <4>1, <4>2
      <4>4. messages'[s][j].ordinal = run[t].count + 1
        BY <2>2, <4>2
      <4> HIDE DEF NewMessage
      <4> QED BY <2>3, <4>2, <4>3, <4>4
    <3>2. CASE j # l + 1
      <4>1. i \in 1..l /\ j \in 1..l
        BY <2>1, <3>2
      <4> QED BY <1>0, <2>1, <4>1 DEF InOwnOrder
    <3> QED BY <3>1, <3>2
  <2>6. \A i \in 1..(l + 1) : messages'[s][i].ordinal <= l + 1
    <3> SUFFICES ASSUME NEW i \in 1..(l + 1) PROVE messages'[s][i].ordinal <= l + 1
      OBVIOUS
    <3>1. CASE i = l + 1
      BY <2>1, <2>2, <2>3, <3>1
    <3>2. CASE i \in 1..l
      BY <2>1, <2>4, <3>2
    <3> QED BY <2>1, <3>1, <3>2
  <2>7. InOwnOrder'
    BY <1>0, <2>1, <2>5 DEF InOwnOrder
  <2>8. OrdinalsBounded'
    BY <1>0, <2>1, <2>6 DEF OrdinalsBounded
  <2> QED BY <2>7, <2>8
<1>3. ASSUME NEW x \in Sessions, DeleteSession(x) PROVE InOwnOrder' /\ OrdinalsBounded'
  <2>1. messages' = [messages EXCEPT ![x] = <<>>] /\ messages \in [Sessions -> Seq(Message)]
    BY <1>3 DEF DeleteSession, TypeInv, Typed, TypeOK
  <2>2. \A s \in Sessions : messages'[s] = messages[s] \/ messages'[s] = <<>>
    BY <2>1
  <2> QED BY <1>0, <2>2 DEF InOwnOrder, OrdinalsBounded
<1> QED BY <1>1, <1>2, <1>3, CalmTables

LEMMA CountKnownStep ==
    ASSUME TypeInv, TypeInv', HandedOut, OrderInv, ~disturbed, [Next]_vars, NEW o \in Runs
    PROVE  CountKnown(o)'
<1> SUFFICES ASSUME pc'[o] = "insert", Exists(run[o].sid)'
             PROVE  /\ run'[o].count <= Len(messages'[run'[o].sid])
                    /\ \A i \in DOMAIN messages'[run'[o].sid] :
                          messages'[run'[o].sid][i].by = o
                            => messages'[run'[o].sid][i].ordinal <= run'[o].count
  BY DEF CountKnown
<1> DEFINE s == run[o].sid
<1>0. /\ pc \in [Runs -> {"idle"} \cup Awaits \cup Ended]
      /\ run \in [Runs -> Locals] /\ run[o] \in Locals
  BY DEF TypeInv, Typed, TypeOK
<1>1. CASE pc[o] = "insert" /\ run'[o] = run[o] /\ ~InsertMessage(o)
  <2>1. s \in Sessions /\ Exists(s)
    BY <1>1, StatusMoves DEF HandedOut, Bound, TypeInv, Typed, TypeOK, Awaits
  <2>2. /\ run[o].count \in Nat /\ run[o].count <= Len(messages[s])
        /\ \A i \in DOMAIN messages[s] : messages[s][i].by = o => messages[s][i].ordinal <= run[o].count
    BY <1>0, <1>1, <2>1 DEF OrderInv, CountKnown, Locals
  <2>3. messages[s] \in Seq(Message) /\ messages'[s] \in Seq(Message)
    BY <2>1 DEF TypeInv, Typed, TypeOK
  <2>4. Len(messages[s]) <= Len(messages'[s])
    BY <1>1, <2>1, MessagesStay
  <2>5. ASSUME NEW i \in DOMAIN messages'[s], messages'[s][i].by = o
        PROVE  messages'[s][i].ordinal <= run[o].count
    <3>1. CASE messages'[s] = messages[s]
      BY <2>2, <2>5, <3>1
    <3>2. ASSUME NEW t \in Runs, InsertMessage(t), s = run[t].sid
          PROVE  messages'[s][i].ordinal <= run[o].count
      <4>1. NewMessage(t).by = t /\ t # o
        BY <1>1, <3>2 DEF NewMessage
      <4>2. \/ i \in DOMAIN messages[s] /\ messages'[s][i] = messages[s][i]
            \/ messages'[s][i] = NewMessage(t)
        <5>1. /\ Len(messages[s]) \in Nat
              /\ DOMAIN messages[s] = 1..Len(messages[s])
              /\ DOMAIN messages'[s] = 1..(Len(messages[s]) + 1)
              /\ \A j \in 1..Len(messages[s]) : messages'[s][j] = messages[s][j]
              /\ messages'[s][Len(messages[s]) + 1] = NewMessage(t)
          BY <3>2, InsertAppends
        <5>2. i \in 1..Len(messages[s]) \/ i = Len(messages[s]) + 1
          BY <2>5, <5>1
        <5> QED BY <5>1, <5>2
      <4> QED BY <2>2, <2>5, <4>1, <4>2
    <3>3. ASSUME NEW t \in Runs, InsertMessage(t), s # run[t].sid PROVE messages'[s] = messages[s]
      BY <2>1, <3>3, InsertAppends
    <3>4. ASSUME NEW x \in Sessions, DeleteSession(x) PROVE messages'[s] = messages[s]
      BY <1>1, <2>1, <3>4 DEF DeleteSession, Exists, TypeInv, Typed, TypeOK
    <3> QED BY <3>1, <3>2, <3>3, <3>4, CalmTables
  <2>6. Len(messages[s]) \in Nat /\ Len(messages'[s]) \in Nat
    BY <2>3
  <2>7. run[o].count <= Len(messages'[s])
    BY <2>2, <2>4, <2>6
  <2> QED BY <1>1, <2>5, <2>7
<1>2. CASE CountMessages(o)
  <2>1. /\ run'[o] = [run[o] EXCEPT !.count = Len(messages[s])]
        /\ messages' = messages /\ s \in Sessions
    BY <1>0, <1>2 DEF CountMessages, Locally, CountedRows, UnchangedTables, TypeInv, Typed, TypeOK, Awaits
  <2>2. run'[o].count = Len(messages[s]) /\ run'[o].sid = s
    BY <1>0, <2>1 DEF Locals
  <2>3. Len(messages[s]) \in Nat
    BY <2>1 DEF TypeInv, Typed, TypeOK
  <2>4. \A i \in DOMAIN messages[s] : messages[s][i].ordinal <= Len(messages[s])
    BY <2>1 DEF OrderInv, OrdinalsBounded
  <2> QED BY <2>1, <2>2, <2>3, <2>4
<1>3. CASE Start(o) \/ Stops(o) \/ Crash
  BY <1>0, <1>1, <1>3 DEF Start, StartNew, StartOn, Stops, Crash, Goto, Live, Awaits, InsertMessage
<1>4. CASE Proceed(o) /\ ~CountMessages(o)
  <2>1. CASE LoadSession(o) \/ Unpause(o) \/ ReadLatest(o) \/ EncodeFails(o)
    BY <1>0, <2>1 DEF LoadSession, Unpause, ReadLatest, EncodeFails, AfterSetup, Goto
  <2>2. CASE InsertMessage(o) \/ InsertFails(o)
    BY <1>0, <2>2 DEF InsertMessage, InsertFails, AfterPhase, Goto, Locals, Roles
  <2>3. CASE ReadHistory(o) \/ LLMFails(o) \/ \E n \in 0..MaxCalls : LLMAnswers(o, n)
    BY <1>0, <2>3 DEF ReadHistory, LLMFails, LLMAnswers, Goto
  <2>4. CASE \E x \in Outcomes : ExecuteTool(o, x)
    BY <1>0, <2>4 DEF ExecuteTool, Goto
  <2>5. CASE PersistStep(o) \/ PersistFails(o) \/ RereadStep(o) \/ ReadLastStep(o)
             \/ MarkStep(o) \/ CloseSession(o)
    BY <1>0, <2>5 DEF PersistStep, PersistFails, RereadStep, ReadLastStep, MarkStep,
       CloseSession, Goto
  <2>6. CASE \E x \in Sessions : CreateSession(o, x)
    BY <1>0, <2>6 DEF CreateSession, Goto
  <2> QED BY <1>4, <2>1, <2>2, <2>3, <2>4, <2>5, <2>6 DEF Proceed
<1>5. ASSUME NEW t \in Runs, t # o, Start(t) \/ Proceed(t) \/ Stops(t), ~InsertMessage(o)
      PROVE  pc[o] = "insert" /\ run'[o] = run[o]
  BY <1>5, OthersUntouched DEF TypeInv
<1>6. CASE Administer \/ UNCHANGED vars \/ \E w \in left : Land(w)
  <2>1. pc[o] = "insert" /\ run'[o] = run[o]
    BY <1>6 DEF Administer, SetStatus, DeleteSession, vars, Land
  <2>2. pc'[o] = pc[o]
    BY <1>6 DEF Administer, SetStatus, DeleteSession, vars, Land
  <2>3. InsertMessage(o) => FALSE
    BY <1>0, <1>6, <2>1, <2>2 DEF InsertMessage, Goto, AfterPhase, Locals, Roles
  <2> QED BY <1>1, <2>1, <2>3
<1>7. InsertMessage(o) => Proceed(o) /\ ~CountMessages(o)
  BY DEF Proceed, InsertMessage, CountMessages
<1> QED BY <1>1, <1>2, <1>3, <1>4, <1>5, <1>6, <1>7, NextCases

LEMMA OrderInvariant == Spec => [](disturbed \/ OrderInv)
<1>1. Init => OrderInv
  BY DEF Init, OrderInv, InOwnOrder, OrdinalsBounded, CountKnown
<1>2. TypeInv /\ TypeInv' /\ HandedOut /\ (disturbed \/ OrderInv) /\ [Next]_vars
        => disturbed' \/ OrderInv'
  BY OrderStep, CountKnownStep, DisturbedStays DEF OrderInv
<1> QED BY <1>1, <1>2, TypeInvariant, HandedOutInvariant, PTL DEF Spec

(* OwnMessagesInOrder for every instance: a call's messages come back from *)
(* HistoryManager.get in the order it added them, though it counts rows in *)
(* one statement and inserts in a later one, as long as no connection was  *)
(* left in a transaction.                                                  *)
THEOREM MessagesStayInOrder == Spec => []OwnMessagesInOrder
<1>1. disturbed \/ OrderInv => OwnMessagesInOrder
  BY DEF OrderInv, InOwnOrder, OwnMessagesInOrder
<1> QED BY <1>1, OrderInvariant, PTL

-----------------------------------------------------------------------------
(* Effects have their requests.  A call that is running tools has stored   *)
(* the message that asks for them, and has not run them all yet; rows go   *)
(* only with their session, and that does not come back.                   *)

RequestKnown(t) ==
    /\ BeforeLoop(t) \/ (pc[t] \in {"count", "insert"} /\ run[t].phase = "assistant")
          => run[t].results = <<>>
    /\ pc[t] = "tools" =>
          /\ Len(run[t].results) < run[t].calls
          /\ Exists(run[t].sid) => Requested(run[t].sid, t, StepNumber(t), run[t].calls)

EffectsInv == EffectsAreRequested /\ \A t \in Runs : RequestKnown(t)

LEMMA RequestedStays ==
    ASSUME TypeInv, [Next]_vars, NEW s \in Sessions, Exists(s)', NEW t, NEW n, NEW c,
           Requested(s, t, n, c)
    PROVE  Requested(s, t, n, c)'
BY MessagesStay DEF Requested

LEMMA EffectsStep ==
    ASSUME TypeInv, TypeInv', HandedOut, EffectsInv, [Next]_vars
    PROVE  EffectsAreRequested'
<1> SUFFICES ASSUME NEW e \in executed', Exists(e.sid)'
             PROVE  Requested(e.sid, e.by, e.num, e.call)'
  BY DEF EffectsAreRequested
<1>1. CASE e \in executed
  <2>1. e.sid \in Sessions /\ status[e.sid] # "unused"
    BY <1>1 DEF HandedOut, TypeInv, Typed, TypeOK
  <2>2. Exists(e.sid)
    BY <2>1, StatusMoves
  <2>3. Requested(e.sid, e.by, e.num, e.call)
    BY <1>1, <2>2 DEF EffectsInv, EffectsAreRequested
  <2> QED BY <2>1, <2>3, RequestedStays
<1>2. ASSUME NEW t \in Runs, NEW o \in Outcomes, ExecuteTool(t, o), e \notin executed
      PROVE  Requested(e.sid, e.by, e.num, e.call)'
  <2> DEFINE done == Len(run[t].results) + 1
  <2>1. /\ e.sid = run[t].sid /\ e.num = StepNumber(t) /\ e.call = done /\ e.by = t
        /\ pc[t] = "tools" /\ UNCHANGED <<status, messages>>
    BY <1>2 DEF ExecuteTool, UnchangedTables
  <2>2. run[t].results \in Seq(Outcomes) /\ run[t].calls \in Nat
    BY DEF TypeInv, Typed, TypeOK, Locals
  <2>3. done <= run[t].calls
    BY <2>1, <2>2 DEF EffectsInv, RequestKnown
  <2>4. Exists(e.sid)
    BY <2>1 DEF Exists
  <2>5. Requested(e.sid, t, StepNumber(t), run[t].calls)
    BY <2>1, <2>4 DEF EffectsInv, RequestKnown
  <2>6. e.sid \in Sessions /\ messages[e.sid] \in Seq(Message)
    BY <2>1 DEF TypeInv, Typed, TypeOK, Awaits
  <2>7. \A i \in DOMAIN messages[e.sid] : messages[e.sid][i].calls \in Nat
    <3>1. \A i \in DOMAIN messages[e.sid] : messages[e.sid][i] \in Message
      BY <2>6
    <3> QED BY <3>1 DEF Message
  <2>8. done \in Nat
    BY <2>2
  <2> HIDE DEF done
  <2>9. Requested(e.sid, e.by, e.num, e.call)
    BY <2>1, <2>2, <2>3, <2>5, <2>7, <2>8 DEF Requested
  <2> QED BY <2>1, <2>9 DEF Requested
<1> QED BY <1>1, <1>2, TablesMove

LEMMA RequestKnownStep ==
    ASSUME TypeInv, TypeInv', HandedOut, EffectsInv, [Next]_vars, NEW o \in Runs
    PROVE  RequestKnown(o)'
<1>0. /\ pc \in [Runs -> {"idle"} \cup Awaits \cup Ended]
      /\ run \in [Runs -> Locals] /\ run[o] \in Locals /\ run'[o] \in Locals
      /\ RequestKnown(o)
  BY DEF TypeInv, Typed, TypeOK, EffectsInv
<1> DEFINE Same == /\ run'[o].sid = run[o].sid /\ run'[o].base = run[o].base
                   /\ run'[o].k = run[o].k /\ run'[o].calls = run[o].calls
<1>1. ASSUME pc[o] = "tools", Same, Exists(run[o].sid)'
      PROVE  Requested(run[o].sid, o, StepNumber(o), run[o].calls)'
  <2>1. PICK s \in Sessions : s = run[o].sid
    BY <1>1 DEF TypeInv, Typed, TypeOK, Awaits
  <2>2. Exists(s)' /\ status[s] # "unused"
    BY <1>1, <2>1 DEF Exists, HandedOut, Bound, Awaits
  <2>3. Exists(s)
    BY <2>2, StatusMoves
  <2>4. PICK n : n = StepNumber(o)
    OBVIOUS
  <2>5. PICK c : c = run[o].calls
    OBVIOUS
  <2>6. Requested(s, o, n, c)
    BY <1>0, <1>1, <2>1, <2>3, <2>4, <2>5 DEF RequestKnown, Exists
  <2>7. Requested(s, o, n, c)'
    BY <2>2, <2>6, RequestedStays
  <2>8. StepNumber(o)' = n
    BY <1>1, <2>4 DEF StepNumber
  <2> QED BY <1>1, <2>1, <2>5, <2>7, <2>8 DEF Requested
<1>2. CASE UNCHANGED <<pc[o], run[o]>>
  BY <1>0, <1>1, <1>2 DEF RequestKnown, BeforeLoop
<1>3. CASE Start(o)
  <2>1. pc'[o] \in {"create", "load"} /\ pc[o] = "idle"
    BY <1>0, <1>3 DEF Start, StartNew, StartOn, Goto
  <2>2. run[o].results = <<>>
    BY <1>0, <2>1 DEF RequestKnown, BeforeLoop
  <2>3. ASSUME NEW u \in Users, NEW n \in 0..MaxInputs, StartNew(o, u, n)
        PROVE  run'[o].results = run[o].results
    <3>1. run'[o] = [run[o] EXCEPT !.user = u, !.inputs = n]
      BY <1>0, <2>3 DEF StartNew, Locally
    <3> QED BY <1>0, <3>1 DEF Locals
  <2>4. ASSUME NEW u \in Users, NEW n \in 0..MaxInputs, NEW s \in Sessions,
               NEW m \in {"continue", "resume"}, StartOn(o, u, n, s, m)
        PROVE  run'[o].results = run[o].results
    <3>1. run'[o] = [run[o] EXCEPT !.user = u, !.inputs = n, !.sid = s, !.mode = m]
      BY <1>0, <2>4 DEF StartOn, Locally
    <3> QED BY <1>0, <3>1 DEF Locals
  <2> QED BY <1>3, <2>1, <2>2, <2>3, <2>4 DEF Start, RequestKnown
<1>4. CASE Stops(o) \/ Crash
  <2>1. run' = run /\ (pc'[o] \in Ended \/ pc'[o] = pc[o])
    BY <1>0, <1>4 DEF Stops, Crash, Goto, Ended
  <2>2. CASE pc'[o] \in Ended
    BY <2>2 DEF RequestKnown, BeforeLoop, Ended
  <2> QED BY <1>2, <2>1, <2>2
<1>5. CASE InsertMessage(o)
  <2> DEFINE s == run[o].sid
             l == Len(messages[s])
  <2>1. PICK v : run'[o] = [run[o] EXCEPT !.count = 0, !.next = v]
    BY <1>0, <1>5 DEF InsertMessage, Locally
  <2>2. Same /\ run'[o].results = run[o].results /\ run'[o].phase = run[o].phase
    BY <1>0, <2>1 DEF Locals
  <2>3. \/ pc'[o] \in {"count", "history", "persist"}
        \/ pc'[o] = "tools" /\ run[o].phase = "assistant" /\ run[o].calls # 0
    BY <1>0, <1>5 DEF InsertMessage, Goto, AfterPhase, Locals, Roles
  <2>4. pc[o] = "insert"
    BY <1>5 DEF InsertMessage
  <2>5. CASE pc'[o] \in {"count", "history", "persist"}
    BY <1>0, <2>2, <2>4, <2>5 DEF RequestKnown, BeforeLoop
  <2>6. CASE pc'[o] = "tools" /\ run[o].phase = "assistant" /\ run[o].calls # 0
    <3>1. run'[o].results = <<>>
      BY <1>0, <2>2, <2>4, <2>6 DEF RequestKnown
    <3>2. Len(run'[o].results) < run'[o].calls
      BY <1>0, <2>2, <2>6, <3>1 DEF Locals
    <3>3. l + 1 \in DOMAIN messages'[s] /\ messages'[s][l + 1] = NewMessage(o)
      BY <1>5, InsertAppends
    <3>4. /\ NewMessage(o).role = "assistant" /\ NewMessage(o).by = o
          /\ NewMessage(o).step = StepNumber(o) /\ NewMessage(o).calls = run[o].calls
      BY <2>6 DEF NewMessage
    <3>5. StepNumber(o)' = StepNumber(o)
      BY <2>2 DEF StepNumber
    <3>6. run[o].calls \in Nat
      BY <1>0 DEF Locals
    <3> HIDE DEF s, l, NewMessage
    <3>7. \E i \in DOMAIN messages'[s] :
            /\ messages'[s][i].role = "assistant" /\ messages'[s][i].by = o
            /\ messages'[s][i].step = StepNumber(o) /\ run[o].calls <= messages'[s][i].calls
      BY <3>3, <3>4, <3>6
    <3>8. Requested(run[o].sid, o, StepNumber(o), run[o].calls)'
      BY <2>2, <3>5, <3>7 DEF Requested, s
    <3> QED BY <2>6, <3>1, <3>2, <3>8 DEF RequestKnown, BeforeLoop
  <2> QED BY <2>3, <2>5, <2>6
<1>6. ASSUME NEW x \in Outcomes, ExecuteTool(o, x) PROVE RequestKnown(o)'
  <2>0. pc[o] = "tools" /\ run[o].results \in Seq(Outcomes) /\ run[o].calls \in Nat
    BY <1>0, <1>6 DEF ExecuteTool, Locals
  <2>1. CASE Len(run[o].results) + 1 < run[o].calls
    <3>1. run'[o] = [run[o] EXCEPT !.results = Append(@, x)] /\ pc'[o] = "tools"
      BY <1>0, <1>6, <2>0, <2>1 DEF ExecuteTool, Locally
    <3>2. Same /\ run'[o].results = Append(run[o].results, x)
      BY <1>0, <3>1 DEF Locals
    <3>3. Len(run'[o].results) < run'[o].calls
      BY <2>0, <2>1, <3>2
    <3> QED BY <1>1, <2>0, <3>1, <3>2, <3>3 DEF RequestKnown, BeforeLoop
  <2>2. CASE ~(Len(run[o].results) + 1 < run[o].calls)
    <3>1. PICK v : run'[o] = [run[o] EXCEPT !.results = v, !.phase = "tool"] /\ pc'[o] = "count"
      BY <1>0, <1>6, <2>2 DEF ExecuteTool, Locally, Goto
    <3>2. run'[o].phase = "tool"
      BY <1>0, <3>1 DEF Locals
    <3> QED BY <3>1, <3>2 DEF RequestKnown, BeforeLoop
  <2> QED BY <2>1, <2>2
<1>7. ASSUME NEW n \in 0..MaxCalls, LLMAnswers(o, n) PROVE RequestKnown(o)'
  <2>1. /\ run'[o] = [run[o] EXCEPT !.phase = "assistant", !.calls = n, !.results = <<>>,
                                    !.prompt = {}]
        /\ pc'[o] = "count"
    BY <1>0, <1>7 DEF LLMAnswers, Locally, Goto
  <2>2. run'[o].results = <<>>
    BY <1>0, <2>1 DEF Locals
  <2> QED BY <2>1, <2>2 DEF RequestKnown, BeforeLoop
<1>8. ASSUME NEW s \in Sessions, CreateSession(o, s) PROVE RequestKnown(o)'
  <2>1. run'[o] = [run[o] EXCEPT !.sid = s] /\ pc[o] = "create" /\ pc'[o] = "load"
    BY <1>0, <1>8 DEF CreateSession, Locally, Goto
  <2>2. run'[o].results = run[o].results
    BY <1>0, <2>1 DEF Locals
  <2> QED BY <1>0, <2>1, <2>2 DEF RequestKnown, BeforeLoop
<1>9. CASE LoadSession(o) \/ Unpause(o) \/ ReadLatest(o)
  <2>1. /\ BeforeLoop(o)
        /\ pc'[o] \in {"unpause", "latest", "history", "count", "notFound", "raised"}
    BY <1>0, <1>9 DEF LoadSession, Unpause, ReadLatest, Goto, AfterSetup, BeforeLoop
  <2>2. run'[o].results = run[o].results
    <3>1. CASE LoadSession(o) \/ Unpause(o)
      BY <3>1 DEF LoadSession, Unpause
    <3>2. CASE ReadLatest(o)
      <4>1. PICK v : run'[o] = [run[o] EXCEPT !.base = v]
        BY <1>0, <3>2 DEF ReadLatest, Locally
      <4> QED BY <1>0, <4>1 DEF Locals
    <3> QED BY <1>9, <3>1, <3>2
  <2> QED BY <1>0, <2>1, <2>2 DEF RequestKnown
<1>10. CASE CountMessages(o)
  <2>1. PICK v : run'[o] = [run[o] EXCEPT !.count = v]
    BY <1>0, <1>10 DEF CountMessages, Locally
  <2>2. run'[o].results = run[o].results /\ run'[o].phase = run[o].phase
    BY <1>0, <2>1 DEF Locals
  <2>3. pc[o] = "count" /\ pc'[o] = "insert"
    BY <1>0, <1>10 DEF CountMessages, Goto
  <2> QED BY <1>0, <2>2, <2>3 DEF RequestKnown, BeforeLoop
<1>11. CASE \/ EncodeFails(o) \/ InsertFails(o) \/ ReadHistory(o) \/ LLMFails(o)
            \/ PersistStep(o) \/ PersistFails(o) \/ RereadStep(o) \/ ReadLastStep(o)
            \/ MarkStep(o) \/ CloseSession(o)
  <2>1. pc'[o] \in Ended \cup {"llm", "reread", "lastStep", "mark", "close", "history"}
    BY <1>0, <1>11 DEF EncodeFails, InsertFails, ReadHistory, LLMFails, PersistStep, PersistFails,
       RereadStep, ReadLastStep, MarkStep, CloseSession, Goto, Ended
  <2> QED BY <2>1 DEF RequestKnown, BeforeLoop, Ended
<1>12. CASE Proceed(o)
  BY <1>5, <1>6, <1>7, <1>8, <1>9, <1>10, <1>11, <1>12 DEF Proceed
<1>13. ASSUME NEW t \in Runs, t # o, Start(t) \/ Proceed(t) \/ Stops(t)
      PROVE  UNCHANGED <<pc[o], run[o]>>
  BY <1>13, OthersUntouched DEF TypeInv
<1>14. Administer \/ UNCHANGED vars \/ (\E w \in left : Land(w)) => UNCHANGED <<pc[o], run[o]>>
  BY DEF Administer, SetStatus, DeleteSession, vars, Land
<1> QED BY <1>2, <1>3, <1>4, <1>12, <1>13, <1>14, NextCases

LEMMA EffectsInvariant == Spec => []EffectsInv
<1>1. Init => EffectsInv
  BY DEF Init, EffectsInv, EffectsAreRequested, RequestKnown, BeforeLoop
<1>2. TypeInv /\ TypeInv' /\ HandedOut /\ EffectsInv /\ [Next]_vars => EffectsInv'
  BY EffectsStep, RequestKnownStep DEF EffectsInv
<1> QED BY <1>1, <1>2, TypeInvariant, HandedOutInvariant, PTL DEF Spec

(* EffectsAreRequested for every instance: whatever crashes, is aborted or *)
(* runs beside it, a tool that ran on a session that still exists has its  *)
(* request in the history.                                                 *)
THEOREM EffectsStayRequested == Spec => []EffectsAreRequested
<1>1. EffectsInv => EffectsAreRequested
  BY DEF EffectsInv
<1> QED BY <1>1, EffectsInvariant, PTL

-----------------------------------------------------------------------------
(* The steps table implements StepLog.  EntriesOf is the log of session s  *)
(* that a set of rows stands for, with the rows as a parameter, so that    *)
(* what is shown of it holds before and after a step.                      *)

EntriesOf(rows, s) ==
    [n \in Numbers({r \in rows : r.sid = s}) |->
        (CHOOSE r \in rows : r.sid = s /\ r.num = n).status]

LogOf(rows) == [s \in Sessions |-> EntriesOf(rows, s)]

OneRowANumber(rows) == \A p, q \in rows : p.sid = q.sid /\ p.num = q.num => p = q

LEMMA EntriesAreRows ==
    ASSUME NEW rows, OneRowANumber(rows), NEW s
    PROVE  /\ \A r \in rows : r.sid = s => /\ r.num \in DOMAIN EntriesOf(rows, s)
                                           /\ EntriesOf(rows, s)[r.num] = r.status
           /\ \A n \in DOMAIN EntriesOf(rows, s) : \E r \in rows : r.sid = s /\ r.num = n
<1>1. DOMAIN EntriesOf(rows, s) = Numbers({r \in rows : r.sid = s})
  BY DEF EntriesOf
<1>2. ASSUME NEW r \in rows, r.sid = s
      PROVE  /\ r.num \in DOMAIN EntriesOf(rows, s)
             /\ EntriesOf(rows, s)[r.num] = r.status
  <2>1. r.num \in Numbers({q \in rows : q.sid = s})
    BY <1>2 DEF Numbers
  <2> DEFINE c == CHOOSE q \in rows : q.sid = s /\ q.num = r.num
  <2>2. c \in rows /\ c.sid = s /\ c.num = r.num
    BY <1>2
  <2>3. c = r
    BY <1>2, <2>2 DEF OneRowANumber
  <2>4. EntriesOf(rows, s)[r.num] = c.status
    BY <2>1 DEF EntriesOf
  <2> QED BY <1>1, <2>1, <2>3, <2>4
<1>3. ASSUME NEW n \in DOMAIN EntriesOf(rows, s)
      PROVE  \E r \in rows : r.sid = s /\ r.num = n
  BY <1>1 DEF Numbers
<1> QED BY <1>2, <1>3

(* The entries of a session are settled by its rows: two sets of rows with *)
(* the same numbers and the same statuses stand for the same entries.      *)
LEMMA SameEntries ==
    ASSUME NEW old, OneRowANumber(old), NEW new, OneRowANumber(new), NEW s,
           \A r \in old : r.sid = s =>
              \E q \in new : q.sid = s /\ q.num = r.num /\ q.status = r.status,
           \A q \in new : q.sid = s => \E r \in old : r.sid = s /\ r.num = q.num
    PROVE  EntriesOf(new, s) = EntriesOf(old, s)
<1>1. DOMAIN EntriesOf(new, s) = DOMAIN EntriesOf(old, s)
  <2>1. ASSUME NEW n \in DOMAIN EntriesOf(new, s) PROVE n \in DOMAIN EntriesOf(old, s)
    BY EntriesAreRows
  <2>2. ASSUME NEW n \in DOMAIN EntriesOf(old, s) PROVE n \in DOMAIN EntriesOf(new, s)
    BY EntriesAreRows
  <2> QED BY <2>1, <2>2
<1>2. ASSUME NEW n \in DOMAIN EntriesOf(old, s)
      PROVE  EntriesOf(new, s)[n] = EntriesOf(old, s)[n]
  <2>1. PICK r \in old : r.sid = s /\ r.num = n
    BY EntriesAreRows
  <2>2. PICK q \in new : q.sid = s /\ q.num = r.num /\ q.status = r.status
    BY <2>1
  <2> QED BY <2>1, <2>2, EntriesAreRows
<1>3. /\ EntriesOf(new, s) = [n \in DOMAIN EntriesOf(new, s) |-> EntriesOf(new, s)[n]]
      /\ EntriesOf(old, s) = [n \in DOMAIN EntriesOf(old, s) |-> EntriesOf(old, s)[n]]
  BY DEF EntriesOf
<1> HIDE DEF EntriesOf
<1> QED BY <1>1, <1>2, <1>3

LEMMA NoEntries ==
    ASSUME NEW rows, NEW s, \A r \in rows : r.sid # s PROVE EntriesOf(rows, s) = <<>>
<1>1. Numbers({r \in rows : r.sid = s}) = {}
  BY DEF Numbers
<1> DEFINE f == EntriesOf(rows, s)
<1>2. f = [n \in {} |-> (CHOOSE r \in rows : r.sid = s /\ r.num = n).status]
  BY <1>1 DEF EntriesOf
<1>3. f \in Seq({}) /\ Len(f) = 0
  BY <1>2
<1> HIDE DEF f
<1>4. f = <<>>
  BY <1>3
<1> QED BY <1>4 DEF f

(* A new row appends an entry. *)
LEMMA PersistBegins ==
    ASSUME TypeInv, StepsInv, StepNumbersContiguous', NEW t \in Runs, Adds(t)
    PROVE  /\ run[t].sid \in Sessions
           /\ LogOf(steps') = [LogOf(steps) EXCEPT ![run[t].sid] = Append(@, "pending")]
<1> DEFINE new == NewStepRow(t)
           s == run[t].sid
           k == StepNumber(t)
<1>1. /\ steps' = steps \cup {new} /\ ~Taken(s, k)
      /\ new.sid = s /\ new.num = k /\ new.status = "pending"
  BY DEF Adds, Duplicate, NewStepRow
<1>2. s \in Sessions
  BY BoundTyped DEF Adds
<1>3. k \in Nat /\ k > 0
  <2>1. run[t].base \in Nat /\ run[t].k \in Nat /\ run[t].k > 0
    BY DEF TypeInv, Typed, TypeOK, Locals, StepsInv, StepsKnown
  <2> QED BY <2>1 DEF StepNumber
<1>4. \A n \in 1..(k - 1) : Taken(s, n)
  BY DEF Adds, ParentExists, StepsInv, StepsKnown, Reached
<1>5. OneRowANumber(steps) /\ OneRowANumber(steps')
  BY DEF OneRowANumber, StepsInv, StepNumbersContiguous
<1>6. steps \subseteq StepRow
  BY DEF TypeInv, Typed, TypeOK
<1> HIDE DEF new, k
<1> DEFINE f == EntriesOf(steps, s)
           g == EntriesOf(steps', s)
<1>7. DOMAIN f = 1..(k - 1)
  <2>1. ASSUME NEW n \in DOMAIN f PROVE n \in 1..(k - 1)
    <3>1. PICK r \in steps : r.sid = s /\ r.num = n
      BY <1>5, EntriesAreRows
    <3>2. n \in Nat /\ n > 0 /\ \A m \in 1..(n - 1) : Taken(s, m)
      BY <1>6, <3>1 DEF StepRow, StepsInv, StepNumbersContiguous
    <3>3. n # k /\ ~(k \in 1..(n - 1))
      BY <1>1, <3>1, <3>2 DEF Taken
    <3> QED BY <1>3, <3>2, <3>3
  <2>2. ASSUME NEW n \in 1..(k - 1) PROVE n \in DOMAIN f
    BY <1>4, <1>5, EntriesAreRows DEF Taken
  <2> QED BY <2>1, <2>2
<1>8. DOMAIN g = 1..k
  <2>1. ASSUME NEW n \in DOMAIN g PROVE n \in 1..k
    <3>1. PICK r \in steps' : r.sid = s /\ r.num = n
      BY <1>5, EntriesAreRows
    <3>2. n = k \/ n \in DOMAIN f
      BY <1>1, <1>5, <3>1, EntriesAreRows
    <3> QED BY <1>3, <1>7, <3>2
  <2>2. ASSUME NEW n \in 1..k PROVE n \in DOMAIN g
    <3>1. PICK r \in steps' : r.sid = s /\ r.num = n
      BY <1>1, <1>3, <1>4 DEF Taken
    <3> QED BY <1>5, <3>1, EntriesAreRows
  <2> QED BY <2>1, <2>2
<1>9. g[k] = "pending"
  BY <1>1, <1>5, EntriesAreRows
<1>10. ASSUME NEW n \in 1..(k - 1) PROVE g[n] = f[n]
  <2>1. PICK r \in steps : r.sid = s /\ r.num = n
    BY <1>4 DEF Taken
  <2> QED BY <1>1, <1>5, <2>1, EntriesAreRows
<1>11. ASSUME NEW n \in 1..(k - 1) PROVE f[n] \in {"pending", "completed"}
  <2>1. PICK r \in steps : r.sid = s /\ r.num = n
    BY <1>4 DEF Taken
  <2> QED BY <1>5, <1>6, <2>1, EntriesAreRows DEF StepRow
<1>12. f = [n \in DOMAIN f |-> f[n]] /\ g = [n \in DOMAIN g |-> g[n]]
  BY DEF EntriesOf
<1> HIDE DEF f, g
<1>13. g = Append(f, "pending")
  <2>1. f \in Seq({"pending", "completed"}) /\ Len(f) = k - 1
    BY <1>3, <1>7, <1>11, <1>12
  <2>2. g \in Seq({"pending", "completed"}) /\ Len(g) = k
    BY <1>3, <1>8, <1>9, <1>10, <1>11, <1>12
  <2>3. \A n \in 1..k : g[n] = Append(f, "pending")[n]
    BY <1>3, <1>9, <1>10, <2>1
  <2>4. Append(f, "pending") \in Seq({"pending", "completed"}) /\ Len(Append(f, "pending")) = k
    BY <1>3, <2>1
  <2> QED BY <2>2, <2>3, <2>4, SeqEqual
<1>14. ASSUME NEW x \in Sessions, x # s PROVE EntriesOf(steps', x) = EntriesOf(steps, x)
  BY <1>1, <1>5, <1>14, SameEntries
<1> QED BY <1>2, <1>13, <1>14 DEF LogOf, f, g

(* A row that is marked finishes a pending entry, or changes no entry. *)
LEMMA MarkFinishes ==
    ASSUME TypeInv, StepsInv, StepNumbersContiguous', NEW t \in Runs, Marks(t)
    PROVE  \/ LogOf(steps') = LogOf(steps)
           \/ \E s \in Sessions : \E n \in DOMAIN LogOf(steps)[s] :
                /\ LogOf(steps)[s][n] = "pending"
                /\ LogOf(steps') = [LogOf(steps) EXCEPT ![s][n] = "completed"]
<1>1. OneRowANumber(steps) /\ OneRowANumber(steps') /\ steps \subseteq StepRow
  BY DEF OneRowANumber, StepsInv, StepNumbersContiguous, TypeInv, Typed, TypeOK
<1>2. \A q \in steps : \E r \in steps' :
         /\ r.sid = q.sid /\ r.num = q.num
         /\ r.status = IF Marked(t, q) THEN "completed" ELSE q.status
  <2>1. \A q \in steps : LET c == Complete(t, q) IN
                         c.sid = q.sid /\ c.num = q.num /\ c.status = "completed"
    BY <1>1 DEF Complete, StepRow
  <2>2. steps' = {IF Marked(t, q) THEN Complete(t, q) ELSE q : q \in steps}
    BY DEF Marks
  <2> QED BY <2>1, <2>2
<1>3. \A r \in steps' : \E q \in steps : r.sid = q.sid /\ r.num = q.num
  BY MarkKeepsNumbers
<1>4. CASE \A q \in steps : Marked(t, q) => q.status = "completed"
  <2>1. ASSUME NEW s \in Sessions PROVE EntriesOf(steps', s) = EntriesOf(steps, s)
    BY <1>1, <1>2, <1>3, <1>4, SameEntries
  <2> QED BY <2>1 DEF LogOf
<1>5. ASSUME NEW q \in steps, Marked(t, q), q.status # "completed"
      PROVE  /\ q.sid \in Sessions /\ q.num \in DOMAIN LogOf(steps)[q.sid]
             /\ LogOf(steps)[q.sid][q.num] = "pending"
             /\ LogOf(steps') = [LogOf(steps) EXCEPT ![q.sid][q.num] = "completed"]
  <2> DEFINE s == q.sid
             f == EntriesOf(steps, s)
             g == EntriesOf(steps', s)
  <2>1. s \in Sessions /\ q.status = "pending" /\ s = run[t].sid
    BY <1>1, <1>5 DEF StepRow, Marked
  <2>2. q.num \in DOMAIN f /\ f[q.num] = "pending"
    BY <1>1, <2>1, EntriesAreRows
  <2>3. \A p \in steps : Marked(t, p) => p = q
    BY <1>1, <1>5 DEF Marked, OneRowANumber
  <2>4. DOMAIN g = DOMAIN f
    <3>1. ASSUME NEW n \in DOMAIN g PROVE n \in DOMAIN f
      BY <1>1, <1>3, EntriesAreRows
    <3>2. ASSUME NEW n \in DOMAIN f PROVE n \in DOMAIN g
      BY <1>1, <1>2, EntriesAreRows
    <3> QED BY <3>1, <3>2
  <2>5. ASSUME NEW n \in DOMAIN f
        PROVE  g[n] = IF n = q.num THEN "completed" ELSE f[n]
    <3>1. PICK p \in steps : p.sid = s /\ p.num = n
      BY <1>1, EntriesAreRows
    <3>2. PICK r \in steps' : /\ r.sid = s /\ r.num = n
                              /\ r.status = IF Marked(t, p) THEN "completed" ELSE p.status
      BY <1>2, <3>1
    <3>3. g[n] = r.status /\ f[n] = p.status
      BY <1>1, <3>1, <3>2, EntriesAreRows
    <3>4. Marked(t, p) <=> n = q.num
      BY <1>1, <1>5, <2>3, <3>1 DEF OneRowANumber
    <3> QED BY <3>2, <3>3, <3>4
  <2>6. f = [n \in DOMAIN f |-> f[n]] /\ g = [n \in DOMAIN g |-> g[n]]
    BY DEF EntriesOf
  <2>7. ASSUME NEW x \in Sessions, x # s PROVE EntriesOf(steps', x) = EntriesOf(steps, x)
    <3>1. \A p \in steps : p.sid = x => ~Marked(t, p)
      BY <2>1, <2>7 DEF Marked
    <3> QED BY <1>1, <1>2, <1>3, <3>1, SameEntries
  <2>8. LogOf(steps)[s] = f
    BY <2>1 DEF LogOf
  <2> HIDE DEF f, g
  <2>9. g = [f EXCEPT ![q.num] = "completed"]
    BY <2>4, <2>5, <2>6
  <2>10. LogOf(steps') = [LogOf(steps) EXCEPT ![s] = g]
    BY <2>1, <2>7 DEF LogOf, g
  <2> QED BY <2>1, <2>2, <2>8, <2>9, <2>10
<1>6. CASE \E q \in steps : Marked(t, q) /\ q.status # "completed"
  BY <1>5, <1>6
<1> QED BY <1>4, <1>6

(* A deletion takes the whole log of the session. *)
LEMMA DeleteDrops ==
    ASSUME TypeInv, StepsInv, NEW s \in Sessions, DeleteSession(s)
    PROVE  LogOf(steps') = [LogOf(steps) EXCEPT ![s] = <<>>]
<1>1. steps' = {r \in steps : r.sid # s}
  BY DEF DeleteSession
<1>2. OneRowANumber(steps) /\ OneRowANumber(steps')
  BY <1>1 DEF OneRowANumber, StepsInv, StepNumbersContiguous
<1>3. EntriesOf(steps', s) = <<>>
  BY <1>1, NoEntries
<1>4. ASSUME NEW x \in Sessions, x # s PROVE EntriesOf(steps', x) = EntriesOf(steps, x)
  <2>1. \A r \in steps : r.sid = x => r \in steps'
    BY <1>1, <1>4
  <2>2. steps' \subseteq steps
    BY <1>1
  <2> QED BY <1>2, <2>1, <2>2, SameEntries
<1> QED BY <1>3, <1>4 DEF LogOf

LEMMA LogInit == Init => Log!Init
<1> SUFFICES ASSUME Init PROVE LogOf(steps) = [s \in Sessions |-> <<>>]
  BY DEF Log!Init, LogOf, EntriesOf, StepStatus
<1>1. ASSUME NEW s \in Sessions PROVE EntriesOf(steps, s) = <<>>
  BY NoEntries DEF Init
<1> QED BY <1>1 DEF LogOf

LEMMA LogStep ==
    ASSUME TypeInv, StepsInv, StepNumbersContiguous', [Next]_vars
    PROVE  [Log!Next]_(LogOf(steps))
<1>1. CASE UNCHANGED steps
  BY <1>1
<1>2. CASE \E t \in Runs : Adds(t)
  BY <1>2, PersistBegins DEF Log!Next, Log!Begin, LogOf, EntriesOf, StepStatus
<1>3. CASE \E t \in Runs : Marks(t)
  BY <1>3, MarkFinishes DEF Log!Next, Log!Finish, LogOf, EntriesOf, StepStatus
<1>4. CASE \E s \in Sessions : DeleteSession(s)
  BY <1>4, DeleteDrops DEF Log!Next, Log!Drop, LogOf, EntriesOf, StepStatus
<1> QED BY <1>1, <1>2, <1>3, <1>4, TablesMove

(* The refinement for every instance: whatever calls of Agent.run do, the  *)
(* steps of a session are a log that grows at its end, whose entries go    *)
(* from pending to completed, and that goes away with its session only.    *)
THEOREM StepsTableIsALog == Spec => ImplementsStepLog
<1>1. Init => Log!Init
  BY LogInit
<1>2. TypeInv /\ StepsInv /\ StepsInv' /\ [Next]_vars
        => [Log!Next]_([s \in Sessions |->
                          [n \in Numbers({r \in steps : r.sid = s}) |-> StepStatus(s, n)]])
  BY LogStep DEF StepsInv, LogOf, EntriesOf, StepStatus
<1> QED BY <1>1, <1>2, TypeInvariant, StepsInvariant, PTL DEF Spec, ImplementsStepLog, Log!Spec

-----------------------------------------------------------------------------
(* One call at a time.  When Exclusive holds, the call in progress on a    *)
(* session is the only one, and what it has read of the session stays so.  *)

(* What one step may do to a call. *)
LEMMA StartMoves ==
    ASSUME TypeInv, NEW t \in Runs, Start(t)
    PROVE  /\ pc[t] = "idle" /\ UnchangedTables /\ UNCHANGED executed
           /\ run'[t].base = run[t].base /\ run'[t].k = run[t].k /\ run'[t].next = run[t].next
           /\ run'[t].phase = run[t].phase
           /\ \/ pc'[t] = "create" /\ run'[t].sid = run[t].sid /\ run'[t].mode = run[t].mode
              \/ \E s \in Sessions : /\ pc'[t] = "load" /\ run'[t].sid = s
                                     /\ status[s] # "unused" /\ MayRun(s)
<1>0. pc \in [Runs -> {"idle"} \cup Awaits \cup Ended] /\ run \in [Runs -> Locals] /\ run[t] \in Locals
  BY DEF TypeInv, Typed, TypeOK
<1>1. ASSUME NEW u \in Users, NEW n \in 0..MaxInputs, StartNew(t, u, n)
      PROVE  /\ pc[t] = "idle" /\ UnchangedTables /\ UNCHANGED executed
             /\ run'[t] = [run[t] EXCEPT !.user = u, !.inputs = n] /\ pc'[t] = "create"
  BY <1>0, <1>1 DEF StartNew, Locally, Goto
<1>2. CASE \E u \in Users, n \in 0..MaxInputs : StartNew(t, u, n)
  <2>1. PICK u \in Users, n \in 0..MaxInputs : StartNew(t, u, n)
    BY <1>2
  <2>2. /\ run'[t].base = run[t].base /\ run'[t].k = run[t].k /\ run'[t].next = run[t].next
        /\ run'[t].phase = run[t].phase /\ run'[t].sid = run[t].sid /\ run'[t].mode = run[t].mode
    <3>1. run'[t] = [run[t] EXCEPT !.user = u, !.inputs = n]
      BY <1>1, <2>1
    <3> QED BY <1>0, <3>1 DEF Locals
  <2> QED BY <1>1, <2>1, <2>2
<1>3. CASE \E u \in Users, n \in 0..MaxInputs, s \in Sessions, m \in {"continue", "resume"} :
             StartOn(t, u, n, s, m)
  <2>1. PICK u \in Users, n \in 0..MaxInputs, s \in Sessions, m \in {"continue", "resume"} :
             StartOn(t, u, n, s, m)
    BY <1>3
  <2>2. /\ run'[t].base = run[t].base /\ run'[t].k = run[t].k /\ run'[t].next = run[t].next
        /\ run'[t].phase = run[t].phase /\ run'[t].sid = s
    <3>1. run'[t] = [run[t] EXCEPT !.user = u, !.inputs = n, !.sid = s, !.mode = m]
      BY <1>0, <2>1 DEF StartOn, Locally
    <3> QED BY <1>0, <3>1 DEF Locals
  <2>3. /\ pc[t] = "idle" /\ UnchangedTables /\ UNCHANGED executed
        /\ pc'[t] = "load" /\ status[s] # "unused" /\ MayRun(s)
    BY <1>0, <2>1 DEF StartOn, Goto
  <2> QED BY <2>2, <2>3
<1> QED BY <1>2, <1>3 DEF Start

LEMMA CreateMoves ==
    ASSUME TypeInv, NEW t \in Runs, NEW s \in Sessions, CreateSession(t, s)
    PROVE  /\ pc[t] = "create" /\ pc'[t] = "load" /\ run'[t].sid = s /\ status[s] = "unused"
           /\ run'[t].base = run[t].base /\ run'[t].k = run[t].k /\ run'[t].next = run[t].next
           /\ run'[t].phase = run[t].phase /\ UNCHANGED <<messages, steps, executed>>
<1>0. pc \in [Runs -> {"idle"} \cup Awaits \cup Ended] /\ run \in [Runs -> Locals] /\ run[t] \in Locals
  BY DEF TypeInv, Typed, TypeOK
<1>1. /\ pc[t] = "create" /\ pc'[t] = "load" /\ run'[t] = [run[t] EXCEPT !.sid = s]
      /\ status[s] = "unused" /\ UNCHANGED <<messages, steps, executed>>
  BY <1>0 DEF CreateSession, Goto, Locally
<1> QED BY <1>0, <1>1 DEF Locals

(* A call stays as it is, takes a step of its own, or is cut short. *)
Cut(t) == Live(t) /\ run'[t] = run[t] /\ pc'[t] \in {"raised", "crashed"} /\ UnchangedTables

LEMMA CallCases ==
    ASSUME TypeInv, [Next]_vars, NEW t \in Runs
    PROVE  (pc'[t] = pc[t] /\ run'[t] = run[t]) \/ Start(t) \/ Proceed(t) \/ Cut(t)
<1>0. pc \in [Runs -> {"idle"} \cup Awaits \cup Ended] /\ run \in [Runs -> Locals]
  BY DEF TypeInv, Typed, TypeOK
<1>1. ASSUME NEW o \in Runs, o # t, Start(o) \/ Proceed(o) \/ Stops(o)
      PROVE  pc'[t] = pc[t] /\ run'[t] = run[t]
  BY <1>1, OthersUntouched DEF TypeInv
<1>2. Stops(t) => Cut(t)
  BY <1>0 DEF Stops, Cut, Goto
<1>3. Crash => Cut(t) \/ (pc'[t] = pc[t] /\ run'[t] = run[t])
  BY <1>0 DEF Crash, Cut
<1>4. Administer \/ UNCHANGED vars \/ (\E w \in left : Land(w)) => pc'[t] = pc[t] /\ run'[t] = run[t]
  BY DEF Administer, SetStatus, DeleteSession, vars, Land
<1> QED BY <1>1, <1>2, <1>3, <1>4, NextCases

(* The sids of calls were handed out. *)
SidsKnown ==
    \A t \in Runs : /\ pc[t] \in {"idle", "create"} => run[t].sid = NoSession
                    /\ pc[t] = "completed" => run[t].sid # NoSession
                    /\ run[t].sid # NoSession => status[run[t].sid] # "unused"

AloneOnSession ==
    \A t, o \in Runs :
        Live(t) /\ Live(o) /\ run[t].sid = run[o].sid /\ run[t].sid # NoSession => t = o

AloneInv == SidsKnown /\ AloneOnSession

LEMMA SidMoves ==
    ASSUME TypeInv, [Next]_vars, NEW t \in Runs, ~Start(t), ~(\E s \in Sessions : CreateSession(t, s))
    PROVE  /\ run'[t].sid = run[t].sid /\ (Live(t)' => Live(t))
           /\ pc'[t] \in {"idle", "create"} => pc[t] = pc'[t]
           /\ pc'[t] = "completed" => pc[t] \in {"completed"} \cup (Awaits \ {"create"})
<1>1. CASE Proceed(t)
  <2>1. pc[t] \in Awaits \ {"create"} /\ run'[t].sid = run[t].sid
    BY <1>1, LocalsKept
  <2>2. pc'[t] \notin {"idle", "create"}
    <3>0. pc \in [Runs -> {"idle"} \cup Awaits \cup Ended] /\ run[t] \in Locals
      BY DEF TypeInv, Typed, TypeOK
    <3>1. CASE LoadSession(t) \/ Unpause(t) \/ ReadLatest(t) \/ EncodeFails(t) \/ CountMessages(t)
      BY <3>0, <3>1 DEF LoadSession, Unpause, ReadLatest, EncodeFails, CountMessages, AfterSetup, Goto
    <3>2. CASE InsertMessage(t) \/ InsertFails(t)
      BY <3>0, <3>2 DEF InsertMessage, InsertFails, AfterPhase, Goto, Locals, Roles
    <3>3. CASE ReadHistory(t) \/ LLMFails(t) \/ \E n \in 0..MaxCalls : LLMAnswers(t, n)
      BY <3>0, <3>3 DEF ReadHistory, LLMFails, LLMAnswers, Goto
    <3>4. CASE \E x \in Outcomes : ExecuteTool(t, x)
      BY <3>0, <3>4 DEF ExecuteTool, Goto
    <3>5. CASE PersistStep(t) \/ PersistFails(t) \/ RereadStep(t) \/ ReadLastStep(t)
               \/ MarkStep(t) \/ CloseSession(t)
      BY <3>0, <3>5 DEF PersistStep, PersistFails, RereadStep, ReadLastStep, MarkStep,
         CloseSession, Goto
    <3> QED BY <1>1, <3>1, <3>2, <3>3, <3>4, <3>5 DEF Proceed
  <2> QED BY <2>1, <2>2 DEF Live
<1>2. CASE Cut(t)
  BY <1>2 DEF Cut, Live, Awaits
<1> QED BY <1>1, <1>2, CallCases DEF Live

LEMMA AloneInvariant == ASSUME Exclusive PROVE Spec => []AloneInv
<1>1. Init => AloneInv
  BY DEF Init, AloneInv, SidsKnown, AloneOnSession, Live, Awaits
<1>2. TypeInv /\ HandedOut /\ AloneInv /\ [Next]_vars => AloneInv'
  <2> SUFFICES ASSUME TypeInv, HandedOut, AloneInv, [Next]_vars PROVE AloneInv'
    OBVIOUS
  <2>0. /\ run \in [Runs -> Locals] /\ \A t \in Runs : run[t].sid \in Sessions \cup {NoSession}
        /\ \A t \in Runs : pc[t] \in Awaits \ {"create"} => run[t].sid # NoSession
    BY SessionAssumption DEF TypeInv, Typed, TypeOK, Locals
  <2>1. SidsKnown'
    <3> SUFFICES ASSUME NEW t \in Runs
                 PROVE  /\ pc'[t] \in {"idle", "create"} => run'[t].sid = NoSession
                        /\ pc'[t] = "completed" => run'[t].sid # NoSession
                        /\ run'[t].sid # NoSession => status'[run'[t].sid] # "unused"
      BY DEF SidsKnown
    <3>1. \A s \in Sessions : status[s] # "unused" => status'[s] # "unused"
      BY StatusMoves
    <3>2. CASE Start(t)
      BY <3>1, <3>2, StartMoves DEF AloneInv, SidsKnown
    <3>3. CASE \E s \in Sessions : CreateSession(t, s)
      <4>1. PICK s \in Sessions : CreateSession(t, s)
        BY <3>3
      <4>2. status'[s] = "active"
        BY <4>1 DEF CreateSession, TypeInv, Typed, TypeOK
      <4> QED BY <4>1, <4>2, CreateMoves
    <3>4. CASE ~Start(t) /\ ~(\E s \in Sessions : CreateSession(t, s))
      BY <2>0, <3>1, <3>4, SidMoves DEF AloneInv, SidsKnown
    <3> QED BY <3>2, <3>3, <3>4
  <2>2. ASSUME NEW t \in Runs, NEW o \in Runs, t # o, Start(t) \/ \E s \in Sessions : CreateSession(t, s),
               Live(t)', Live(o)', run'[t].sid = run'[o].sid, run'[t].sid # NoSession
        PROVE  FALSE
    <3>1. pc'[o] = pc[o] /\ run'[o] = run[o]
      BY <2>2, OthersUntouched DEF Proceed, TypeInv
    <3>2. Live(o)
      BY <2>2, <3>1 DEF Live
    <3>3. CASE Start(t)
      <4>1. PICK s \in Sessions : pc'[t] = "load" /\ run'[t].sid = s /\ MayRun(s)
        BY <2>2, <3>3, StartMoves DEF AloneInv, SidsKnown
      <4> QED BY <2>2, <3>1, <3>2, <4>1 DEF MayRun
    <3>4. CASE \E s \in Sessions : CreateSession(t, s)
      <4>1. PICK s \in Sessions : run'[t].sid = s /\ status[s] = "unused"
        BY <3>4, CreateMoves
      <4> QED BY <2>2, <3>1, <4>1 DEF AloneInv, SidsKnown
    <3> QED BY <2>2, <3>3, <3>4
  <2>3. AloneOnSession'
    <3> SUFFICES ASSUME NEW t \in Runs, NEW o \in Runs, t # o, Live(t)', Live(o)',
                        run'[t].sid = run'[o].sid, run'[t].sid # NoSession
                 PROVE  FALSE
      BY DEF AloneOnSession
    <3>1. /\ ~Start(t) /\ ~(\E s \in Sessions : CreateSession(t, s))
          /\ ~Start(o) /\ ~(\E s \in Sessions : CreateSession(o, s))
      BY <2>2
    <3> QED BY <3>1, SidMoves DEF AloneInv, AloneOnSession
  <2> QED BY <2>1, <2>3 DEF AloneInv
<1> QED BY <1>1, <1>2, TypeInvariant, HandedOutInvariant, PTL DEF Spec

-----------------------------------------------------------------------------
(* The steps of a call that has its session to itself.                     *)

(* No row is later than the step the call is at. *)
Newest(t) == \A r \in steps : r.sid = run[t].sid => r.num <= Reached(t)

LEMMA ReachedType ==
    ASSUME TypeInv, NEW t \in Runs
    PROVE  run[t].base \in Nat /\ run[t].k \in Nat /\ StepNumber(t) \in Nat /\ Reached(t) \in Int
<1>1. run[t] \in Locals
  BY DEF TypeInv, Typed, TypeOK
<1>2. run[t].base \in Nat /\ run[t].k \in Nat
  BY <1>1 DEF Locals
<1> QED BY <1>2 DEF Reached, StepNumber

LEMMA NewestStays ==
    ASSUME TypeInv, TypeInv', AloneInv, ~disturbed, [Next]_vars, NEW t \in Runs, Live(t), pc[t] # "create", ~PersistStep(t),
           Newest(t), run'[t].sid = run[t].sid, Reached(t) <= Reached(t)'
    PROVE  Newest(t)'
<1> SUFFICES ASSUME NEW r \in steps', r.sid = run[t].sid PROVE r.num <= Reached(t)'
  BY DEF Newest
<1>1. run[t].sid \in Sessions /\ run[t].sid # NoSession
  BY SessionAssumption DEF TypeInv, Typed, TypeOK, Live
<1>2. Reached(t) \in Int /\ Reached(t)' \in Int
  <2>1. Reached(t) \in Int
    BY ReachedType
  <2>2. Reached(t)' \in Int
    <3>1. run'[t] \in Locals
      BY DEF TypeInv, Typed, TypeOK
    <3>2. run'[t].base \in Nat /\ run'[t].k \in Nat
      BY <3>1 DEF Locals
    <3> QED BY <3>2 DEF Reached, StepNumber
  <2> QED BY <2>1, <2>2
<1>3. \A q \in steps : q.num \in Nat
  BY DEF TypeInv, Typed, TypeOK, StepRow
<1>4. \E q \in steps : q.sid = r.sid /\ q.num = r.num
  <2>1. CASE \E o \in Runs : MarkStep(o)
    BY <2>1, MarkKeepsNumbers DEF MarkStep, Marks
  <2>2. CASE \E x \in Sessions : DeleteSession(x)
    BY <2>2 DEF DeleteSession
  <2>3. ASSUME NEW o \in Runs, PersistStep(o) PROVE r \in steps
    <3>1. o # t /\ Live(o)
      BY <2>3 DEF PersistStep, Live, Awaits
    <3>2. run[o].sid # run[t].sid
      BY <1>1, <3>1 DEF AloneInv, AloneOnSession
    <3>3. steps' = steps \cup {NewStepRow(o)} /\ NewStepRow(o).sid = run[o].sid
      BY <2>3 DEF PersistStep, NewStepRow
    <3> QED BY <3>2, <3>3
  <2> QED BY <2>1, <2>2, <2>3, CalmTables
<1> QED BY <1>2, <1>3, <1>4 DEF Newest

(* The places a call goes to by steps that write no step row. *)
Walks(t) == /\ Proceed(t) /\ ~(\E s \in Sessions : CreateSession(t, s)) /\ ~ReadLatest(t)
            /\ ~PersistStep(t) /\ ~MarkStep(t)

LEMMA WalkMoves ==
    ASSUME TypeInv, NEW t \in Runs, Walks(t)
    PROVE  /\ Live(t) /\ pc[t] # "create" /\ run'[t].sid = run[t].sid /\ run'[t].user = run[t].user
           /\ run'[t].mode = run[t].mode /\ run'[t].base = run[t].base /\ run'[t].k = run[t].k
           /\ BeforeLoop(t) /\ run[t].mode = "resume" /\ Live(t)' => BeforeLoop(t)'
           /\ BeforeLoop(t)' => BeforeLoop(t)
           /\ pc'[t] \in {"reread", "lastStep", "mark"} => RereadStep(t) \/ ReadLastStep(t)
           /\ pc'[t] \in {"close", "completed"} => pc[t] = "close"
           /\ pc[t] = "close" => pc'[t] = "completed"
           /\ pc[t] \in {"reread", "lastStep", "mark", "close"} =>
                ~Live(t)' \/ pc'[t] \in {"reread", "lastStep", "mark", "close"}
<1>0. /\ pc \in [Runs -> {"idle"} \cup Awaits \cup Ended] /\ run[t] \in Locals
  BY DEF TypeInv, Typed, TypeOK
<1>1. /\ pc[t] \in Awaits \ {"create"} /\ run'[t].sid = run[t].sid /\ run'[t].user = run[t].user
      /\ run'[t].mode = run[t].mode /\ run'[t].base = run[t].base /\ run'[t].k = run[t].k
  BY LocalsKept DEF Walks
<1>2. CASE LoadSession(t)
  <2>1. pc[t] = "load" /\ (pc'[t] \in {"raised", "notFound", "unpause", "latest"}
                           \/ (run[t].mode # "resume" /\ pc'[t] \in {"history", "count"}))
    BY <1>0, <1>2 DEF LoadSession, AfterSetup, Goto
  <2> QED BY <1>1, <2>1 DEF BeforeLoop, Live, Awaits
<1>3. CASE Unpause(t) \/ EncodeFails(t) \/ CountMessages(t)
  BY <1>0, <1>1, <1>3 DEF Unpause, EncodeFails, CountMessages, BeforeLoop, Live, Awaits, Goto
<1>4. CASE InsertMessage(t) \/ InsertFails(t)
  <2>1. run[t].phase \in Roles
    BY <1>0 DEF Locals
  <2>2. pc[t] = "insert" /\ pc'[t] \in {"count", "history", "persist", "tools", "raised"}
    BY <1>0, <1>4, <2>1 DEF InsertMessage, InsertFails, AfterPhase, Goto, Roles
  <2> QED BY <1>1, <2>2 DEF BeforeLoop, Live, Awaits
<1>5. CASE ReadHistory(t) \/ LLMFails(t) \/ \E n \in 0..MaxCalls : LLMAnswers(t, n)
  BY <1>0, <1>1, <1>5 DEF ReadHistory, LLMFails, LLMAnswers, BeforeLoop, Live, Awaits, Goto
<1>6. CASE \E x \in Outcomes : ExecuteTool(t, x)
  BY <1>0, <1>1, <1>6 DEF ExecuteTool, BeforeLoop, Live, Awaits, Goto
<1>7. CASE PersistFails(t) \/ RereadStep(t) \/ ReadLastStep(t) \/ CloseSession(t)
  BY <1>0, <1>1, <1>7 DEF PersistFails, RereadStep, ReadLastStep, CloseSession, BeforeLoop, Live,
     Awaits, Goto
<1> QED BY <1>2, <1>3, <1>4, <1>5, <1>6, <1>7 DEF Walks, Proceed

(* The rows of the session of a call that is past its setup carry its user.*)
LEMMA OwnRows ==
    ASSUME TypeInv, HandedOut, OwnerInv, NEW t \in Runs, pc[t] \in Awaits \ {"create", "load"}
    PROVE  \A r \in steps : r.sid = run[t].sid => r.user = run[t].user
<1>1. run[t].sid \in Sessions /\ Bound(t)
  BY DEF TypeInv, Typed, TypeOK, Bound
<1> QED BY <1>1 DEF HandedOut, NoOrphanRows, OwnerInv, RowsBelongToOwner, OwnerKnown

LEMMA LatestOfSession ==
    ASSUME TypeInv, HandedOut, OwnerInv, NEW t \in Runs, pc[t] \in Awaits \ {"create", "load"}
    PROVE  LET l == LatestNumber(StepsOf(run[t].sid, run[t].user)) IN
           /\ l \in Nat /\ \A r \in steps : r.sid = run[t].sid => r.num <= l
           /\ StepsOf(run[t].sid, run[t].user) # {} => \E r \in steps : r.sid = run[t].sid /\ r.num = l
<1> DEFINE rows == StepsOf(run[t].sid, run[t].user)
<1>1. rows = {r \in steps : r.sid = run[t].sid}
  BY OwnRows DEF StepsOf
<1>2. PICK b \in Nat : \A r \in steps : r.num <= b
  BY DEF TypeInv, Typed, StepsBounded
<1>3. rows \subseteq StepRow
  BY <1>1 DEF TypeInv, Typed, TypeOK
<1> HIDE DEF rows
<1>4. /\ LatestNumber(rows) \in Nat /\ \A r \in rows : r.num <= LatestNumber(rows)
      /\ rows # {} => \E r \in rows : r.num = LatestNumber(rows)
  BY <1>1, <1>2, <1>3, LatestIsGreatest
<1> QED BY <1>1, <1>4 DEF rows

(* A resumed call has begun after the last row there is. *)
ResumesLast(t) == Live(t) /\ ~BeforeLoop(t) /\ run[t].mode = "resume" => Newest(t)

LEMMA MarkGoesOn ==
    ASSUME TypeInv, NEW t \in Runs, MarkStep(t)
    PROVE  /\ pc[t] = "mark" /\ run'[t].sid = run[t].sid /\ run'[t].mode = run[t].mode
           /\ run'[t].user = run[t].user /\ run'[t].base = run[t].base
           /\ \/ pc'[t] = "history" /\ run'[t].k = run[t].k + 1
              \/ pc'[t] \in {"close", "failed"} /\ run'[t].k = run[t].k
<1>0. pc \in [Runs -> {"idle"} \cup Awaits \cup Ended] /\ run \in [Runs -> Locals] /\ run[t] \in Locals
  BY DEF TypeInv, Typed, TypeOK
<1>1. Proceed(t) /\ pc[t] = "mark" /\ ~(\E s \in Sessions : CreateSession(t, s)) /\ ~ReadLatest(t)
  BY DEF MarkStep, CreateSession, ReadLatest, Proceed
<1>2. \/ pc'[t] = "history" /\ run'[t].k = run[t].k + 1
      \/ pc'[t] \in {"close", "failed"} /\ run'[t].k = run[t].k
  <2>1. CASE run[t].calls # 0 /\ run[t].k < MaxSteps
    <3>1. run'[t] = [run[t] EXCEPT !.k = @ + 1] /\ pc'[t] = "history"
      BY <1>0, <2>1 DEF MarkStep, Locally, Goto
    <3> QED BY <1>0, <3>1 DEF Locals
  <2>2. CASE ~(run[t].calls # 0 /\ run[t].k < MaxSteps)
    <3>1. run'[t] = run[t] /\ pc'[t] \in {"close", "failed"}
      BY <1>0, <2>2 DEF MarkStep, Goto
    <3> QED BY <3>1
  <2> QED BY <2>1, <2>2
<1> QED BY <1>1, <1>2, LocalsKept

LEMMA ReadLatestMoves ==
    ASSUME TypeInv, HandedOut, OwnerInv, StepsInv, NEW t \in Runs, ReadLatest(t)
    PROVE  /\ pc[t] = "latest" /\ pc'[t] \in {"history", "count"} /\ run'[t].sid = run[t].sid
           /\ run'[t].k = 1 /\ run'[t].base \in Nat /\ Reached(t)' = run'[t].base
           /\ steps' = steps /\ \A r \in steps : r.sid = run[t].sid => r.num <= run'[t].base
<1>0. /\ pc \in [Runs -> {"idle"} \cup Awaits \cup Ended] /\ run \in [Runs -> Locals] /\ run[t] \in Locals
      /\ pc[t] = "latest"
  BY DEF TypeInv, Typed, TypeOK, ReadLatest
<1> DEFINE l == LatestNumber(StepsOf(run[t].sid, run[t].user))
<1>1. l \in Nat /\ \A r \in steps : r.sid = run[t].sid => r.num <= l
  BY <1>0, LatestOfSession DEF Awaits
<1>2. /\ run'[t] = [run[t] EXCEPT !.base = l] /\ run[t].k = 1 /\ steps' = steps
      /\ pc'[t] \in {"history", "count"}
  BY <1>0 DEF ReadLatest, Locally, Goto, AfterSetup, UnchangedTables, StepsInv, StepsKnown, BeforeLoop
<1> HIDE DEF l
<1>3. run'[t].base = l /\ run'[t].k = 1 /\ run'[t].sid = run[t].sid
  BY <1>0, <1>2 DEF Locals
<1> QED BY <1>0, <1>1, <1>2, <1>3 DEF Reached, StepNumber

LEMMA ResumesLastStep ==
    ASSUME TypeInv, TypeInv', HandedOut, OwnerInv, StepsInv, AloneInv, ~disturbed, [Next]_vars,
           NEW t \in Runs, ResumesLast(t)
    PROVE  ResumesLast(t)'
<1> SUFFICES ASSUME Live(t)', ~BeforeLoop(t)', run'[t].mode = "resume" PROVE Newest(t)'
  BY DEF ResumesLast
<1>0. run[t] \in Locals /\ run'[t] \in Locals
  BY DEF TypeInv, Typed, TypeOK
<1>1. Reached(t) \in Int
  BY ReachedType
<1>2. CASE pc'[t] = pc[t] /\ run'[t] = run[t]
  <2>1. Live(t) /\ ~BeforeLoop(t) /\ Reached(t)' = Reached(t) /\ ~PersistStep(t)
    <3>1. PersistStep(t) => pc[t] = "persist" /\ pc'[t] = "reread"
      BY DEF PersistStep, Goto, TypeInv, Typed, TypeOK
    <3> QED BY <1>2, <3>1 DEF Live, BeforeLoop, Reached, StepNumber
  <2>2. Newest(t) /\ pc[t] # "create"
    BY <1>2, <2>1 DEF ResumesLast, BeforeLoop
  <2> QED BY <1>1, <1>2, <2>1, <2>2, NewestStays
<1>3. CASE Start(t) \/ Cut(t)
  BY <1>3, StartMoves DEF Cut, BeforeLoop, Live, Awaits
<1>4. CASE \E s \in Sessions : CreateSession(t, s)
  BY <1>4, CreateMoves DEF BeforeLoop
<1>5. CASE ReadLatest(t)
  BY <1>5, ReadLatestMoves DEF Newest
<1>6. CASE PersistStep(t)
  <2>1. /\ pc[t] = "persist" /\ pc'[t] = "reread" /\ run' = run
        /\ steps' = steps \cup {NewStepRow(t)} /\ NewStepRow(t).num = StepNumber(t)
    BY <1>6 DEF PersistStep, Goto, TypeInv, Typed, TypeOK, NewStepRow
  <2>2. Newest(t) /\ Reached(t) = StepNumber(t) - 1 /\ Reached(t)' = StepNumber(t)
    BY <2>1 DEF ResumesLast, Live, Awaits, BeforeLoop, Reached, StepNumber
  <2>3. StepNumber(t) \in Nat /\ \A r \in steps : r.num \in Nat
    BY ReachedType DEF TypeInv, Typed, TypeOK, StepRow
  <2>4. run'[t].sid = run[t].sid /\ StepNumber(t) - 1 <= StepNumber(t)
    BY <2>1, <2>3
  <2>5. \A r \in steps : r.sid = run[t].sid => r.num <= StepNumber(t)
    BY <2>2, <2>3 DEF Newest
  <2> QED BY <2>1, <2>2, <2>3, <2>4, <2>5 DEF Newest
<1>7. CASE MarkStep(t)
  <2>0. /\ pc[t] = "mark" /\ run'[t].sid = run[t].sid /\ run[t].mode = "resume"
        /\ run'[t].base = run[t].base /\ run[t].base \in Nat /\ run[t].k \in Nat
        /\ \/ pc'[t] = "history" /\ run'[t].k = run[t].k + 1
           \/ pc'[t] = "close" /\ run'[t].k = run[t].k
    BY <1>7, MarkGoesOn, ReachedType DEF Live, Awaits
  <2>1. pc[t] = "mark" /\ run'[t].sid = run[t].sid /\ Reached(t)' = Reached(t) /\ run[t].mode = "resume"
    BY <2>0 DEF Reached, StepNumber
  <2>2. Newest(t) /\ Live(t) /\ ~PersistStep(t)
    BY <2>1 DEF ResumesLast, Live, Awaits, BeforeLoop, PersistStep
  <2> QED BY <1>1, <2>1, <2>2, NewestStays
<1>8. CASE Walks(t)
  <2>1. /\ Live(t) /\ pc[t] # "create" /\ ~BeforeLoop(t) /\ run'[t].sid = run[t].sid
        /\ run[t].mode = "resume" /\ run'[t].base = run[t].base /\ run'[t].k = run[t].k
    BY <1>8, WalkMoves
  <2>2. Reached(t) <= Reached(t)' /\ ~PersistStep(t)
    <3>1. StepNumber(t)' = StepNumber(t) /\ StepNumber(t) \in Nat
      BY <2>1, ReachedType DEF StepNumber
    <3>2. pc[t] \in {"reread", "lastStep", "mark", "close"} =>
            ~Live(t)' \/ pc'[t] \in {"reread", "lastStep", "mark", "close"}
      BY <1>8, WalkMoves
    <3> QED BY <1>8, <3>1, <3>2 DEF Reached, Walks
  <2> QED BY <2>1, <2>2, NewestStays DEF ResumesLast
<1> QED BY <1>2, <1>3, <1>4, <1>5, <1>6, <1>7, <1>8, CallCases DEF Walks

LEMMA ResumeInvariant == ASSUME Exclusive PROVE Spec => [](disturbed \/ \A t \in Runs : ResumesLast(t))
<1> DEFINE Inv == disturbed \/ \A t \in Runs : ResumesLast(t)
<1>1. Init => Inv
  BY DEF Init, ResumesLast, Live, Awaits
<1>2. TypeInv /\ TypeInv' /\ HandedOut /\ OwnerInv /\ StepsInv /\ AloneInv /\ Inv /\ [Next]_vars => Inv'
  BY ResumesLastStep, DisturbedStays
<1> QED BY <1>1, <1>2, TypeInvariant, HandedOutInvariant, OwnerInvariant, StepsInvariant,
           AloneInvariant, PTL DEF Spec

(* A resumed call executes no tool of a step that is already in the table, *)
(* if callers run a session one call at a time and no connection was left  *)
(* in a transaction: its offset is past all of them, and nobody else adds  *)
(* any.  A row that was cut off before its commit may land later.          *)
THEOREM ResumedCallsGoOn == ASSUME Exclusive PROVE Spec => ResumeSkipsRecordedSteps
<1> DEFINE Inv == disturbed \/ \A t \in Runs : ResumesLast(t)
           Skips == ~disturbed => \A e \in executed' \ executed : run[e.by].mode = "resume" => ~Taken(e.sid, e.num)
<1>1. TypeInv /\ Inv /\ [Next]_vars => [Skips]_vars
  <2> SUFFICES ASSUME TypeInv, Inv, [Next]_vars, ~disturbed, NEW e \in executed', e \notin executed,
                      run[e.by].mode = "resume", Taken(e.sid, e.num)
               PROVE  FALSE
    OBVIOUS
  <2>1. PICK t \in Runs, o \in Outcomes : ExecuteTool(t, o)
    BY TablesMove
  <2>2. e.by = t /\ e.sid = run[t].sid /\ e.num = StepNumber(t) /\ pc[t] = "tools"
    BY <2>1 DEF ExecuteTool
  <2>3. Newest(t) /\ Reached(t) = StepNumber(t) - 1
    BY <2>2 DEF ResumesLast, Live, Awaits, BeforeLoop, Reached
  <2>4. StepNumber(t) \in Nat
    BY StepNumberType DEF TypeInv, Typed
  <2> QED BY <2>2, <2>3, <2>4 DEF Newest, Taken
<1> QED BY <1>1, TypeInvariant, ResumeInvariant, PTL DEF Spec, ResumeSkipsRecordedSteps

-----------------------------------------------------------------------------
(* What a call has persisted.  A call that has its session to itself       *)
(* completes its own rows: the final branch, which takes the id of the     *)
(* latest row instead of its own, finds the one it has just created.       *)

Written(t, n) == \E r \in steps : r.sid = run[t].sid /\ r.num = n /\ r.by = t

Stored(t, n) == \E r \in steps : /\ r.sid = run[t].sid /\ r.num = n
                                 /\ r.status = "completed" /\ r.by = t /\ r.out = {t}

(* The last step whose row the call has completed. *)
Finished(t) == IF pc[t] \in {"close", "completed"} THEN StepNumber(t) ELSE StepNumber(t) - 1

Persisted(t) == pc[t] \in {"reread", "lastStep", "mark"}

StepsStored(t) ==
    /\ (Live(t) \/ pc[t] = "completed") /\ run[t].sid # NoSession /\ Exists(run[t].sid) =>
          \A n \in (run[t].base + 1)..Finished(t) : Stored(t, n)
    /\ Persisted(t) /\ Exists(run[t].sid) =>
          /\ Written(t, StepNumber(t)) /\ Newest(t)
          /\ pc[t] = "mark" => run[t].target = StepNumber(t)

StoredInv == \A t \in Runs : StepsStored(t)

(* The row a call marks is its own. *)
LEMMA MarksOwnRow ==
    ASSUME TypeInv, HandedOut, StepsInv, NEW t \in Runs, StepsStored(t), pc[t] = "mark",
           NEW r \in steps, Marked(t, r)
    PROVE  r.by = t
<1>1. r.sid = run[t].sid /\ r.sid \in Sessions
  BY DEF Marked, TypeInv, Typed, TypeOK, StepRow
<1>2. Exists(run[t].sid) /\ r.num = StepNumber(t)
  BY <1>1 DEF HandedOut, NoOrphanRows, StepsStored, Persisted, Marked
<1>3. PICK q \in steps : q.sid = run[t].sid /\ q.num = StepNumber(t) /\ q.by = t
  BY <1>2 DEF StepsStored, Persisted, Written
<1> QED BY <1>1, <1>2, <1>3 DEF StepsInv, StepNumbersContiguous

(* A row changes only when the call that wrote it completes it. *)
LEMMA RowStays ==
    ASSUME TypeInv, HandedOut, StepsInv, StoredInv, ~disturbed, [Next]_vars, NEW r \in steps, Exists(r.sid)'
    PROVE  \E q \in steps' :
              /\ q.sid = r.sid /\ q.num = r.num /\ q.by = r.by
              /\ q = r \/ (q.status = "completed" /\ q.out = {r.by})
<1>1. ASSUME r \in steps'
      PROVE  \E q \in steps' : /\ q.sid = r.sid /\ q.num = r.num /\ q.by = r.by
                               /\ q = r \/ (q.status = "completed" /\ q.out = {r.by})
  BY <1>1
<1>2. UNCHANGED steps \/ (\E o \in Runs : PersistStep(o)) => r \in steps'
  BY DEF PersistStep
<1>4. ASSUME NEW x \in Sessions, DeleteSession(x) PROVE r \in steps'
  <2>2. status'[x] = "deleted" /\ steps' = {p \in steps : p.sid # x}
    BY <1>4 DEF DeleteSession, TypeInv, Typed, TypeOK
  <2>3. r.sid # x
    BY <2>2 DEF Exists
  <2> QED BY <2>2, <2>3
<1>3. ASSUME NEW o \in Runs, MarkStep(o)
      PROVE  \E q \in steps' : /\ q.sid = r.sid /\ q.num = r.num /\ q.by = r.by
                               /\ q = r \/ (q.status = "completed" /\ q.out = {r.by})
  <2>1. steps' = {IF Marked(o, p) THEN Complete(o, p) ELSE p : p \in steps} /\ pc[o] = "mark"
    BY <1>3 DEF MarkStep
  <2>2. CASE ~Marked(o, r)
    BY <1>1, <2>1, <2>2
  <2>3. CASE Marked(o, r)
    <3>1. r.by = o
      BY <2>1, <2>3, MarksOwnRow DEF StoredInv
    <3>2. r \in StepRow
      BY DEF TypeInv, Typed, TypeOK
    <3>3. LET q == Complete(o, r) IN
          q.sid = r.sid /\ q.num = r.num /\ q.by = r.by /\ q.status = "completed" /\ q.out = {o}
      BY <3>2 DEF Complete, StepRow
    <3>4. Complete(o, r) \in steps'
      BY <2>1, <2>3
    <3> QED BY <3>1, <3>3, <3>4
  <2> QED BY <2>2, <2>3
<1> QED BY <1>1, <1>2, <1>3, <1>4, CalmTables

(* What a call has written and completed stays as long as its session. *)
LEMMA StoredStays ==
    ASSUME TypeInv, HandedOut, StepsInv, StoredInv, ~disturbed, [Next]_vars, NEW t \in Runs, NEW n,
           run'[t].sid = run[t].sid, Exists(run[t].sid)'
    PROVE  (Stored(t, n) => Stored(t, n)') /\ (Written(t, n) => Written(t, n)')
BY RowStays DEF Stored, Written

LEMMA SessionBefore ==
    ASSUME TypeInv, AloneInv, [Next]_vars, NEW t \in Runs, run[t].sid # NoSession,
           run'[t].sid = run[t].sid, Exists(run[t].sid)'
    PROVE  Exists(run[t].sid)
<1>1. run[t].sid \in Sessions
  <2>1. run[t] \in Locals
    BY DEF TypeInv, Typed, TypeOK
  <2>2. run[t].sid \in Sessions \cup {NoSession}
    BY <2>1 DEF Locals
  <2> QED BY <2>2
<1> QED BY <1>1, StatusMoves DEF AloneInv, SidsKnown, Exists

(* Each operation of a call keeps what is stored.                          *)
StoredContext == /\ TypeInv /\ TypeInv' /\ HandedOut /\ OwnerInv /\ StepsInv /\ AloneInv /\ StoredInv
                 /\ ~disturbed /\ [Next]_vars

LEMMA StoredUntilNow ==
    ASSUME StoredContext, NEW t \in Runs, run'[t].sid = run[t].sid,
           Live(t) \/ pc[t] = "completed", run[t].sid # NoSession, Exists(run[t].sid)'
    PROVE  \A n \in (run[t].base + 1)..Finished(t) : Stored(t, n)'
<1>1. Exists(run[t].sid)
  BY SessionBefore DEF StoredContext
<1> QED BY <1>1, StoredStays DEF StoredContext, StoredInv, StepsStored

LEMMA BeginStored ==
    ASSUME StoredContext, NEW t \in Runs,
           Start(t) \/ (\E s \in Sessions : CreateSession(t, s)) \/ ReadLatest(t)
    PROVE  StepsStored(t)'
<1>1. /\ run'[t].k = 1 /\ run'[t].base \in Nat
      /\ pc'[t] \in {"create", "load", "history", "count"}
  <2>1. CASE Start(t) \/ \E s \in Sessions : CreateSession(t, s)
    <3>1. pc[t] \in {"idle", "create"} => run[t].base = 0 /\ run[t].k = 1
      BY DEF StoredContext, StepsInv, StepsKnown, BeforeLoop
    <3> QED BY <2>1, <3>1, StartMoves, CreateMoves DEF StoredContext
  <2>2. CASE ReadLatest(t)
    BY <2>2, ReadLatestMoves DEF StoredContext
  <2> QED BY <2>1, <2>2
<1>2. Finished(t)' = run'[t].base
  BY <1>1 DEF Finished, StepNumber
<1> QED BY <1>1, <1>2 DEF StepsStored, Persisted

LEMMA PersistStored ==
    ASSUME StoredContext, NEW t \in Runs, PersistStep(t)
    PROVE  StepsStored(t)'
<1>0. /\ StepNumber(t) \in Nat /\ run[t].base \in Nat /\ run[t].k \in Nat /\ run[t].k > 0
      /\ \A r \in steps : r.num \in Nat
  BY ReachedType DEF StoredContext, TypeInv, Typed, TypeOK, StepRow, StepsInv, StepsKnown
<1>1. /\ pc[t] = "persist" /\ pc'[t] = "reread" /\ run' = run /\ steps' = steps \cup {NewStepRow(t)}
      /\ ~Duplicate(t) /\ run[t].sid # NoSession
  BY SessionAssumption DEF PersistStep, Goto, StoredContext, TypeInv, Typed, TypeOK, Awaits
<1>2. NewStepRow(t).sid = run[t].sid /\ NewStepRow(t).num = StepNumber(t) /\ NewStepRow(t).by = t
  BY DEF NewStepRow
<1>3. Finished(t)' = StepNumber(t) - 1 /\ Finished(t) = StepNumber(t) - 1
  BY <1>1 DEF Finished, StepNumber
<1>4. ASSUME Exists(run[t].sid)' PROVE \A n \in (run[t].base + 1)..Finished(t)' : Stored(t, n)'
  BY <1>1, <1>3, <1>4, StoredUntilNow DEF Live, Awaits
<1>5. Written(t, StepNumber(t))'
  BY <1>1, <1>2 DEF Written, StepNumber
<1>6. ASSUME NEW r \in steps, r.sid = run[t].sid PROVE r.num <= StepNumber(t)
  <2>1. SUFFICES ASSUME StepNumber(t) < r.num PROVE FALSE
    BY <1>0
  <2>2. StepNumber(t) \in 1..(r.num - 1)
    BY <1>0, <2>1 DEF StepNumber
  <2> QED BY <1>1, <1>6, <2>2 DEF StoredContext, StepsInv, StepNumbersContiguous, Duplicate
<1>7. Reached(t)' = StepNumber(t)
  BY <1>1 DEF Reached, StepNumber
<1>8. Newest(t)'
  BY <1>0, <1>1, <1>2, <1>6, <1>7 DEF Newest
<1>9. run'[t].base = run[t].base /\ run'[t].sid = run[t].sid /\ StepNumber(t)' = StepNumber(t)
  BY <1>1 DEF StepNumber
<1> QED BY <1>1, <1>4, <1>5, <1>8, <1>9 DEF StepsStored

LEMMA MarkStored ==
    ASSUME StoredContext, NEW t \in Runs, MarkStep(t)
    PROVE  StepsStored(t)'
<1>0. /\ StepNumber(t) \in Nat /\ run[t].base \in Nat /\ run[t].k \in Nat
  BY ReachedType DEF StoredContext
<1>1. /\ pc[t] = "mark" /\ run'[t].sid = run[t].sid /\ run'[t].base = run[t].base
      /\ \/ pc'[t] = "history" /\ run'[t].k = run[t].k + 1
         \/ pc'[t] \in {"close", "failed"} /\ run'[t].k = run[t].k
  BY MarkGoesOn DEF StoredContext
<1>2. Finished(t) = StepNumber(t) - 1 /\ (pc'[t] # "failed" => Finished(t)' = StepNumber(t))
  BY <1>0, <1>1 DEF Finished, StepNumber
<1>3. SUFFICES ASSUME pc'[t] # "failed", run[t].sid # NoSession, Exists(run[t].sid)',
                      NEW n \in (run[t].base + 1)..StepNumber(t)
               PROVE  Stored(t, n)'
  BY <1>1, <1>2 DEF StepsStored, Persisted, Live, Awaits
<1>4. CASE n # StepNumber(t)
  <2>1. n \in (run[t].base + 1)..Finished(t)
    BY <1>0, <1>2, <1>4
  <2> QED BY <1>1, <1>3, <2>1, StoredUntilNow DEF Live, Awaits
<1>5. CASE n = StepNumber(t)
  <2>1. Written(t, n) /\ run[t].target = n
    BY <1>1, <1>3, <1>5, SessionBefore DEF StoredContext, StoredInv, StepsStored, Persisted
  <2>2. PICK r \in steps : r.sid = run[t].sid /\ r.num = n /\ r.by = t
    BY <2>1 DEF Written
  <2>3. r.user = run[t].user
    BY <1>1, <2>2, OwnRows DEF StoredContext, Awaits
  <2>4. Complete(t, r) \in steps'
    BY <2>1, <2>2, <2>3 DEF MarkStep, Marked
  <2>5. r \in StepRow
    BY DEF StoredContext, TypeInv, Typed, TypeOK
  <2>6. LET q == Complete(t, r) IN
        q.sid = r.sid /\ q.num = r.num /\ q.by = r.by /\ q.status = "completed" /\ q.out = {t}
    BY <2>5 DEF Complete, StepRow
  <2> QED BY <1>1, <2>2, <2>4, <2>6 DEF Stored
<1> QED BY <1>4, <1>5

(* The id the final branch takes is the one of the step it has persisted. *)
LEMMA TargetIsOwn ==
    ASSUME StoredContext, NEW t \in Runs, RereadStep(t) \/ ReadLastStep(t), pc'[t] = "mark",
           Exists(run[t].sid)
    PROVE  run'[t].target = StepNumber(t)
<1>0. run \in [Runs -> Locals] /\ run[t] \in Locals /\ pc \in [Runs -> {"idle"} \cup Awaits \cup Ended]
      /\ StepNumber(t) \in Nat
  BY ReachedType DEF StoredContext, TypeInv, Typed, TypeOK
<1>1. CASE RereadStep(t)
  <2>1. run'[t] = [run[t] EXCEPT !.target = StepNumber(t)]
    BY <1>0, <1>1 DEF RereadStep, Locally
  <2> QED BY <1>0, <2>1 DEF Locals
<1>2. CASE ReadLastStep(t)
  <2> DEFINE rows == StepsOf(run[t].sid, run[t].user)
             l == LatestNumber(rows)
  <2>1. run'[t] = [run[t] EXCEPT !.target = l] /\ pc[t] = "lastStep" /\ rows # {}
    BY <1>0, <1>2 DEF ReadLastStep, Locally, Goto
  <2>2. /\ l \in Nat /\ \A r \in steps : r.sid = run[t].sid => r.num <= l
        /\ \E r \in steps : r.sid = run[t].sid /\ r.num = l
    BY <2>1, LatestOfSession DEF StoredContext, Awaits
  <2>3. Written(t, StepNumber(t)) /\ Newest(t) /\ Reached(t) = StepNumber(t)
    BY <2>1 DEF StoredContext, StoredInv, StepsStored, Persisted, Reached
  <2> HIDE DEF l
  <2>4. l <= StepNumber(t) /\ StepNumber(t) <= l
    BY <2>2, <2>3 DEF Newest, Written
  <2>5. run'[t].target = l
    BY <1>0, <2>1 DEF Locals
  <2> QED BY <1>0, <2>2, <2>4, <2>5
<1> QED BY <1>1, <1>2

LEMMA WalkStored ==
    ASSUME StoredContext, NEW t \in Runs, Walks(t)
    PROVE  StepsStored(t)'
<1>0. /\ StepNumber(t) \in Nat /\ run[t].base \in Nat /\ run[t].k \in Nat /\ Reached(t) \in Int
  BY ReachedType DEF StoredContext
<1>1. /\ Live(t) /\ pc[t] # "create" /\ run'[t].sid = run[t].sid
      /\ run'[t].base = run[t].base /\ run'[t].k = run[t].k
      /\ pc'[t] \in {"reread", "lastStep", "mark"} => RereadStep(t) \/ ReadLastStep(t)
      /\ pc'[t] \in {"close", "completed"} => pc[t] = "close"
  BY WalkMoves DEF StoredContext
<1>2. StepNumber(t)' = StepNumber(t)
  BY <1>1 DEF StepNumber
<1>3. run[t].sid # NoSession
  BY <1>1, SessionAssumption DEF StoredContext, TypeInv, Typed, TypeOK, Live
<1>4. ASSUME Exists(run[t].sid)' PROVE \A n \in (run[t].base + 1)..Finished(t)' : Stored(t, n)'
  <2>1. Finished(t)' = Finished(t) \/ Finished(t)' = Finished(t) - 1
    BY <1>0, <1>1, <1>2 DEF Finished
  <2>2. Finished(t) \in Int
    BY <1>0 DEF Finished
  <2>3. \A n \in (run[t].base + 1)..Finished(t)' : n \in (run[t].base + 1)..Finished(t)
    BY <1>0, <2>1, <2>2
  <2> QED BY <1>1, <1>3, <1>4, <2>3, StoredUntilNow
<1>5. ASSUME Persisted(t)', Exists(run[t].sid)'
      PROVE  /\ Written(t, StepNumber(t))' /\ Newest(t)'
             /\ pc'[t] = "mark" => run'[t].target = StepNumber(t)
  <2>1. Persisted(t) /\ Reached(t)' = StepNumber(t) /\ Reached(t) = StepNumber(t)
    BY <1>1, <1>2, <1>5 DEF Persisted, RereadStep, ReadLastStep, Reached
  <2>2. Exists(run[t].sid)
    BY <1>1, <1>3, <1>5, SessionBefore DEF StoredContext
  <2>3. Written(t, StepNumber(t)) /\ Newest(t)
    BY <2>1, <2>2 DEF StoredContext, StoredInv, StepsStored
  <2>4. Written(t, StepNumber(t))'
    BY <1>1, <1>2, <1>5, <2>3, StoredStays DEF StoredContext, Written
  <2>5. Newest(t)'
    BY <1>0, <1>1, <2>1, <2>3, NewestStays DEF StoredContext, Walks
  <2>6. pc'[t] = "mark" => run'[t].target = StepNumber(t)
    BY <1>1, <2>2, TargetIsOwn
  <2> QED BY <2>4, <2>5, <2>6
<1> QED BY <1>1, <1>2, <1>4, <1>5 DEF StepsStored, Persisted

LEMMA StoredInvariant == ASSUME Exclusive PROVE Spec => [](disturbed \/ StoredInv)
<1>1. Init => StoredInv
  BY DEF Init, StoredInv, StepsStored, Persisted, Live, Awaits
<1>2. StoredContext => StoredInv'
  <2> SUFFICES ASSUME StoredContext, NEW t \in Runs PROVE StepsStored(t)'
    BY DEF StoredInv
  <2>1. CASE Start(t) \/ (\E s \in Sessions : CreateSession(t, s)) \/ ReadLatest(t)
    BY <2>1, BeginStored
  <2>2. CASE PersistStep(t)
    BY <2>2, PersistStored
  <2>3. CASE MarkStep(t)
    BY <2>3, MarkStored
  <2>4. CASE Walks(t)
    BY <2>4, WalkStored
  <2>5. CASE Cut(t)
    BY <2>5 DEF Cut, StepsStored, Persisted, Live, Awaits
  <2>6. CASE pc'[t] = pc[t] /\ run'[t] = run[t] /\ ~PersistStep(t)
    <3>1. Finished(t)' = Finished(t) /\ Reached(t)' = Reached(t) /\ StepNumber(t)' = StepNumber(t)
          /\ (Live(t)' <=> Live(t)) /\ (Persisted(t)' <=> Persisted(t)) /\ Reached(t) \in Int
      BY <2>6, ReachedType DEF Finished, Reached, StepNumber, Live, Persisted, StoredContext
    <3>2. ASSUME Persisted(t), Exists(run[t].sid)'
          PROVE  /\ Written(t, StepNumber(t))' /\ Newest(t)'
                 /\ pc[t] = "mark" => run[t].target = StepNumber(t)
      <4>1. Live(t) /\ pc[t] # "create" /\ run[t].sid # NoSession
        BY <3>2, SessionAssumption DEF Persisted, Live, Awaits, StoredContext, TypeInv, Typed, TypeOK
      <4>2. /\ Written(t, StepNumber(t)) /\ Newest(t)
            /\ pc[t] = "mark" => run[t].target = StepNumber(t)
        BY <2>6, <3>2, <4>1, SessionBefore DEF StoredContext, StoredInv, StepsStored
      <4>3. Written(t, StepNumber(t))'
        BY <2>6, <3>1, <3>2, <4>2, StoredStays DEF StoredContext, Written
      <4> QED BY <2>6, <3>1, <4>1, <4>2, <4>3, NewestStays DEF StoredContext
    <3> QED BY <2>6, <3>1, <3>2, StoredUntilNow DEF StepsStored
  <2>7. PersistStep(t) \/ MarkStep(t) \/ ReadLatest(t) \/ (\E s \in Sessions : CreateSession(t, s))
        \/ Walks(t) \/ Start(t) \/ Cut(t) \/ (pc'[t] = pc[t] /\ run'[t] = run[t] /\ ~PersistStep(t))
    BY CallCases DEF StoredContext, Walks
  <2> QED BY <2>1, <2>2, <2>3, <2>4, <2>5, <2>6, <2>7
<1>3. [Next]_vars /\ disturbed => disturbed'
  BY DisturbedStays
<1> QED BY <1>1, <1>2, <1>3, TypeInvariant, HandedOutInvariant, OwnerInvariant, StepsInvariant,
           AloneInvariant, PTL DEF Spec, StoredContext

(* A call that returned COMPLETED left every step it took in the table,    *)
(* completed and with its own output, if callers run a session one call at *)
(* a time and no connection was left in a transaction.                     *)
THEOREM CompletedCallsStayDurable == ASSUME Exclusive PROVE Spec => []CompletedCallIsDurable
<1>1. TypeInv /\ AloneInv /\ (disturbed \/ StoredInv) => CompletedCallIsDurable
  <2> SUFFICES ASSUME TypeInv, AloneInv, StoredInv, NEW t \in Runs, pc[t] = "completed", Exists(run[t].sid),
                      NEW n \in (run[t].base + 1)..StepNumber(t)
               PROVE  Stored(t, n)
    BY DEF CompletedCallIsDurable, Stored
  <2>1. run[t].sid # NoSession
    BY DEF AloneInv, SidsKnown
  <2> QED BY <2>1 DEF StoredInv, StepsStored, Finished
<1> QED BY <1>1, TypeInvariant, AloneInvariant, StoredInvariant, PTL

-----------------------------------------------------------------------------
(* The messages the LLM is given.  In a session whose calls run one after  *)
(* the other and were not cut short, ordinals are places; every request    *)
(* for tool calls is answered right behind it, except the one the call in  *)
(* progress is about to answer.                                            *)

(* Where a call is in the messages it appends: it counts them from 1 in    *)
(* each phase, and it starts with the phase of its input.                  *)
Phased(t) ==
    /\ BeforeLoop(t) => run[t].phase = "input" /\ run[t].next = 1
    /\ pc[t] \in {"history", "llm", "tools"} => run[t].next = 1
    /\ pc[t] \in {"count", "insert"} => run[t].next \in 1..PhaseSize(t)
    /\ pc[t] = "tools" => run[t].calls > 0
    /\ pc[t] \in {"persist", "reread", "lastStep", "mark", "close"} => run[t].next = 1

LEMMA InsertMoves ==
    ASSUME TypeInv, NEW t \in Runs, InsertMessage(t)
    PROVE  /\ pc[t] = "insert" /\ run'[t].sid = run[t].sid /\ run'[t].phase = run[t].phase
           /\ run'[t].inputs = run[t].inputs /\ run'[t].calls = run[t].calls
           /\ run[t].next < PhaseSize(t) => pc'[t] = "count" /\ run'[t].next = run[t].next + 1
           /\ ~(run[t].next < PhaseSize(t)) => pc'[t] = AfterPhase(t) /\ run'[t].next = 1
<1>0. pc \in [Runs -> {"idle"} \cup Awaits \cup Ended] /\ run \in [Runs -> Locals] /\ run[t] \in Locals
  BY DEF TypeInv, Typed, TypeOK
<1>1. CASE run[t].next < PhaseSize(t)
  <2>1. /\ run'[t] = [run[t] EXCEPT !.count = 0, !.next = @ + 1]
        /\ pc[t] = "insert" /\ pc'[t] = "count"
    BY <1>0, <1>1 DEF InsertMessage, Locally, Goto
  <2> QED BY <1>0, <1>1, <2>1 DEF Locals
<1>2. CASE ~(run[t].next < PhaseSize(t))
  <2>1. /\ run'[t] = [run[t] EXCEPT !.count = 0, !.next = 1]
        /\ pc[t] = "insert" /\ pc'[t] = AfterPhase(t)
    BY <1>0, <1>2 DEF InsertMessage, Locally, Goto
  <2> QED BY <1>0, <1>2, <2>1 DEF Locals
<1> QED BY <1>1, <1>2

LEMMA AnswerMoves ==
    ASSUME TypeInv, NEW t \in Runs, NEW n \in 0..MaxCalls, LLMAnswers(t, n)
    PROVE  /\ pc[t] = "llm" /\ pc'[t] = "count" /\ run'[t].sid = run[t].sid
           /\ run'[t].phase = "assistant" /\ run'[t].next = run[t].next
<1>0. pc \in [Runs -> {"idle"} \cup Awaits \cup Ended] /\ run \in [Runs -> Locals] /\ run[t] \in Locals
  BY DEF TypeInv, Typed, TypeOK
<1>1. /\ run'[t] = [run[t] EXCEPT !.phase = "assistant", !.calls = n, !.results = <<>>, !.prompt = {}]
      /\ pc[t] = "llm" /\ pc'[t] = "count"
  BY <1>0 DEF LLMAnswers, Locally, Goto
<1> QED BY <1>0, <1>1 DEF Locals

LEMMA ToolMoves ==
    ASSUME TypeInv, NEW t \in Runs, NEW o \in Outcomes, ExecuteTool(t, o)
    PROVE  /\ pc[t] = "tools" /\ run'[t].sid = run[t].sid /\ run'[t].next = run[t].next
           /\ run'[t].calls = run[t].calls
           /\ pc'[t] = "tools" \/ (pc'[t] = "count" /\ run'[t].phase = "tool")
<1>0. pc \in [Runs -> {"idle"} \cup Awaits \cup Ended] /\ run \in [Runs -> Locals] /\ run[t] \in Locals
  BY DEF TypeInv, Typed, TypeOK
<1> DEFINE r == Append(run[t].results, o)
<1>1. pc[t] = "tools" /\ \/ run' = [run EXCEPT ![t] = [run[t] EXCEPT !.results = r]] /\ pc' = pc
                         \/ /\ run' = [run EXCEPT ![t] = [run[t] EXCEPT !.results = r, !.phase = "tool"]]
                            /\ pc' = [pc EXCEPT ![t] = "count"]
  BY DEF ExecuteTool, Locally, Goto
<1> HIDE DEF r
<1>2. \/ run'[t] = [run[t] EXCEPT !.results = r] /\ pc'[t] = "tools"
      \/ run'[t] = [run[t] EXCEPT !.results = r, !.phase = "tool"] /\ pc'[t] = "count"
  BY <1>0, <1>1
<1> QED BY <1>0, <1>1, <1>2 DEF Locals

(* The steps of a call that append nothing and do not think: they leave    *)
(* the place among its messages alone.                                     *)
Minds(t) == \/ LoadSession(t) \/ Unpause(t) \/ ReadLatest(t) \/ EncodeFails(t) \/ CountMessages(t)
            \/ InsertFails(t) \/ ReadHistory(t) \/ LLMFails(t)
            \/ PersistStep(t) \/ PersistFails(t) \/ RereadStep(t)
            \/ ReadLastStep(t) \/ MarkStep(t) \/ CloseSession(t)

LEMMA MindMoves ==
    ASSUME TypeInv, NEW t \in Runs, Minds(t)
    PROVE  /\ run'[t].sid = run[t].sid /\ run'[t].phase = run[t].phase /\ run'[t].next = run[t].next
           /\ run'[t].inputs = run[t].inputs /\ run'[t].calls = run[t].calls
           /\ \/ pc[t] \in {"load", "unpause", "latest"}
                   /\ pc'[t] \in {"unpause", "latest", "raised", "notFound", AfterSetup(t)}
              \/ pc[t] = "count" /\ pc'[t] = "insert" /\ CountMessages(t)
              \/ pc[t] = "history" /\ pc'[t] = "llm" /\ ReadHistory(t)
              \/ pc[t] = "llm" /\ pc'[t] = "failed"
              \/ pc[t] \in {"count", "insert", "persist", "reread", "lastStep"} /\ pc'[t] = "raised"
              \/ pc[t] \in {"persist", "reread", "lastStep", "mark", "close"}
                   /\ pc'[t] \in {"reread", "lastStep", "mark", "history", "close", "failed", "completed"}
<1>0. pc \in [Runs -> {"idle"} \cup Awaits \cup Ended] /\ run \in [Runs -> Locals] /\ run[t] \in Locals
  BY DEF TypeInv, Typed, TypeOK
<1> DEFINE Same == /\ run'[t].sid = run[t].sid /\ run'[t].phase = run[t].phase /\ run'[t].next = run[t].next
                   /\ run'[t].inputs = run[t].inputs /\ run'[t].calls = run[t].calls
<1>1. CASE LoadSession(t) \/ Unpause(t)
  BY <1>0, <1>1 DEF LoadSession, Unpause, Goto
<1>2. CASE EncodeFails(t) \/ InsertFails(t) \/ LLMFails(t) \/ PersistStep(t) \/ PersistFails(t) \/ CloseSession(t)
  BY <1>0, <1>2 DEF EncodeFails, InsertFails, LLMFails, PersistStep, PersistFails, CloseSession, Goto
<1>3. CASE ReadLatest(t)
  <2>1. PICK l : run'[t] = [run[t] EXCEPT !.base = l]
    BY <1>0, <1>3 DEF ReadLatest, Locally
  <2>2. pc[t] = "latest" /\ pc'[t] = AfterSetup(t)
    BY <1>0, <1>3 DEF ReadLatest, Goto
  <2> QED BY <1>0, <2>1, <2>2 DEF Locals
<1>4. CASE CountMessages(t)
  <2>1. PICK l : run'[t] = [run[t] EXCEPT !.count = l]
    BY <1>0, <1>4 DEF CountMessages, Locally
  <2>2. pc[t] = "count" /\ pc'[t] = "insert"
    BY <1>0, <1>4 DEF CountMessages, Goto
  <2> QED BY <1>0, <1>4, <2>1, <2>2 DEF Locals
<1>5. CASE ReadHistory(t)
  <2>1. PICK l : run'[t] = [run[t] EXCEPT !.prompt = l]
    BY <1>0, <1>5 DEF ReadHistory, Locally
  <2>2. pc[t] = "history" /\ pc'[t] = "llm"
    BY <1>0, <1>5 DEF ReadHistory, Goto
  <2> QED BY <1>0, <1>5, <2>1, <2>2 DEF Locals
<1>6. CASE RereadStep(t) \/ ReadLastStep(t)
  <2>1. PICK l : run'[t] = [run[t] EXCEPT !.target = l]
    BY <1>0, <1>6 DEF RereadStep, ReadLastStep, Locally
  <2>2. pc[t] \in {"reread", "lastStep"} /\ pc'[t] \in {"lastStep", "mark", "raised"}
    BY <1>0, <1>6 DEF RereadStep, ReadLastStep, Goto
  <2> QED BY <1>0, <2>1, <2>2 DEF Locals
<1>7. CASE MarkStep(t)
  <2>1. run'[t] = run[t] \/ run'[t] = [run[t] EXCEPT !.k = @ + 1]
    BY <1>0, <1>7 DEF MarkStep, Locally
  <2>2. Same
    BY <1>0, <2>1 DEF Locals
  <2> QED BY <1>7, <2>2, MarkGoesOn
<1> QED BY <1>1, <1>2, <1>3, <1>4, <1>5, <1>6, <1>7 DEF Minds

LEMMA ProceedCases ==
    ASSUME NEW t \in Runs, Proceed(t)
    PROVE  \/ \E s \in Sessions : CreateSession(t, s)
           \/ Minds(t) \/ InsertMessage(t)
           \/ \E n \in 0..MaxCalls : LLMAnswers(t, n)
           \/ \E o \in Outcomes : ExecuteTool(t, o)
BY DEF Proceed, Minds

LEMMA PhasedInvariant == Spec => [](\A t \in Runs : Phased(t))
<1> DEFINE Inv == \A t \in Runs : Phased(t)
<1>1. Init => Inv
  BY DEF Init, Phased, BeforeLoop
<1>2. TypeInv /\ Inv /\ StepsInv /\ [Next]_vars => Inv'
  <2> SUFFICES ASSUME TypeInv, StepsInv, [Next]_vars, NEW t \in Runs, Phased(t) PROVE Phased(t)'
    OBVIOUS
  <2>0. run[t].phase \in Roles /\ run[t].next \in Nat /\ run[t].calls \in Nat /\ run[t].inputs \in Nat
    <3>1. run[t] \in Locals
      BY DEF TypeInv, Typed, TypeOK
    <3> QED BY <3>1 DEF Locals
  <2>1. CASE pc'[t] = pc[t] /\ run'[t] = run[t]
    BY <2>1 DEF Phased, BeforeLoop, PhaseSize
  <2>2. CASE Start(t) \/ Cut(t)
    BY <2>2, StartMoves DEF Cut, Phased, BeforeLoop
  <2>3. CASE \E s \in Sessions : CreateSession(t, s)
    BY <2>3, CreateMoves DEF Phased, BeforeLoop
  <2>4. CASE Minds(t)
    <3>1. AfterSetup(t) \in {"history", "count"} /\ (AfterSetup(t) = "count" => run[t].inputs # 0)
      BY DEF AfterSetup
    <3>2. PhaseSize(t)' = PhaseSize(t) /\ (run[t].phase = "input" => PhaseSize(t) = run[t].inputs)
      BY <2>4, MindMoves DEF PhaseSize
    <3>3. run'[t].phase = run[t].phase /\ run'[t].next = run[t].next
      BY <2>4, MindMoves
    <3>4. CASE /\ pc[t] \in {"load", "unpause", "latest"}
               /\ pc'[t] \in {"unpause", "latest", "raised", "notFound", AfterSetup(t)}
      <4>1. run[t].phase = "input" /\ run[t].next = 1
        BY <3>4 DEF Phased, BeforeLoop
      <4>2. pc'[t] \in {"unpause", "latest", "raised", "notFound", "history"}
            \/ (pc'[t] = "count" /\ run[t].inputs # 0)
        BY <3>1, <3>4
      <4> QED BY <2>0, <3>2, <3>3, <4>1, <4>2 DEF Phased, BeforeLoop
    <3>5. CASE pc[t] = "count" /\ pc'[t] = "insert"
      BY <3>2, <3>3, <3>5 DEF Phased, BeforeLoop
    <3>6. CASE /\ pc[t] \in {"history", "persist", "reread", "lastStep", "mark", "close"}
               /\ pc'[t] \in {"llm", "reread", "lastStep", "mark", "history", "close", "failed", "completed"}
      <4>1. run[t].next = 1
        BY <3>6 DEF Phased
      <4> QED BY <3>3, <3>6, <4>1 DEF Phased, BeforeLoop
    <3>7. CASE pc'[t] \in {"raised", "failed"}
      BY <3>7 DEF Phased, BeforeLoop
    <3> QED BY <2>4, <3>4, <3>5, <3>6, <3>7, MindMoves
  <2>5. CASE InsertMessage(t)
    <3>1. PhaseSize(t)' = PhaseSize(t) /\ PhaseSize(t) \in Nat
      BY <2>0, <2>5, InsertMoves DEF PhaseSize, Roles
    <3>2. AfterPhase(t) \in {"history", "tools", "persist"} /\ (AfterPhase(t) = "tools" => run[t].calls # 0)
      BY <2>0 DEF AfterPhase, Roles
    <3> QED BY <2>0, <2>5, <3>1, <3>2, InsertMoves DEF Phased, BeforeLoop
  <2>6. CASE \E n \in 0..MaxCalls : LLMAnswers(t, n)
    <3>1. /\ pc[t] = "llm" /\ pc'[t] = "count" /\ run'[t].phase = "assistant" /\ run'[t].next = 1
      BY <2>6, AnswerMoves DEF Phased
    <3>2. PhaseSize(t)' = 1
      BY <3>1 DEF PhaseSize
    <3> QED BY <3>1, <3>2 DEF Phased, BeforeLoop
  <2>7. CASE \E o \in Outcomes : ExecuteTool(t, o)
    <3>1. /\ run'[t].next = 1 /\ run'[t].calls = run[t].calls /\ run[t].calls > 0
          /\ pc'[t] = "tools" \/ (pc'[t] = "count" /\ run'[t].phase = "tool")
      BY <2>7, ToolMoves DEF Phased
    <3>2. pc'[t] = "count" => PhaseSize(t)' = run[t].calls
      BY <3>1 DEF PhaseSize
    <3> QED BY <2>0, <3>1, <3>2 DEF Phased, BeforeLoop
  <2> QED BY <2>1, <2>2, <2>3, <2>4, <2>5, <2>6, <2>7, CallCases, ProceedCases
<1> QED BY <1>1, <1>2, TypeInvariant, StepsInvariant, PTL DEF Spec

(* Ordinals are places when nobody appends between a count and its insert. *)
OrdinalsArePlaces == \A s \in Sessions : \A i \in DOMAIN messages[s] : messages[s][i].ordinal = i

PlacesCounted(t) ==
    Exists(run[t].sid) =>
        LET m == messages[run[t].sid] IN
        /\ pc[t] = "insert" => run[t].count = Len(m)
        /\ pc[t] = "llm" /\ Len(m) <= HistoryLimit => run[t].prompt = DOMAIN m

PlacesInv == OrdinalsArePlaces /\ \A t \in Runs : PlacesCounted(t)

LEMMA RankIsPlace ==
    ASSUME TypeInv, OrdinalsArePlaces, NEW s \in Sessions
    PROVE  /\ Len(messages[s]) \in Nat /\ DOMAIN messages[s] = 1..Len(messages[s])
           /\ \A i \in DOMAIN messages[s] : Rank(s, i) = i - 1
<1>1. Len(messages[s]) \in Nat /\ DOMAIN messages[s] = 1..Len(messages[s])
  BY DEF TypeInv, Typed, TypeOK
<1> SUFFICES ASSUME NEW i \in DOMAIN messages[s] PROVE Rank(s, i) = i - 1
  BY <1>1
<1>2. i \in Nat /\ i - 1 \in Int /\ i > 0 /\ i <= Len(messages[s])
  BY <1>1
<1>3. ASSUME NEW j \in DOMAIN messages[s] PROVE Precedes(s, j, i) <=> j < i
  BY <1>1 DEF Precedes, OrdinalsArePlaces
<1>4. {j \in DOMAIN messages[s] : Precedes(s, j, i)} = 1..(i - 1)
  <2>1. {j \in DOMAIN messages[s] : Precedes(s, j, i)} = {j \in DOMAIN messages[s] : j < i}
    BY <1>3
  <2>2. {j \in 1..Len(messages[s]) : j < i} = 1..(i - 1)
    BY <1>1, <1>2
  <2> QED BY <1>1, <2>1, <2>2
<1>5. Cardinality(1..(i - 1)) = i - 1
  BY <1>2, FS_Interval
<1> QED BY <1>4, <1>5 DEF Rank

(* Within its limit, the history is all of the session's messages. *)
LEMMA HistoryIsAll ==
    ASSUME TypeInv, OrdinalsArePlaces, NEW s \in Sessions, Len(messages[s]) <= HistoryLimit
    PROVE  History(s) = DOMAIN messages[s]
<1>1. \A i \in DOMAIN messages[s] : Rank(s, i) < HistoryLimit
  BY RankIsPlace, BoundAssumption
<1> QED BY <1>1 DEF History

(* Only the call itself appends to the session it has to itself. *)
LEMMA MessagesAlone ==
    ASSUME TypeInv, AloneInv, ~disturbed, [Next]_vars, NEW t \in Runs, Live(t), pc[t] # "create",
           ~InsertMessage(t), run'[t].sid = run[t].sid, Exists(run[t].sid)'
    PROVE  messages'[run[t].sid] = messages[run[t].sid]
<1>1. run[t].sid \in Sessions /\ run[t].sid # NoSession
  BY SessionAssumption DEF TypeInv, Typed, TypeOK, Live
<1>2. ASSUME NEW o \in Runs, InsertMessage(o) PROVE messages'[run[t].sid] = messages[run[t].sid]
  <2>1. o # t /\ Live(o)
    BY <1>2 DEF InsertMessage, Live, Awaits
  <2>2. run[o].sid # run[t].sid
    BY <1>1, <2>1 DEF AloneInv, AloneOnSession
  <2> QED BY <1>1, <1>2, <2>2, InsertAppends
<1>3. ASSUME NEW x \in Sessions, DeleteSession(x) PROVE messages'[run[t].sid] = messages[run[t].sid]
  <2>1. status'[x] = "deleted" /\ messages' = [messages EXCEPT ![x] = <<>>]
    BY <1>3 DEF DeleteSession, TypeInv, Typed, TypeOK
  <2>2. run[t].sid # x
    BY <2>1 DEF Exists
  <2> QED BY <1>1, <2>1, <2>2 DEF TypeInv, Typed, TypeOK
<1> QED BY <1>2, <1>3, CalmTables

LEMMA CountsMoves ==
    ASSUME TypeInv, NEW t \in Runs, CountMessages(t)
    PROVE  /\ messages' = messages /\ run'[t].sid = run[t].sid /\ pc'[t] = "insert"
           /\ run'[t].count = Len(messages[run[t].sid])
<1>0. pc \in [Runs -> {"idle"} \cup Awaits \cup Ended] /\ run \in [Runs -> Locals] /\ run[t] \in Locals
  BY DEF TypeInv, Typed, TypeOK
<1>1. /\ run'[t] = [run[t] EXCEPT !.count = CountedRows(run[t].sid)] /\ pc'[t] = "insert"
      /\ messages' = messages
  BY <1>0 DEF CountMessages, Locally, Goto, UnchangedTables
<1> QED BY <1>0, <1>1 DEF Locals, CountedRows

LEMMA ReadMoves ==
    ASSUME TypeInv, NEW t \in Runs, ReadHistory(t)
    PROVE  /\ messages' = messages /\ run'[t].sid = run[t].sid /\ pc'[t] = "llm"
           /\ run[t].sid \in Sessions /\ run'[t].prompt = History(run[t].sid)
<1>0. pc \in [Runs -> {"idle"} \cup Awaits \cup Ended] /\ run \in [Runs -> Locals] /\ run[t] \in Locals
  BY DEF TypeInv, Typed, TypeOK
<1>1. /\ run'[t] = [run[t] EXCEPT !.prompt = History(run[t].sid)] /\ pc'[t] = "llm"
      /\ messages' = messages /\ pc[t] = "history"
  BY <1>0 DEF ReadHistory, Locally, Goto, UnchangedTables
<1>2. run[t].sid \in Sessions
  BY <1>1 DEF TypeInv, Typed, TypeOK, Awaits
<1> QED BY <1>0, <1>1, <1>2 DEF Locals

(* What brings a call to its insert, and to the LLM. *)
LEMMA ComesToAct ==
    ASSUME TypeInv, [Next]_vars, NEW t \in Runs, pc'[t] \in {"insert", "llm"}
    PROVE  \/ pc'[t] = pc[t] /\ run'[t] = run[t] /\ ~InsertMessage(t)
           \/ CountMessages(t) \/ ReadHistory(t)
<1>1. ~Start(t) /\ ~Cut(t) /\ ~(\E s \in Sessions : CreateSession(t, s))
  BY StartMoves, CreateMoves DEF Cut
<1>2. ~InsertMessage(t)
  <2>1. run[t].phase \in Roles
    BY DEF TypeInv, Typed, TypeOK, Locals
  <2> QED BY <2>1, InsertMoves DEF AfterPhase, Roles
<1>3. ~(\E n \in 0..MaxCalls : LLMAnswers(t, n)) /\ ~(\E o \in Outcomes : ExecuteTool(t, o))
  BY AnswerMoves, ToolMoves
<1>4. Minds(t) => CountMessages(t) \/ ReadHistory(t)
  BY MindMoves DEF AfterSetup
<1> QED BY <1>1, <1>2, <1>3, <1>4, CallCases, ProceedCases

LEMMA PlacesInvariant == ASSUME Exclusive PROVE Spec => [](disturbed \/ PlacesInv)
<1>1. Init => PlacesInv
  BY DEF Init, PlacesInv, OrdinalsArePlaces, PlacesCounted, Exists
<1>2. TypeInv /\ AloneInv /\ PlacesInv /\ ~disturbed /\ [Next]_vars => PlacesInv'
  <2> SUFFICES ASSUME TypeInv, AloneInv, PlacesInv, ~disturbed, [Next]_vars PROVE PlacesInv'
    OBVIOUS
  <2>1. OrdinalsArePlaces'
    <3>1. ASSUME NEW t \in Runs, InsertMessage(t) PROVE OrdinalsArePlaces'
      <4> DEFINE s == run[t].sid
      <4>1. /\ s \in Sessions /\ Exists(s) /\ pc[t] = "insert" /\ Len(messages[s]) \in Nat
            /\ DOMAIN messages[s] = 1..Len(messages[s])
            /\ DOMAIN messages'[s] = 1..(Len(messages[s]) + 1)
            /\ \A i \in 1..Len(messages[s]) : messages'[s][i] = messages[s][i]
            /\ messages'[s][Len(messages[s]) + 1] = NewMessage(t)
            /\ \A x \in Sessions \ {s} : messages'[x] = messages[x]
        BY <3>1, InsertAppends
      <4>2. NewMessage(t).ordinal = Len(messages[s]) + 1
        BY <4>1 DEF NewMessage, NewOrdinal, PlacesInv, PlacesCounted
      <4> HIDE DEF s
      <4>3. \A i \in DOMAIN messages'[s] : messages'[s][i].ordinal = i
        BY <4>1, <4>2 DEF PlacesInv, OrdinalsArePlaces
      <4> QED BY <4>1, <4>3 DEF PlacesInv, OrdinalsArePlaces
    <3>2. ASSUME NEW x \in Sessions, DeleteSession(x) PROVE OrdinalsArePlaces'
      BY <3>2 DEF DeleteSession, TypeInv, Typed, TypeOK, PlacesInv, OrdinalsArePlaces
    <3>3. CASE UNCHANGED messages
      BY <3>3 DEF PlacesInv, OrdinalsArePlaces
    <3> QED BY <3>1, <3>2, <3>3, CalmTables
  <2>2. ASSUME NEW t \in Runs PROVE PlacesCounted(t)'
    <3>1. SUFFICES ASSUME Exists(run[t].sid)', pc'[t] \in {"insert", "llm"}
                   PROVE  LET m == messages'[run'[t].sid] IN
                          /\ pc'[t] = "insert" => run'[t].count = Len(m)
                          /\ pc'[t] = "llm" /\ Len(m) <= HistoryLimit => run'[t].prompt = DOMAIN m
      BY DEF PlacesCounted
    <3>2. CASE pc'[t] = pc[t] /\ run'[t] = run[t] /\ ~InsertMessage(t)
      <4>1. Live(t) /\ pc[t] # "create" /\ run[t].sid # NoSession
        BY <3>1, <3>2, SessionAssumption DEF Live, Awaits, TypeInv, Typed, TypeOK
      <4>2. Exists(run[t].sid)
        BY <3>1, <3>2, <4>1, SessionBefore
      <4>3. messages'[run[t].sid] = messages[run[t].sid]
        BY <3>1, <3>2, <4>1, MessagesAlone
      <4> QED BY <3>2, <4>2, <4>3 DEF PlacesInv, PlacesCounted
    <3>3. CASE CountMessages(t)
      BY <3>3, CountsMoves
    <3>4. CASE ReadHistory(t)
      BY <3>4, ReadMoves, HistoryIsAll DEF PlacesInv
    <3> QED BY <3>1, <3>2, <3>3, <3>4, ComesToAct
  <2> QED BY <2>1, <2>2 DEF PlacesInv
<1>3. [Next]_vars /\ disturbed => disturbed'
  BY DisturbedStays
<1> QED BY <1>1, <1>2, <1>3, TypeInvariant, AloneInvariant, PTL DEF Spec

(* The dialogue of a session: m are its messages, by place. *)
Answered(m, i) == \A c \in 1..m[i].calls :
    i + c \in DOMAIN m /\ m[i + c].role = "tool" /\ m[i + c].call = c

Asked(m, i) == m[i].role = "tool" =>
    i - m[i].call \in DOMAIN m /\ m[i].call \in 1..m[i - m[i].call].calls

(* The call is between a request for tool calls and the last answer to it; *)
(* the request is at OpenOf, followed by the answers appended so far.      *)
Answering(t) == pc[t] = "tools" \/ (pc[t] \in {"count", "insert"} /\ run[t].phase = "tool")

OpenOf(t) == Len(messages[run[t].sid]) + 1 - run[t].next

OpenIn(m, o, calls, next) ==
    /\ next \in 1..calls
    /\ o \in DOMAIN m /\ m[o].calls = calls
    /\ \A c \in 1..(next - 1) : m[o + c].role = "tool" /\ m[o + c].call = c

Open(t) == OpenIn(messages[run[t].sid], OpenOf(t), run[t].calls, run[t].next)

Dialogue(s) ==
    Exists(s) /\ ~Interrupted(s) =>
        \A i \in DOMAIN messages[s] :
            /\ Asked(messages[s], i)
            /\ \/ Answered(messages[s], i)
               \/ \E t \in Runs : Answering(t) /\ run[t].sid = s /\ i = OpenOf(t)

DialogueInv == /\ \A s \in Sessions : Dialogue(s)
               /\ \A t \in Runs : Answering(t) /\ Exists(run[t].sid) => Open(t)

DialogueContext == /\ TypeInv /\ HandedOut /\ AloneInv /\ (\A t \in Runs : Phased(t))
                   /\ DialogueInv /\ ~disturbed /\ [Next]_vars

(* A call that is cut short stays so. *)
LEMMA CutStays ==
    ASSUME TypeInv, [Next]_vars, NEW t \in Runs, pc[t] \in {"raised", "crashed"}
    PROVE  pc'[t] = pc[t] /\ run'[t] = run[t]
<1>1. ~Start(t) /\ ~Cut(t)
  BY StartMoves DEF Cut, Live, Awaits
<1>2. ~Proceed(t)
  BY LocalsKept, CreateMoves DEF Awaits
<1> QED BY <1>1, <1>2, CallCases

(* A call goes on answering until it has appended the last answer. *)
LEMMA AnsweringStays ==
    ASSUME TypeInv, [Next]_vars, NEW t \in Runs, Answering(t), ~InsertMessage(t),
           pc'[t] \notin {"raised", "crashed"}
    PROVE  /\ Answering(t)' /\ run'[t].sid = run[t].sid /\ run'[t].next = run[t].next
           /\ run'[t].calls = run[t].calls
<1>0. pc[t] \in {"tools", "count", "insert"}
  BY DEF Answering
<1>1. ~Start(t) /\ ~Cut(t) /\ ~(\E s \in Sessions : CreateSession(t, s))
      /\ ~(\E n \in 0..MaxCalls : LLMAnswers(t, n))
  BY <1>0, StartMoves, CreateMoves, AnswerMoves DEF Cut
<1>2. CASE pc'[t] = pc[t] /\ run'[t] = run[t]
  BY <1>2 DEF Answering
<1>3. CASE Minds(t)
  <2>1. /\ pc[t] = "count" /\ pc'[t] = "insert" /\ run'[t].sid = run[t].sid
        /\ run'[t].phase = run[t].phase /\ run'[t].next = run[t].next /\ run'[t].calls = run[t].calls
    BY <1>0, <1>3, MindMoves
  <2> QED BY <2>1 DEF Answering
<1>4. CASE \E o \in Outcomes : ExecuteTool(t, o)
  BY <1>4, ToolMoves DEF Answering
<1> QED BY <1>1, <1>2, <1>3, <1>4, CallCases, ProceedCases

LEMMA OpenStays ==
    ASSUME TypeInv, AloneInv, DialogueInv, ~disturbed, [Next]_vars, NEW t \in Runs, Answering(t),
           ~InsertMessage(t), pc'[t] \notin {"raised", "crashed"}, Exists(run[t].sid)'
    PROVE  Open(t)'
<1>1. /\ Answering(t)' /\ run'[t].sid = run[t].sid /\ run'[t].next = run[t].next
      /\ run'[t].calls = run[t].calls
  BY AnsweringStays
<1>2. Live(t) /\ pc[t] # "create" /\ run[t].sid # NoSession
  BY SessionAssumption DEF Answering, Live, Awaits, TypeInv, Typed, TypeOK
<1>3. messages'[run[t].sid] = messages[run[t].sid] /\ Exists(run[t].sid)
  BY <1>1, <1>2, MessagesAlone, SessionBefore
<1>4. OpenIn(messages[run[t].sid], OpenOf(t), run[t].calls, run[t].next)
  BY <1>3 DEF DialogueInv, Open
<1>5. OpenOf(t)' = OpenOf(t)
  BY <1>1, <1>3 DEF OpenOf
<1> QED BY <1>1, <1>3, <1>4, <1>5 DEF Open

(* The message a call inserts, in the terms of the dialogue. *)
LEMMA InsertSays ==
    ASSUME TypeInv, NEW t \in Runs, Phased(t), InsertMessage(t)
    PROVE  LET m == NewMessage(t) IN
           /\ run[t].next \in Nat /\ run[t].calls \in Nat
           /\ m.role = run[t].phase /\ m.call = run[t].next
           /\ m.calls = IF run[t].phase = "assistant" THEN run[t].calls ELSE 0
           /\ run[t].phase = "tool" => PhaseSize(t) = run[t].calls /\ run[t].next <= run[t].calls
           /\ run[t].phase = "assistant" =>
                /\ run[t].next = 1 /\ ~(run[t].next < PhaseSize(t))
                /\ AfterPhase(t) = IF run[t].calls = 0 THEN "persist" ELSE "tools"
           /\ run[t].phase \notin {"tool", "assistant"} => AfterPhase(t) = "history"
           /\ run[t].phase = "tool" => AfterPhase(t) = "persist"
<1>1. run[t] \in Locals /\ pc[t] = "insert"
  BY DEF TypeInv, Typed, TypeOK, InsertMessage
<1>2. run[t].next \in Nat /\ run[t].calls \in Nat /\ run[t].phase \in Roles /\ run[t].inputs \in Nat
  BY <1>1 DEF Locals
<1>3. run[t].next \in 1..PhaseSize(t)
  BY <1>1 DEF Phased
<1> QED BY <1>1, <1>2, <1>3 DEF NewMessage, PhaseSize, AfterPhase, Roles

LEMMA Between ==
    ASSUME NEW l \in Nat, NEW x \in Nat, NEW c \in 1..x, c # x, NEW o \in 1..l, o = l + 1 - x
    PROVE  c \in 1..(x - 1) /\ o + c \in 1..l
OBVIOUS

LEMMA OpenAfterInsert ==
    ASSUME DialogueContext, NEW t \in Runs, InsertMessage(t), Answering(t)'
    PROVE  /\ Open(t)' /\ run'[t].sid = run[t].sid
           /\ OpenOf(t)' = IF run[t].phase = "tool" THEN OpenOf(t) ELSE Len(messages[run[t].sid]) + 1
           /\ run[t].phase \in {"assistant", "tool"}
           /\ run[t].phase = "tool" => run[t].next < run[t].calls
<1> DEFINE m == messages[run[t].sid]
           n == messages'[run[t].sid]
<1>1. /\ run[t].sid \in Sessions /\ Exists(run[t].sid) /\ pc[t] = "insert"
      /\ Len(m) \in Nat /\ Len(n) = Len(m) + 1
      /\ DOMAIN m = 1..Len(m) /\ DOMAIN n = 1..(Len(m) + 1)
      /\ \A i \in 1..Len(m) : n[i] = m[i]
      /\ n[Len(m) + 1] = NewMessage(t)
  BY InsertAppends DEF DialogueContext
<1>2. /\ run[t].next \in Nat /\ run[t].calls \in Nat
      /\ NewMessage(t).role = run[t].phase /\ NewMessage(t).call = run[t].next
      /\ NewMessage(t).calls = IF run[t].phase = "assistant" THEN run[t].calls ELSE 0
      /\ run[t].phase = "tool" => PhaseSize(t) = run[t].calls /\ run[t].next <= run[t].calls
      /\ run[t].phase = "assistant" =>
           /\ run[t].next = 1 /\ ~(run[t].next < PhaseSize(t))
           /\ AfterPhase(t) = IF run[t].calls = 0 THEN "persist" ELSE "tools"
      /\ run[t].phase \notin {"tool", "assistant"} => AfterPhase(t) = "history"
      /\ run[t].phase = "tool" => AfterPhase(t) = "persist"
  BY InsertSays DEF DialogueContext
<1>3. /\ run'[t].sid = run[t].sid /\ run'[t].phase = run[t].phase /\ run'[t].calls = run[t].calls
      /\ run[t].next < PhaseSize(t) => pc'[t] = "count" /\ run'[t].next = run[t].next + 1
      /\ ~(run[t].next < PhaseSize(t)) => pc'[t] = AfterPhase(t) /\ run'[t].next = 1
  BY InsertMoves DEF DialogueContext
<1> HIDE DEF m, n
<1>4. OpenOf(t) = Len(m) + 1 - run[t].next /\ OpenOf(t)' = Len(n) + 1 - run'[t].next
  BY <1>3 DEF OpenOf, m, n
<1>5. CASE run[t].phase = "tool"
  <2>1. /\ run[t].next < run[t].calls /\ run'[t].next = run[t].next + 1
    BY <1>2, <1>3, <1>5 DEF Answering
  <2>2. OpenOf(t)' = OpenOf(t)
    BY <1>1, <1>2, <1>4, <2>1
  <2>3. OpenIn(m, OpenOf(t), run[t].calls, run[t].next)
    BY <1>1, <1>5 DEF DialogueContext, DialogueInv, Answering, Open, m
  <2> DEFINE o == OpenOf(t)
  <2>4. o = Len(m) + 1 - run[t].next
    BY <1>4
  <2> HIDE DEF o
  <2>5. OpenIn(n, o, run[t].calls, run[t].next + 1)
    <3>1. /\ run[t].next \in 1..run[t].calls /\ o \in DOMAIN m /\ m[o].calls = run[t].calls
          /\ \A c \in 1..(run[t].next - 1) : m[o + c].role = "tool" /\ m[o + c].call = c
      BY <2>3 DEF OpenIn, o
    <3>2. o \in DOMAIN n /\ n[o].calls = run[t].calls
      BY <1>1, <3>1
    <3>3. ASSUME NEW c \in 1..run[t].next PROVE n[o + c].role = "tool" /\ n[o + c].call = c
      <4>1. CASE c = run[t].next
        BY <1>1, <1>2, <1>5, <2>4, <4>1
      <4>2. CASE c # run[t].next
        <5>1. c \in 1..(run[t].next - 1) /\ o + c \in 1..Len(m)
          <6>1. run[t].next \in Nat /\ Len(m) \in Nat /\ o \in 1..Len(m)
            BY <1>1, <1>2, <3>1
          <6> QED BY <2>4, <4>2, <6>1, Between
        <5>2. m[o + c].role = "tool" /\ m[o + c].call = c
          BY <3>1, <5>1
        <5>3. n[o + c] = m[o + c]
          BY <1>1, <5>1
        <5> QED BY <5>2, <5>3
      <4> QED BY <4>1, <4>2
    <3>4. run[t].next + 1 \in 1..run[t].calls /\ (run[t].next + 1) - 1 = run[t].next
      <4>1. run[t].next \in Nat /\ run[t].calls \in Nat
        BY <1>2
      <4> QED BY <2>1, <4>1
    <3>5. \A c \in 1..((run[t].next + 1) - 1) : n[o + c].role = "tool" /\ n[o + c].call = c
      BY <3>3, <3>4
    <3> HIDE DEF n
    <3> QED BY <3>2, <3>4, <3>5 DEF OpenIn
  <2> QED BY <1>3, <1>5, <2>1, <2>2, <2>5 DEF Open, n, o
<1>6. CASE run[t].phase # "tool"
  <2>1. /\ run[t].phase = "assistant" /\ run'[t].next = 1 /\ run[t].calls # 0
    BY <1>2, <1>3, <1>6 DEF Answering
  <2>2. OpenOf(t)' = Len(m) + 1
    BY <1>1, <1>4, <2>1
  <2>3. OpenIn(n, Len(m) + 1, run[t].calls, 1)
    BY <1>1, <1>2, <2>1 DEF OpenIn
  <2>4. Open(t)'
    BY <1>3, <2>1, <2>2, <2>3 DEF Open, n
  <2> QED BY <1>3, <1>6, <2>1, <2>2, <2>4 DEF m
<1> QED BY <1>5, <1>6

LEMMA OpenStep ==
    ASSUME DialogueContext, NEW t \in Runs, Answering(t)', Exists(run[t].sid)'
    PROVE  Open(t)'
<1>0. /\ TypeInv /\ HandedOut /\ AloneInv /\ Phased(t) /\ DialogueInv /\ ~disturbed /\ [Next]_vars
  BY DEF DialogueContext
<1>1. CASE InsertMessage(t)
  BY <1>1, OpenAfterInsert
<1>2. CASE ~InsertMessage(t)
  <2>1. Answering(t)
    <3>1. CASE Start(t) \/ Cut(t) \/ (\E s \in Sessions : CreateSession(t, s))
      BY <1>0, <3>1, StartMoves, CreateMoves DEF Cut, Answering
    <3>2. CASE pc'[t] = pc[t] /\ run'[t] = run[t]
      BY <3>2 DEF Answering
    <3>3. CASE Minds(t)
      <4>1. AfterSetup(t) \in {"history", "count"}
        BY DEF AfterSetup
      <4>2. pc[t] \in {"load", "unpause", "latest"} => run[t].phase = "input"
        BY <1>0 DEF Phased, BeforeLoop
      <4> QED BY <1>0, <3>3, <4>1, <4>2, MindMoves DEF Answering
    <3>4. CASE (\E n \in 0..MaxCalls : LLMAnswers(t, n)) \/ (\E o \in Outcomes : ExecuteTool(t, o))
      BY <1>0, <3>4, AnswerMoves, ToolMoves DEF Answering
    <3> QED BY <1>0, <1>2, <3>1, <3>2, <3>3, <3>4, CallCases, ProceedCases
  <2>2. pc'[t] \notin {"raised", "crashed"}
    BY DEF Answering
  <2>3. run'[t].sid = run[t].sid
    BY <1>0, <1>2, <2>1, <2>2, AnsweringStays
  <2> QED BY <1>0, <1>2, <2>1, <2>2, <2>3, OpenStays
<1> QED BY <1>1, <1>2

(* Nothing is appended: the dialogue stays as it is. *)
LEMMA QuietDialogue ==
    ASSUME DialogueContext, NEW s \in Sessions, messages'[s] = messages[s],
           \A t \in Runs : InsertMessage(t) => run[t].sid # s
    PROVE  Dialogue(s)'
<1>0. /\ TypeInv /\ HandedOut /\ AloneInv /\ DialogueInv /\ [Next]_vars
  BY DEF DialogueContext
<1>1. SUFFICES ASSUME ~Interrupted(s)', NEW i \in DOMAIN messages[s]
               PROVE  /\ Asked(messages[s], i)
                      /\ \/ Answered(messages[s], i)
                         \/ \E t \in Runs : Answering(t)' /\ run'[t].sid = s /\ i = OpenOf(t)'
  BY DEF Dialogue
<1>2. Exists(s)
  BY <1>0 DEF HandedOut, NoOrphanRows, TypeInv, Typed, TypeOK
<1>3. ~Interrupted(s)
  BY <1>0, <1>1, CutStays DEF Interrupted
<1>4. /\ Asked(messages[s], i)
      /\ \/ Answered(messages[s], i)
         \/ \E t \in Runs : Answering(t) /\ run[t].sid = s /\ i = OpenOf(t)
  BY <1>0, <1>2, <1>3 DEF DialogueInv, Dialogue
<1>5. ASSUME NEW t \in Runs, Answering(t), run[t].sid = s, i = OpenOf(t)
      PROVE  Answering(t)' /\ run'[t].sid = s /\ i = OpenOf(t)'
  <2>1. ~InsertMessage(t)
    BY <1>5
  <2>2. pc'[t] \notin {"raised", "crashed"}
    <3>1. CASE pc'[t] \in {"raised", "crashed"} /\ run'[t].sid = s
      BY <1>1, <3>1 DEF Interrupted
    <3>2. ASSUME pc'[t] \in {"raised", "crashed"} PROVE run'[t].sid = s
      <4>1. ~Start(t) /\ ~(\E x \in Sessions : CreateSession(t, x))
        BY <1>0, <3>2, StartMoves, CreateMoves
      <4> QED BY <1>0, <1>5, <4>1, SidMoves
    <3> QED BY <3>1, <3>2
  <2>3. Answering(t)' /\ run'[t].sid = run[t].sid /\ run'[t].next = run[t].next
    BY <1>0, <1>5, <2>1, <2>2, AnsweringStays
  <2> QED BY <1>5, <2>3 DEF OpenOf
<1> QED BY <1>4, <1>5

(* A longer dialogue keeps the answers of a shorter one. *)
LEMMA LongerDialogue ==
    ASSUME NEW m, NEW n, NEW l \in Nat, DOMAIN m = 1..l, DOMAIN n = 1..(l + 1),
           \A j \in 1..l : n[j] = m[j], NEW i \in 1..l
    PROVE  /\ Asked(m, i) => Asked(n, i)
           /\ Answered(m, i) => Answered(n, i)
BY DEF Asked, Answered

(* A message is appended: it is the next answer, or a new request.         *)
LEMMA InsertDialogue ==
    ASSUME DialogueContext, NEW t \in Runs, InsertMessage(t), NEW s \in Sessions, s = run[t].sid
    PROVE  Dialogue(s)'
<1> DEFINE m == messages[s]
           n == messages'[s]
<1>0. /\ TypeInv /\ HandedOut /\ AloneInv /\ Phased(t) /\ DialogueInv /\ [Next]_vars
  BY DEF DialogueContext
<1>1. /\ Exists(s) /\ pc[t] = "insert"
      /\ Len(m) \in Nat /\ Len(n) = Len(m) + 1
      /\ DOMAIN m = 1..Len(m) /\ DOMAIN n = 1..(Len(m) + 1)
      /\ \A i \in 1..Len(m) : n[i] = m[i]
      /\ n[Len(m) + 1] = NewMessage(t)
  BY <1>0, InsertAppends
<1>2. /\ run[t].next \in Nat /\ run[t].calls \in Nat
      /\ NewMessage(t).role = run[t].phase /\ NewMessage(t).call = run[t].next
      /\ NewMessage(t).calls = IF run[t].phase = "assistant" THEN run[t].calls ELSE 0
      /\ run[t].phase = "tool" => PhaseSize(t) = run[t].calls /\ run[t].next <= run[t].calls
      /\ run[t].phase = "assistant" =>
           /\ run[t].next = 1 /\ ~(run[t].next < PhaseSize(t))
           /\ AfterPhase(t) = IF run[t].calls = 0 THEN "persist" ELSE "tools"
  BY <1>0, InsertSays
<1>3. /\ run'[t].sid = run[t].sid /\ run'[t].phase = run[t].phase
      /\ run[t].next < PhaseSize(t) => pc'[t] = "count"
      /\ ~(run[t].next < PhaseSize(t)) => pc'[t] = AfterPhase(t)
  BY <1>0, InsertMoves
<1>4. run[t].phase = "tool" => OpenIn(m, OpenOf(t), run[t].calls, run[t].next)
  BY <1>0, <1>1 DEF DialogueInv, Answering, Open
<1> DEFINE new == Len(m) + 1
<1>5. new \in Nat /\ new = Len(m) + 1 /\ OpenOf(t) = new - run[t].next
  <2>1. OpenOf(t) = Len(m) + 1 - run[t].next
    BY Zenon DEF OpenOf
  <2> HIDE DEF m
  <2>2. /\ Len(m) \in Nat /\ run[t].next \in Nat
    BY <1>1, <1>2
  <2> QED BY <2>1, <2>2
<1> SUFFICES ASSUME ~Interrupted(s)', NEW i \in DOMAIN n
             PROVE  /\ Asked(n, i)
                    /\ Answered(n, i) \/ (Answering(t)' /\ i = OpenOf(t)')
  BY <1>3 DEF Dialogue
<1>6. ~Interrupted(s)
  BY <1>0, CutStays DEF Interrupted
<1>7. Answering(t)' => OpenOf(t)' = IF run[t].phase = "tool" THEN OpenOf(t) ELSE new
  BY <1>5, OpenAfterInsert
<1>8. \A o \in Runs : Answering(o) /\ run[o].sid = s => o = t
  BY <1>0, <1>1, SessionAssumption DEF AloneInv, AloneOnSession, Live, Awaits, Answering
<1> HIDE DEF m, n, new
<1>9. CASE i = new
  <2>1. n[i].role = run[t].phase /\ n[i].call = run[t].next
        /\ n[i].calls = IF run[t].phase = "assistant" THEN run[t].calls ELSE 0
    BY <1>1, <1>2, <1>5, <1>9
  <2>2. Asked(n, i)
    <3>1. SUFFICES ASSUME run[t].phase = "tool"
                   PROVE  OpenOf(t) \in DOMAIN n /\ run[t].next \in 1..n[OpenOf(t)].calls
      BY <1>5, <1>9, <2>1 DEF Asked
    <3>2. OpenOf(t) \in DOMAIN m /\ m[OpenOf(t)].calls = run[t].calls /\ run[t].next \in 1..run[t].calls
      BY <1>4, <3>1 DEF OpenIn
    <3> QED BY <1>1, <3>2
  <2>3. CASE run[t].phase = "assistant" /\ run[t].calls # 0
    <3>1. pc'[t] = "tools"
      BY <1>2, <1>3, <2>3
    <3> QED BY <1>7, <1>9, <2>2, <2>3, <3>1 DEF Answering
  <2>4. CASE ~(run[t].phase = "assistant" /\ run[t].calls # 0)
    BY <2>1, <2>2, <2>4 DEF Answered
  <2> QED BY <2>3, <2>4
<1>10. CASE i # new
  <2>1. i \in 1..Len(m)
    BY <1>1, <1>5, <1>10
  <2>2. /\ Asked(m, i)
        /\ \/ Answered(m, i)
           \/ \E o \in Runs : Answering(o) /\ run[o].sid = s /\ i = OpenOf(o)
    BY <1>0, <1>1, <1>6, <2>1 DEF DialogueInv, Dialogue, m
  <2>3. Asked(n, i) /\ (Answered(m, i) => Answered(n, i))
    BY <1>1, <2>1, <2>2, LongerDialogue
  <2>4. ASSUME NEW o \in Runs, Answering(o), run[o].sid = s, i = OpenOf(o)
        PROVE  Answered(n, i) \/ (Answering(t)' /\ i = OpenOf(t)')
    <3>1. o = t
      BY <1>8, <2>4
    <3>2. run[t].phase = "tool"
      BY <1>1, <2>4, <3>1 DEF Answering
    <3>3. CASE run[t].next < PhaseSize(t)
      <4>1. Answering(t)'
        BY <1>3, <3>2, <3>3 DEF Answering
      <4> QED BY <1>7, <2>4, <3>1, <3>2, <4>1
    <3>4. CASE ~(run[t].next < PhaseSize(t))
      <4>1. run[t].next = run[t].calls
        BY <1>2, <3>2, <3>4
      <4>2. /\ m[i].calls = run[t].calls
            /\ \A c \in 1..(run[t].next - 1) : m[i + c].role = "tool" /\ m[i + c].call = c
        BY <1>4, <2>4, <3>1, <3>2 DEF OpenIn
      <4>3. i = new - run[t].next /\ n[i] = m[i]
        BY <1>1, <1>5, <2>1, <2>4, <3>1
      <4>4. ASSUME NEW c \in 1..run[t].next
            PROVE  i + c \in DOMAIN n /\ n[i + c].role = "tool" /\ n[i + c].call = c
        <5>1. CASE c = run[t].next
          <6>1. i + c = new
            <7>1. run[t].next \in Nat /\ new \in Nat
              BY <1>2, <1>5
            <7> QED BY <4>3, <5>1, <7>1
          <6> QED BY <1>1, <1>2, <1>5, <3>2, <5>1, <6>1
        <5>2. CASE c # run[t].next
          <6>1. c \in 1..(run[t].next - 1) /\ i + c \in 1..Len(m)
            <7>1. run[t].next \in Nat /\ Len(m) \in Nat /\ i \in 1..Len(m)
              BY <1>1, <1>2, <2>1
            <7>2. i = Len(m) + 1 - run[t].next
              BY <1>5, <4>3, <7>1
            <7> QED BY <5>2, <7>1, <7>2, Between
          <6>2. m[i + c].role = "tool" /\ m[i + c].call = c
            BY <4>2, <6>1
          <6>3. n[i + c] = m[i + c] /\ i + c \in DOMAIN n
            BY <1>1, <6>1
          <6> QED BY <6>2, <6>3
        <5> QED BY <5>1, <5>2
      <4> QED BY <4>1, <4>2, <4>3, <4>4 DEF Answered
    <3> QED BY <3>3, <3>4
  <2> QED BY <2>2, <2>3, <2>4
<1> QED BY <1>9, <1>10

LEMMA DialogueStep ==
    ASSUME DialogueContext, NEW s \in Sessions PROVE Dialogue(s)'
<1>0. TypeInv /\ ~disturbed /\ [Next]_vars
  BY DEF DialogueContext
<1>1. CASE \E t \in Runs : InsertMessage(t) /\ run[t].sid = s
  BY <1>0, <1>1, InsertDialogue, InsertMoves
<1>2. CASE \A t \in Runs : InsertMessage(t) => run[t].sid # s
  <2>1. CASE ~Exists(s)'
    BY <2>1 DEF Dialogue
  <2>2. ASSUME Exists(s)' PROVE messages'[s] = messages[s]
    <3>1. ASSUME NEW t \in Runs, InsertMessage(t) PROVE messages'[s] = messages[s]
      BY <1>0, <1>2, <3>1, InsertAppends
    <3>2. ASSUME NEW x \in Sessions, DeleteSession(x) PROVE messages'[s] = messages[s]
      BY <1>0, <2>2, <3>2 DEF DeleteSession, Exists, TypeInv, Typed, TypeOK
    <3> QED BY <1>0, <3>1, <3>2, CalmTables
  <2> QED BY <1>2, <2>1, <2>2, QuietDialogue
<1> QED BY <1>1, <1>2

LEMMA DialogueInvariant == ASSUME Exclusive PROVE Spec => [](disturbed \/ DialogueInv)
<1>1. Init => DialogueInv
  BY DEF Init, DialogueInv, Dialogue, Exists, Answering
<1>2. DialogueContext => DialogueInv'
  BY DialogueStep, OpenStep DEF DialogueInv
<1>3. [Next]_vars /\ disturbed => disturbed'
  BY DisturbedStays
<1> QED BY <1>1, <1>2, <1>3, TypeInvariant, HandedOutInvariant, AloneInvariant, PhasedInvariant,
           PTL DEF Spec, DialogueContext

(* The messages a call gives the LLM are a dialogue the API accepts: every *)
(* tool call is answered right behind its request and every answer has its *)
(* request, if callers run a session one call at a time, none was cut      *)
(* short, no connection was left in a transaction and the history fits its *)
(* limit.                                                                  *)
THEOREM PromptsStayWellFormed == ASSUME Exclusive PROVE Spec => []PromptIsWellFormed
<1>1. TypeInv /\ AloneInv /\ (disturbed \/ (PlacesInv /\ DialogueInv)) => PromptIsWellFormed
  <2> SUFFICES ASSUME TypeInv, AloneInv, PlacesInv, DialogueInv, NEW t \in Runs, pc[t] = "llm",
                      Exists(run[t].sid), ~Interrupted(run[t].sid),
                      Len(messages[run[t].sid]) <= HistoryLimit, NEW i \in run[t].prompt
               PROVE  LET s == run[t].sid  m == messages[s] IN
                      /\ \A c \in 1..m[i].calls : \E j \in run[t].prompt :
                           Rank(s, j) = Rank(s, i) + c /\ m[j].role = "tool" /\ m[j].call = c
                      /\ m[i].role = "tool" => \E j \in run[t].prompt :
                           Rank(s, i) = Rank(s, j) + m[i].call /\ m[j].calls >= m[i].call
    BY DEF PromptIsWellFormed
  <2> DEFINE s == run[t].sid
             m == messages[s]
  <2>1. s \in Sessions /\ s # NoSession /\ Live(t)
    BY SessionAssumption DEF TypeInv, Typed, TypeOK, Live, Awaits
  <2>2. run[t].prompt = DOMAIN m
    BY DEF PlacesInv, PlacesCounted
  <2>3. /\ Len(m) \in Nat /\ DOMAIN m = 1..Len(m)
        /\ \A j \in DOMAIN m : Rank(s, j) = j - 1
    BY <2>1, RankIsPlace DEF PlacesInv
  <2>4. ~\E o \in Runs : Answering(o) /\ run[o].sid = s
    BY <2>1 DEF AloneInv, AloneOnSession, Answering, Live, Awaits
  <2>5. Asked(m, i) /\ Answered(m, i)
    BY <2>1, <2>2, <2>4 DEF DialogueInv, Dialogue
  <2>6. m[i] \in Message
    BY <2>1, <2>2, <2>3 DEF TypeInv, Typed, TypeOK
  <2>7. m[i].call \in Nat /\ i \in Nat
    BY <2>2, <2>3, <2>6 DEF Message
  <2> HIDE DEF m
  <2>8. ASSUME NEW c \in 1..m[i].calls
        PROVE  \E j \in run[t].prompt :
                  Rank(s, j) = Rank(s, i) + c /\ m[j].role = "tool" /\ m[j].call = c
    <3>1. i + c \in DOMAIN m /\ m[i + c].role = "tool" /\ m[i + c].call = c
      BY <2>5 DEF Answered
    <3>2. Rank(s, i + c) = Rank(s, i) + c
      BY <2>2, <2>3, <2>7, <3>1
    <3> QED BY <2>2, <3>1, <3>2
  <2>9. ASSUME m[i].role = "tool"
        PROVE  \E j \in run[t].prompt :
                  Rank(s, i) = Rank(s, j) + m[i].call /\ m[j].calls >= m[i].call
    <3>1. i - m[i].call \in DOMAIN m /\ m[i].call \in 1..m[i - m[i].call].calls
      BY <2>5, <2>9 DEF Asked
    <3>2. Rank(s, i) = Rank(s, i - m[i].call) + m[i].call
      BY <2>2, <2>3, <2>7, <3>1
    <3>3. m[i - m[i].call].calls >= m[i].call
      BY <3>1
    <3> QED BY <2>2, <3>1, <3>2, <3>3
  <2> QED BY <2>8, <2>9 DEF m
<1> QED BY <1>1, TypeInvariant, AloneInvariant, PlacesInvariant, DialogueInvariant, PTL

=============================================================================
