-------------------------- MODULE ApprovalsProofs --------------------------
(***************************************************************************)
(* Theorems about Approvals, for every number of waiters, deciders, users  *)
(* and sessions, every list of rules and every timeout.  Who decides and   *)
(* what a request keeps holds also when users decide repeatedly (IInv);    *)
(* what a waiter hears, when each user decides a request once (HInv).      *)
(***************************************************************************)
EXTENDS Approvals, TLAPS

(* A waiter that is going to look again has time left to. *)
PollsAreLeft ==
    \A w \in Waiters :
        /\ pc[w] \in {"poll", "sleep"} => call[w].elapsed < Timeout
        /\ pc[w] \in {"idle", "insert", "reread"} => call[w].elapsed = 0

(* The row of a request is that of the session its tool runs in. *)
RowsOfCalls ==
    \A w \in Waiters :
        /\ pc[w] \in {"reread", "poll", "sleep", "resolved", "denied"} =>
              /\ call[w].sid \in Sessions
              /\ row[w].user = Owner[call[w].sid]
        /\ Requested(w) => row[w].sid \in Sessions

(* A row belongs to a user from its insertion on. *)
RowsHaveUsers == \A w \in Waiters : row[w].user # NoUser => Requested(w)

(* A decider is deciding something. *)
DecidersAreSet ==
    \A d \in Deciders : dpc[d] \in {"update", "answer"} =>
        dcall[d].user \in Users /\ dcall[d].on \in Waiters

IInv ==
    /\ TypeOK
    /\ PollsAreLeft
    /\ RowsOfCalls
    /\ RowsHaveUsers
    /\ DecidersAreSet
    /\ OwnersDecide
    /\ RequestsKeepSessions

USE NoneAssumption, OwnerAssumption, PolicyAssumption, BoundAssumption, StatusAssumption

-----------------------------------------------------------------------------
(* RuleEngine.evaluate answers with one of the policies. *)

LEMMA EvaluateType ==
    ASSUME NEW tool \in Tools, NEW rules \in RuleSets
    PROVE  Evaluate(tool, rules) \in Policies
<1> DEFINE C == {ToolPolicy[tool]} \cup {r.policy : r \in {q \in rules : q.tool \in {AnyTool, tool}}}
<1>1. C \subseteq Policies
  BY DEF Rule
<1>2. \E p \in C : \A q \in C : Priority[q] <= Priority[p]
  <2>1. CASE "admin_signoff" \in C
    <3>1. \A q \in C : Priority[q] <= Priority["admin_signoff"]
      BY <1>1 DEF Policies, Priority
    <3> QED
      BY <2>1, <3>1
  <2>2. CASE "admin_signoff" \notin C /\ "human_approval" \in C
    <3>1. \A q \in C : q \in {"auto", "human_approval"}
      BY <1>1, <2>2 DEF Policies
    <3>2. \A q \in C : Priority[q] <= Priority["human_approval"]
      BY <3>1 DEF Policies, Priority
    <3> QED
      BY <2>2, <3>2
  <2>3. CASE "admin_signoff" \notin C /\ "human_approval" \notin C
    <3>1. \A q \in C : q = "auto"
      BY <1>1, <2>3 DEF Policies
    <3>2. ToolPolicy[tool] \in C
      OBVIOUS
    <3> QED
      BY <3>1, <3>2 DEF Policies, Priority
  <2> QED
    BY <2>1, <2>2, <2>3
<1> HIDE DEF C
<1>3. (CHOOSE p \in C : \A q \in C : Priority[q] <= Priority[p]) \in C
  BY <1>2
<1> QED
  BY <1>1, <1>3 DEF C, Evaluate

-----------------------------------------------------------------------------

LEMMA InitIInv == Init => IInv
<1> SUFFICES ASSUME Init PROVE IInv
  OBVIOUS
<1>1. TypeOK
  BY DEF Init, TypeOK, Row, Locals, DeciderLocals, Policies, Statuses, Requested, Ended, Awaits
<1>2. PollsAreLeft /\ RowsOfCalls /\ RowsHaveUsers /\ DecidersAreSet
  BY DEF Init, PollsAreLeft, RowsOfCalls, RowsHaveUsers, DecidersAreSet, Requested
<1>3. OwnersDecide /\ RequestsKeepSessions
  BY DEF Init, OwnersDecide, RequestsKeepSessions, Requested
<1> QED
  BY <1>1, <1>2, <1>3 DEF IInv

(* A waiter that moves leaves rows and deciders alone.  What it needs to   *)
(* keep the invariant is said of itself only.                              *)
LEMMA WaiterMoves ==
    ASSUME IInv, NEW w \in Waiters, NEW p, NEW l,
           pc' = [pc EXCEPT ![w] = p],
           call' = [call EXCEPT ![w] = l],
           UNCHANGED <<alive, row, late, dpc, dcall>>,
           p \in Awaits \cup Ended, l \in Locals,
           p \in {"insert", "poll", "sleep", "resolved", "denied"} => l.sid \in Sessions,
           p # "reread",
           p \in {"poll", "sleep", "resolved", "denied"} =>
               Requested(w) /\ row[w].user = Owner[l.sid],
           p \in {"poll", "sleep"} => l.elapsed < Timeout,
           p = "insert" => l.elapsed = 0,
           p \in {"resolved", "denied"} => row[w].status \notin {NoStatus, "pending"}
    PROVE  IInv'
<1>1. TypeOK'
  <2>1. pc' \in [Waiters -> {"idle"} \cup Awaits \cup Ended] /\ call' \in [Waiters -> Locals]
    BY DEF IInv, TypeOK
  <2>2. ASSUME NEW v \in Waiters
        PROVE  /\ pc'[v] = "insert" => call'[v].sid \in Sessions
               /\ pc'[v] \in {"reread", "poll", "sleep"} =>
                    Requested(v)' /\ call'[v].elapsed <= Timeout
    <3>1. CASE v = w
      BY <3>1 DEF IInv, TypeOK, Requested, Locals
    <3>2. CASE v # w
      BY <3>2 DEF IInv, TypeOK, Requested
    <3> QED
      BY <3>1, <3>2
  <2> QED
    BY <2>1, <2>2 DEF IInv, TypeOK
<1>2. PollsAreLeft'
  BY DEF IInv, TypeOK, PollsAreLeft, Awaits, Ended
<1>3. RowsOfCalls'
  BY DEF IInv, TypeOK, RowsOfCalls, Requested
<1>4. RowsHaveUsers' /\ DecidersAreSet' /\ RequestsKeepSessions'
  BY DEF IInv, RowsHaveUsers, DecidersAreSet, RequestsKeepSessions, Requested
<1>5. OwnersDecide'
  <2> SUFFICES ASSUME NEW v \in Waiters, pc'[v] \in {"resolved", "denied"}
               PROVE  row[v].by = Owner[call'[v].sid]
    BY DEF IInv, OwnersDecide
  <2>1. CASE v = w
    BY <2>1 DEF IInv, TypeOK, OwnersDecide
  <2>2. CASE v # w
    BY <2>2 DEF IInv, TypeOK, OwnersDecide
  <2> QED
    BY <2>1, <2>2
<1> QED
  BY <1>1, <1>2, <1>3, <1>4, <1>5 DEF IInv

LEMMA AskKeeps ==
    ASSUME IInv, NEW w \in Waiters, NEW s \in Sessions, NEW tool \in Tools,
           NEW rules \in RuleSets, Ask(w, s, tool, rules)
    PROVE  IInv'
<1> DEFINE l == [call[w] EXCEPT !.sid = s, !.policy = Evaluate(tool, rules)]
           p == IF Evaluate(tool, rules) = "auto" THEN "free" ELSE "insert"
<1>1. Evaluate(tool, rules) \in Policies
  BY EvaluateType
<1>2. call[w] \in Locals
  BY DEF IInv, TypeOK
<1>3. l \in Locals /\ l.sid = s /\ l.elapsed = 0
  BY <1>1, <1>2 DEF Locals, Ask, IInv, PollsAreLeft
<1>4. call' = [call EXCEPT ![w] = l] /\ pc' = [pc EXCEPT ![w] = p]
  BY DEF IInv, TypeOK, Ask, Goto
<1>5. UNCHANGED <<alive, row, late, dpc, dcall>>
  BY DEF Ask, UnchangedDeciders
<1>6. p \in {"free", "insert"}
  OBVIOUS
<1> HIDE DEF l, p
<1> QED
  BY <1>3, <1>4, <1>5, <1>6, WaiterMoves DEF Awaits, Ended

LEMMA InsertKeeps ==
    ASSUME IInv, NEW w \in Waiters, InsertRequest(w)
    PROVE  IInv'
<1> DEFINE r == [status |-> "pending", sid |-> call[w].sid, user |-> Owner[call[w].sid],
                 by |-> NoUser, policy |-> call[w].policy]
<1>1. /\ pc[w] = "insert" /\ call[w].sid \in alive
      /\ row' = [row EXCEPT ![w] = r]
      /\ pc' = [pc EXCEPT ![w] = "reread"]
      /\ UNCHANGED <<alive, call, late, dpc, dcall>>
  BY DEF InsertRequest, ParentExists, Goto, UnchangedDeciders
<1>2. call[w] \in Locals /\ call[w].sid \in Sessions
  BY <1>1 DEF IInv, TypeOK
<1>3. r \in Row /\ r.status # NoStatus
  BY <1>2 DEF Row, Locals, Statuses
<1>4. /\ row' \in [Waiters -> Row] /\ row'[w] = r
      /\ \A v \in Waiters \ {w} : row'[v] = row[v] /\ pc'[v] = pc[v]
      /\ pc'[w] = "reread"
  BY <1>1, <1>3 DEF IInv, TypeOK
<1>5. TypeOK'
  <2>1. pc' \in [Waiters -> {"idle"} \cup Awaits \cup Ended]
    BY <1>1 DEF IInv, TypeOK, Awaits
  <2>2. Requested(w)' /\ call'[w].elapsed <= Timeout
    BY <1>1, <1>2, <1>3, <1>4 DEF Requested, Locals
  <2>3. \A v \in Waiters : pc'[v] \in {"reread", "poll", "sleep"} =>
            Requested(v)' /\ call'[v].elapsed <= Timeout
    BY <1>1, <1>4, <2>2 DEF IInv, TypeOK, Requested
  <2>4. \A v \in Waiters : pc'[v] = "insert" => call'[v].sid \in Sessions
    BY <1>1, <1>4 DEF IInv, TypeOK
  <2> QED
    BY <1>1, <1>4, <2>1, <2>3, <2>4 DEF IInv, TypeOK
<1>6. PollsAreLeft' /\ DecidersAreSet'
  BY <1>1, <1>4 DEF IInv, PollsAreLeft, DecidersAreSet
<1>7. RowsOfCalls' /\ RowsHaveUsers'
  BY <1>1, <1>2, <1>3, <1>4 DEF IInv, RowsOfCalls, RowsHaveUsers, Requested
<1>8. OwnersDecide'
  BY <1>1, <1>4 DEF IInv, OwnersDecide
<1>9. RequestsKeepSessions'
  BY <1>1, <1>4 DEF IInv, RequestsKeepSessions, Requested
<1> QED
  BY <1>5, <1>6, <1>7, <1>8, <1>9 DEF IInv

LEMMA WaitKeeps ==
    ASSUME IInv, NEW w \in Waiters,
           InsertFails(w) \/ RereadRequest(w) \/ Poll(w) \/ Sleep(w)
    PROVE  IInv'
<1>1. call[w] \in Locals /\ call = [call EXCEPT ![w] = call[w]] /\ row[w] \in Row
  BY DEF IInv, TypeOK
<1>2. CASE InsertFails(w)
  <2>1. /\ pc' = [pc EXCEPT ![w] = "raised"]
        /\ call' = [call EXCEPT ![w] = call[w]]
        /\ UNCHANGED <<alive, row, late, dpc, dcall>>
    BY <1>1, <1>2 DEF InsertFails, Goto, UnchangedDeciders
  <2> QED
    BY <1>1, <2>1, WaiterMoves DEF Awaits, Ended
<1>3. CASE RereadRequest(w)
  <2> DEFINE p == IF row[w].status = "other" THEN "raised" ELSE
                  IF TimeLeft(0) THEN "poll" ELSE "timedOut"
  <2>1. /\ pc[w] = "reread"
        /\ pc' = [pc EXCEPT ![w] = p]
        /\ call' = [call EXCEPT ![w] = call[w]]
        /\ UNCHANGED <<alive, row, late, dpc, dcall>>
    BY <1>1, <1>3 DEF RereadRequest, Loop, Goto, UnchangedDeciders
  <2>2. p \in {"raised", "timedOut"} \/ (p = "poll" /\ 0 < Timeout)
    BY DEF TimeLeft
  <2>3. Requested(w) /\ row[w].user = Owner[call[w].sid] /\ call[w].sid \in Sessions
    BY <2>1 DEF IInv, TypeOK, RowsOfCalls
  <2>4. call[w].elapsed = 0
    BY <2>1 DEF IInv, PollsAreLeft
  <2> HIDE DEF p
  <2> QED
    BY <1>1, <2>1, <2>2, <2>3, <2>4, WaiterMoves DEF Awaits, Ended
<1>4. CASE Poll(w)
  <2> DEFINE p == CASE row[w].status = "pending" -> "sleep"
                    [] row[w].status = "other"   -> "raised"
                    [] row[w].status = "denied"  -> "denied"
                    [] row[w].status \in {"approved", "expired"} -> "resolved"
             l == [call[w] EXCEPT !.heard = row[w].status]
  <2>1. /\ pc[w] = "poll"
        /\ pc' = [pc EXCEPT ![w] = p]
        /\ call' = [call EXCEPT ![w] = l]
        /\ UNCHANGED <<alive, row, late, dpc, dcall>>
    BY <1>1, <1>4 DEF IInv, TypeOK, Poll, Goto, UnchangedDeciders
  <2>2. /\ Requested(w) /\ row[w].user = Owner[call[w].sid] /\ call[w].sid \in Sessions
        /\ call[w].elapsed < Timeout
    BY <2>1 DEF IInv, TypeOK, RowsOfCalls, PollsAreLeft
  <2>3. l \in Locals /\ l.sid = call[w].sid /\ l.elapsed = call[w].elapsed
    BY <1>1 DEF Locals, Row
  <2>4. row[w].status \in Statuses
    BY <1>1, <2>2 DEF Row, Requested
  <2>5. \/ p = "sleep" /\ row[w].status = "pending"
        \/ p = "raised" /\ row[w].status = "other"
        \/ p = "denied" /\ row[w].status = "denied"
        \/ p = "resolved" /\ row[w].status \in {"approved", "expired"}
    BY <2>4 DEF Statuses
  <2> HIDE DEF p, l
  <2>6. row[w].status # NoStatus
    BY <2>2 DEF Requested
  <2> QED
    BY <2>1, <2>2, <2>3, <2>5, <2>6, WaiterMoves DEF Awaits, Ended
<1>5. CASE Sleep(w)
  <2> DEFINE e == call[w].elapsed + 1
             p == IF TimeLeft(e) THEN "poll" ELSE "timedOut"
             l == [call[w] EXCEPT !.elapsed = @ + 1]
  <2>1. /\ pc[w] = "sleep"
        /\ pc' = [pc EXCEPT ![w] = p]
        /\ call' = [call EXCEPT ![w] = l]
        /\ UNCHANGED <<alive, row, late, dpc, dcall>>
    BY <1>1, <1>5 DEF IInv, TypeOK, Sleep, Loop, Goto, UnchangedDeciders
  <2>2. /\ Requested(w) /\ row[w].user = Owner[call[w].sid] /\ call[w].sid \in Sessions
        /\ call[w].elapsed < Timeout
    BY <2>1 DEF IInv, TypeOK, RowsOfCalls, PollsAreLeft
  <2>3. l \in Locals /\ l.sid = call[w].sid /\ l.elapsed = e
    BY <1>1, <2>2 DEF Locals
  <2>4. p = "timedOut" \/ (p = "poll" /\ e < Timeout)
    BY DEF TimeLeft
  <2> HIDE DEF p, l
  <2> QED
    BY <2>1, <2>2, <2>3, <2>4, WaiterMoves DEF Awaits, Ended
<1> QED
  BY <1>2, <1>3, <1>4, <1>5

-----------------------------------------------------------------------------
(* Deciders. *)

LEMMA DeciderMoves ==
    ASSUME IInv, NEW d \in Deciders, NEW p, NEW l,
           dpc' = [dpc EXCEPT ![d] = p],
           dcall' = [dcall EXCEPT ![d] = l],
           UNCHANGED <<alive, row, pc, call, late>>,
           p \in {"update", "answer", "done", "raised"}, l \in DeciderLocals,
           p \in {"update", "answer"} => l.user \in Users /\ l.on \in Waiters
    PROVE  IInv'
<1>1. TypeOK'
  BY DEF IInv, TypeOK, Requested
<1>2. PollsAreLeft' /\ RowsOfCalls' /\ RowsHaveUsers' /\ OwnersDecide' /\ RequestsKeepSessions'
  BY DEF IInv, PollsAreLeft, RowsOfCalls, RowsHaveUsers, OwnersDecide, RequestsKeepSessions, Requested
<1>3. DecidersAreSet'
  BY DEF IInv, TypeOK, DecidersAreSet
<1> QED
  BY <1>1, <1>2, <1>3 DEF IInv

LEMMA UpdateKeeps ==
    ASSUME IInv, NEW d \in Deciders, UpdateRow(d)
    PROVE  IInv'
<1> DEFINE w == dcall[d].on  u == dcall[d].user  st == dcall[d].decision
<1>1. w \in Waiters /\ u \in Users /\ st \in Statuses
  BY DEF IInv, TypeOK, DecidersAreSet, DeciderLocals, UpdateRow
<1>2. /\ dpc' = [dpc EXCEPT ![d] = "answer"]
      /\ UNCHANGED <<alive, pc, call, dcall>>
  BY DEF UpdateRow
<1>3. late' \subseteq Waiters
  BY <1>1 DEF UpdateRow, IInv, TypeOK
<1>4. DecidersAreSet' /\ dpc' \in [Deciders -> {"idle", "update", "answer", "done", "raised"}]
  BY <1>1, <1>2 DEF IInv, TypeOK, DecidersAreSet
<1>5. CASE ~OwnRow(u, w)
  <2>1. UNCHANGED row
    BY <1>5 DEF UpdateRow
  <2>2. TypeOK'
    BY <1>2, <1>3, <1>4, <2>1 DEF IInv, TypeOK, Requested
  <2>3. PollsAreLeft' /\ RowsOfCalls' /\ RowsHaveUsers'
    BY <1>2, <2>1 DEF IInv, PollsAreLeft, RowsOfCalls, RowsHaveUsers, Requested
  <2>4. OwnersDecide' /\ RequestsKeepSessions'
    BY <1>2, <2>1 DEF IInv, OwnersDecide, RequestsKeepSessions, Requested
  <2> QED
    BY <1>4, <2>2, <2>3, <2>4 DEF IInv
<1>6. CASE OwnRow(u, w)
  <2> DEFINE r == [row[w] EXCEPT !.status = st, !.by = u]
  <2>1. row' = [row EXCEPT ![w] = r] /\ row[w].user = u
    BY <1>1, <1>6 DEF UpdateRow, OwnRow, IInv, TypeOK
  <2>2. /\ r \in Row /\ r.status = st /\ r.by = u /\ r.user = u /\ r.sid = row[w].sid
        /\ st # NoStatus
    <3>1. row[w] \in Row
      BY <1>1 DEF IInv, TypeOK
    <3>2. st # NoStatus
      BY <1>1
    <3> HIDE DEF w, u, st
    <3> QED
      BY <1>1, <2>1, <3>1, <3>2 DEF Row
  <2>3. Requested(w)
    BY <1>1, <2>1 DEF IInv, RowsHaveUsers
  <2> HIDE DEF r
  <2>4. row' \in [Waiters -> Row] /\ row'[w] = r /\ \A v \in Waiters \ {w} : row'[v] = row[v]
    BY <1>1, <2>1, <2>2 DEF IInv, TypeOK
  <2>5. \A v \in Waiters : Requested(v)' <=> Requested(v)
    BY <2>2, <2>3, <2>4 DEF Requested
  <2>6. TypeOK'
    BY <1>2, <1>3, <1>4, <2>4, <2>5 DEF IInv, TypeOK
  <2>7. \A v \in Waiters : row'[v].sid = row[v].sid /\ row'[v].user = row[v].user
    BY <2>1, <2>2, <2>4
  <2>8. PollsAreLeft' /\ RowsOfCalls' /\ RequestsKeepSessions'
    BY <1>2, <2>5, <2>7 DEF IInv, PollsAreLeft, RowsOfCalls, RequestsKeepSessions
  <2>9. OwnersDecide'
    <3> SUFFICES ASSUME NEW v \in Waiters
                 PROVE  /\ row'[v].by \in {NoUser, row'[v].user}
                        /\ row'[v].by = NoUser => row'[v].status \in {NoStatus, "pending"}
                        /\ pc'[v] \in {"resolved", "denied"} => row'[v].by = Owner[call'[v].sid]
      BY DEF OwnersDecide
    <3>1. CASE v = w
      BY <1>1, <1>2, <2>1, <2>2, <2>4, <3>1 DEF IInv, RowsOfCalls
    <3>2. CASE v # w
      BY <1>2, <2>4, <3>2 DEF IInv, OwnersDecide
    <3> QED
      BY <3>1, <3>2
  <2>10. RowsHaveUsers'
    BY <1>2, <2>5, <2>7 DEF IInv, RowsHaveUsers
  <2> QED
    BY <1>4, <2>6, <2>8, <2>9, <2>10 DEF IInv
<1> QED
  BY <1>5, <1>6

LEMMA DecideKeeps ==
    ASSUME IInv, NEW d \in Deciders, Decide(d)
    PROVE  IInv'
<1>1. dcall[d] \in DeciderLocals /\ dcall = [dcall EXCEPT ![d] = dcall[d]]
  BY DEF IInv, TypeOK
<1>2. ASSUME NEW u \in Users, NEW w \in Waiters, NEW st \in Statuses, StartDeciding(d, u, w, st)
      PROVE  IInv'
  <2> DEFINE l == [user |-> u, on |-> w, decision |-> st, answer |-> NoStatus]
  <2>1. l \in DeciderLocals /\ l.user \in Users /\ l.on \in Waiters
    BY DEF DeciderLocals
  <2>2. /\ dpc' = [dpc EXCEPT ![d] = "update"]
        /\ dcall' = [dcall EXCEPT ![d] = l]
        /\ UNCHANGED <<alive, row, pc, call, late>>
    BY <1>2 DEF StartDeciding
  <2> HIDE DEF l
  <2> QED
    BY <2>1, <2>2, DeciderMoves
<1>3. CASE UpdateRow(d)
  BY <1>3, UpdateKeeps
<1>4. CASE AnswerResolved(d)
  <2>1. /\ dpc' = [dpc EXCEPT ![d] = "done"]
        /\ dcall' = [dcall EXCEPT ![d] = dcall[d]]
        /\ UNCHANGED <<alive, row, pc, call, late>>
    BY <1>1, <1>4 DEF AnswerResolved
  <2> QED
    BY <1>1, <2>1, DeciderMoves
<1>5. CASE AnswerReread(d)
  <2> DEFINE w == dcall[d].on
  <2>1. w \in Waiters /\ row[w].status \in Statuses \cup {NoStatus}
    BY <1>5 DEF AnswerReread, IInv, TypeOK, DecidersAreSet, Row
  <2>2. PICK a \in Statuses \cup {NoStatus}, p \in {"done", "raised"} :
          /\ dpc' = [dpc EXCEPT ![d] = p]
          /\ dcall' = [dcall EXCEPT ![d].answer = a] \/ dcall' = dcall
          /\ UNCHANGED <<alive, row, pc, call, late>>
    BY <1>1, <1>5, <2>1 DEF AnswerReread, DeciderLocals
  <2> DEFINE l == IF dcall' = dcall THEN dcall[d] ELSE [dcall[d] EXCEPT !.answer = a]
  <2>3. dcall' = [dcall EXCEPT ![d] = l] /\ l \in DeciderLocals
    BY <1>1, <2>2 DEF IInv, TypeOK, DeciderLocals
  <2> HIDE DEF l
  <2> QED
    BY <2>2, <2>3, DeciderMoves
<1> QED
  BY <1>2, <1>3, <1>4, <1>5 DEF Decide

LEMMA NextIInv == IInv /\ [Next]_vars => IInv'
<1> SUFFICES ASSUME IInv, [Next]_vars PROVE IInv'
  OBVIOUS
<1>1. ASSUME NEW w \in Waiters, Proceed(w) PROVE IInv'
  BY <1>1, InsertKeeps, WaitKeeps DEF Proceed
<1>2. ASSUME NEW s \in Sessions, DeleteSession(s) PROVE IInv'
  <2>1. /\ alive' = alive \ {s} /\ UNCHANGED <<row, pc, call, late, dpc, dcall>>
        /\ \A w \in Waiters : row[w].sid # s
    BY <1>2 DEF DeleteSession, NoRequestsLeft, UnchangedDeciders
  <2>2. TypeOK' /\ RequestsKeepSessions'
    BY <2>1 DEF IInv, TypeOK, RequestsKeepSessions, Requested
  <2>3. PollsAreLeft' /\ RowsOfCalls' /\ RowsHaveUsers' /\ DecidersAreSet' /\ OwnersDecide'
    BY <2>1 DEF IInv, PollsAreLeft, RowsOfCalls, RowsHaveUsers, DecidersAreSet, OwnersDecide, Requested
  <2> QED
    BY <2>2, <2>3 DEF IInv
<1>3. CASE UNCHANGED vars
  <2>1. TypeOK' /\ PollsAreLeft' /\ RowsOfCalls' /\ RowsHaveUsers'
    BY <1>3 DEF vars, IInv, TypeOK, PollsAreLeft, RowsOfCalls, RowsHaveUsers, Requested
  <2>2. DecidersAreSet' /\ OwnersDecide' /\ RequestsKeepSessions'
    BY <1>3 DEF vars, IInv, DecidersAreSet, OwnersDecide, RequestsKeepSessions, Requested
  <2> QED
    BY <2>1, <2>2 DEF IInv
<1> QED
  BY <1>1, <1>2, <1>3, AskKeeps, DecideKeeps DEF Next, Quiet

LEMMA Invariance == Spec => []IInv
BY InitIInv, NextIInv, PTL DEF Spec

-----------------------------------------------------------------------------

(* Rows and locals of waiters and deciders keep their types.               *)
THEOREM TypeCorrect == Spec => []TypeOK
BY Invariance, PTL DEF IInv

(* ApprovalRepository.resolve is scoped: no waiter ever hears a decision   *)
(* its own user did not make, whoever tries, and however often.            *)
THEOREM OnlyOwnersDecide == Spec => []OwnersDecide
BY Invariance, PTL DEF IInv

(* approvals.session_id has no ON DELETE CASCADE: the session of a request *)
(* stays, so that no request is ever orphaned.                             *)
THEOREM RequestsHoldSessions == Spec => []RequestsKeepSessions
BY Invariance, PTL DEF IInv

-----------------------------------------------------------------------------
(* What a waiter hears, when no user decides a request twice and there is  *)
(* time for one poll.                                                      *)

(* A decision in the table is that of a decider that is past its UPDATE,   *)
(* and its user makes no other one.                                        *)
DecidersFit ==
    /\ \A d \in Deciders : dpc[d] = "idle" => dcall[d].on = NoWaiter
    /\ \A d, e \in Deciders :
         /\ dcall[d].on \in Waiters
         /\ dcall[d].on = dcall[e].on /\ dcall[d].user = dcall[e].user
         => d = e
    /\ \A w \in Waiters : row[w].by # NoUser =>
         \E d \in Deciders : /\ dcall[d].on = w /\ dcall[d].user = row[w].user
                             /\ dpc[d] # "update"

(* A waiter sleeps on a pending request; what is decided while it does is  *)
(* late or will be heard.                                                  *)
Heard(w) ==
    /\ pc[w] \in {"resolved", "denied"} => row[w].status = call[w].heard
    /\ pc[w] = "timedOut" => row[w].status = "pending" \/ w \in late
    /\ pc[w] = "sleep" => row[w].status = "pending" \/ w \in late \/ TimeLeft(call[w].elapsed + 1)

HInv == IInv /\ DecidersFit /\ \A w \in Waiters : Heard(w)

LEMMA InitHInv == Init => HInv
<1> SUFFICES ASSUME Init PROVE HInv
  OBVIOUS
<1>1. DecidersFit /\ \A w \in Waiters : Heard(w)
  BY DEF Init, DecidersFit, Heard
<1> QED
  BY <1>1, InitIInv DEF HInv

(* A step of a waiter that leaves the rows alone. *)
LEMMA WaiterHears ==
    ASSUME HInv, NEW w \in Waiters, NEW p, NEW l,
           pc' = [pc EXCEPT ![w] = p], call' = [call EXCEPT ![w] = l],
           UNCHANGED <<row, late, dpc, dcall>>,
           p \in {"resolved", "denied"} => row[w].status = l.heard,
           p = "timedOut" => row[w].status = "pending" \/ w \in late,
           p = "sleep" => row[w].status = "pending"
    PROVE  DecidersFit' /\ \A v \in Waiters : Heard(v)'
<1>1. DecidersFit'
  BY DEF HInv, DecidersFit
<1>2. ASSUME NEW v \in Waiters PROVE Heard(v)'
  <2>1. CASE v = w
    <3>1. pc'[v] = p /\ call'[v] = l
      BY <2>1 DEF HInv, IInv, TypeOK
    <3> QED
      BY <2>1, <3>1 DEF Heard
  <2>2. CASE v # w
    <3>1. pc'[v] = pc[v] /\ call'[v] = call[v]
      BY <2>2 DEF HInv, IInv, TypeOK
    <3> QED
      BY <3>1 DEF HInv, Heard, TimeLeft
  <2> QED
    BY <2>1, <2>2
<1> QED
  BY <1>1, <1>2

LEMMA AskHears ==
    ASSUME HInv, NEW w \in Waiters, NEW s \in Sessions, NEW tool \in Tools,
           NEW rules \in RuleSets, Ask(w, s, tool, rules)
    PROVE  DecidersFit' /\ \A v \in Waiters : Heard(v)'
<1> DEFINE l == [call[w] EXCEPT !.sid = s, !.policy = Evaluate(tool, rules)]
           p == IF Evaluate(tool, rules) = "auto" THEN "free" ELSE "insert"
<1>1. call' = [call EXCEPT ![w] = l] /\ pc' = [pc EXCEPT ![w] = p]
  BY DEF HInv, IInv, TypeOK, Ask, Goto
<1>2. UNCHANGED <<row, late, dpc, dcall>> /\ p \in {"free", "insert"}
  BY DEF Ask, UnchangedDeciders
<1> HIDE DEF l, p
<1> QED
  BY <1>1, <1>2, WaiterHears

LEMMA WaitHears ==
    ASSUME Timeout # 0, HInv, NEW w \in Waiters, Proceed(w)
    PROVE  DecidersFit' /\ \A v \in Waiters : Heard(v)'
<1>1. /\ call[w] \in Locals /\ call = [call EXCEPT ![w] = call[w]] /\ row[w] \in Row
      /\ row \in [Waiters -> Row] /\ pc \in [Waiters -> {"idle"} \cup Awaits \cup Ended]
  BY DEF HInv, IInv, TypeOK
<1>2. CASE InsertRequest(w)
  <2>1. /\ row'[w].by = NoUser /\ pc'[w] = "reread" /\ UNCHANGED <<call, late, dpc, dcall>>
        /\ \A v \in Waiters \ {w} : row'[v] = row[v] /\ pc'[v] = pc[v]
    BY <1>1, <1>2 DEF InsertRequest, Goto, UnchangedDeciders
  <2>2. DecidersFit'
    BY <2>1 DEF HInv, DecidersFit
  <2>3. ASSUME NEW v \in Waiters PROVE Heard(v)'
    BY <2>1 DEF HInv, Heard, TimeLeft
  <2> QED
    BY <2>2, <2>3
<1>3. CASE InsertFails(w)
  <2>1. /\ pc' = [pc EXCEPT ![w] = "raised"] /\ call' = [call EXCEPT ![w] = call[w]]
        /\ UNCHANGED <<row, late, dpc, dcall>>
    BY <1>1, <1>3 DEF InsertFails, Goto, UnchangedDeciders
  <2> QED
    BY <2>1, WaiterHears
<1>4. CASE RereadRequest(w)
  <2>1. TimeLeft(0)
    BY DEF TimeLeft
  <2>2. PICK p \in {"raised", "poll"} : pc' = [pc EXCEPT ![w] = p]
    BY <1>4, <2>1 DEF RereadRequest, Loop, Goto
  <2>3. call' = [call EXCEPT ![w] = call[w]] /\ UNCHANGED <<row, late, dpc, dcall>>
    BY <1>1, <1>4 DEF RereadRequest, UnchangedDeciders
  <2> QED
    BY <2>2, <2>3, WaiterHears
<1>5. CASE Poll(w)
  <2> DEFINE p == CASE row[w].status = "pending" -> "sleep"
                    [] row[w].status = "other"   -> "raised"
                    [] row[w].status = "denied"  -> "denied"
                    [] row[w].status \in {"approved", "expired"} -> "resolved"
             l == [call[w] EXCEPT !.heard = row[w].status]
  <2>1. /\ pc[w] = "poll" /\ pc' = [pc EXCEPT ![w] = p] /\ call' = [call EXCEPT ![w] = l]
        /\ UNCHANGED <<row, late, dpc, dcall>>
    BY <1>1, <1>5 DEF Poll, Goto, UnchangedDeciders
  <2>2. row[w].status \in Statuses
    BY <1>1, <2>1 DEF HInv, IInv, TypeOK, Requested, Row
  <2>3. \/ p = "sleep" /\ row[w].status = "pending"
        \/ p \in {"raised", "denied", "resolved"}
    BY <2>2 DEF Statuses
  <2>4. l.heard = row[w].status
    BY <1>1 DEF Locals
  <2> HIDE DEF p, l
  <2> QED
    BY <2>1, <2>3, <2>4, WaiterHears
<1>6. CASE Sleep(w)
  <2> DEFINE e == call[w].elapsed + 1
             p == IF TimeLeft(e) THEN "poll" ELSE "timedOut"
             l == [call[w] EXCEPT !.elapsed = @ + 1]
  <2>1. /\ pc[w] = "sleep" /\ pc' = [pc EXCEPT ![w] = p] /\ call' = [call EXCEPT ![w] = l]
        /\ UNCHANGED <<row, late, dpc, dcall>>
    BY <1>1, <1>6 DEF Sleep, Loop, Goto, UnchangedDeciders
  <2>2. p = "poll" \/ (p = "timedOut" /\ ~TimeLeft(e))
    OBVIOUS
  <2>3. ~TimeLeft(e) => row[w].status = "pending" \/ w \in late
    BY <2>1 DEF HInv, Heard
  <2> HIDE DEF p, l
  <2> QED
    BY <2>1, <2>2, <2>3, WaiterHears
<1> QED
  BY <1>2, <1>3, <1>4, <1>5, <1>6 DEF Proceed

(* The UPDATE of a decider: the first and only one of its user.            *)
LEMMA UpdateHeard ==
    ASSUME HInv, NEW d \in Deciders, UpdateRow(d)
    PROVE  DecidersFit' /\ \A v \in Waiters : Heard(v)'
<1> DEFINE w == dcall[d].on  u == dcall[d].user
<1>1. /\ w \in Waiters /\ u \in Users /\ dpc[d] = "update"
      /\ row \in [Waiters -> Row] /\ dpc \in [Deciders -> {"idle", "update", "answer", "done", "raised"}]
  BY DEF HInv, IInv, TypeOK, DecidersAreSet, UpdateRow
<1>2. /\ dpc' = [dpc EXCEPT ![d] = "answer"] /\ UNCHANGED <<pc, call, dcall>>
  BY DEF UpdateRow
<1>3. dpc'[d] = "answer" /\ \A e \in Deciders \ {d} : dpc'[e] = dpc[e]
  BY <1>1, <1>2
<1>4. CASE ~OwnRow(u, w)
  <2>1. UNCHANGED <<row, late>>
    BY <1>4 DEF UpdateRow
  <2>2. DecidersFit'
    BY <1>2, <1>3, <2>1 DEF HInv, DecidersFit
  <2>3. \A v \in Waiters : Heard(v)'
    BY <1>2, <2>1 DEF HInv, Heard, TimeLeft
  <2> QED
    BY <2>2, <2>3
<1>5. CASE OwnRow(u, w)
  <2> DEFINE r == [row[w] EXCEPT !.status = dcall[d].decision, !.by = u]
  <2>1. /\ row' = [row EXCEPT ![w] = r] /\ row[w].user = u
        /\ late' = IF NoPollLeft(w) THEN late \cup {w} ELSE late
    BY <1>1, <1>5 DEF UpdateRow, OwnRow
  <2>2. r.by = u /\ r.user = u
    BY <1>1, <2>1 DEF Row
  <2> HIDE DEF r
  <2>3. row'[w] = r /\ \A v \in Waiters \ {w} : row'[v] = row[v]
    BY <1>1, <2>1
  <2>4. row[w].by = NoUser
    <3>1. ASSUME row[w].by # NoUser PROVE FALSE
      <4>1. PICK e \in Deciders : dcall[e].on = w /\ dcall[e].user = u /\ dpc[e] # "update"
        BY <1>1, <2>1, <3>1 DEF HInv, DecidersFit
      <4> QED
        BY <1>1, <4>1 DEF HInv, DecidersFit
    <3> QED
      BY <3>1
  <2>5. pc[w] \notin {"resolved", "denied"}
    <3>1. pc[w] \in {"resolved", "denied"} => row[w].by = Owner[call[w].sid] /\ call[w].sid \in Sessions
      BY <1>1 DEF HInv, IInv, OwnersDecide, RowsOfCalls
    <3> QED
      BY <2>4, <3>1
  <2>6. DecidersFit'
    <3>1. \A v \in Waiters : row'[v].by # NoUser =>
            \E e \in Deciders : dcall[e].on = v /\ dcall[e].user = row'[v].user /\ dpc'[e] # "update"
      <4> SUFFICES ASSUME NEW v \in Waiters, row'[v].by # NoUser
                   PROVE  \E e \in Deciders : /\ dcall[e].on = v /\ dcall[e].user = row'[v].user
                                              /\ dpc'[e] # "update"
        OBVIOUS
      <4>1. CASE v = w
        BY <1>3, <2>2, <2>3, <4>1
      <4>2. CASE v # w
        BY <1>3, <2>3, <4>2 DEF HInv, DecidersFit
      <4> QED
        BY <4>1, <4>2
    <3>2. \A e \in Deciders : dpc'[e] = "idle" => dcall[e].on = NoWaiter
      BY <1>3 DEF HInv, DecidersFit
    <3> QED
      BY <1>2, <3>1, <3>2 DEF HInv, DecidersFit
  <2>7. ASSUME NEW v \in Waiters PROVE Heard(v)'
    <3>1. CASE v = w
      <4>1. pc[w] = "timedOut" => w \in late'
        BY <2>1 DEF NoPollLeft, Ended
      <4>2. pc[w] = "sleep" => w \in late' \/ TimeLeft(call[w].elapsed + 1)
        <5>1. call[w].elapsed \in Nat
          BY <1>1 DEF HInv, IInv, TypeOK, Locals
        <5> QED
          BY <2>1, <5>1 DEF NoPollLeft, TimeLeft
      <4> QED
        BY <1>2, <2>5, <3>1, <4>1, <4>2 DEF Heard, TimeLeft
    <3>2. CASE v # w
      <4>1. row'[v] = row[v] /\ (v \in late => v \in late')
        BY <2>1, <2>3, <3>2
      <4> QED
        BY <1>2, <4>1 DEF HInv, Heard, TimeLeft
    <3> QED
      BY <3>1, <3>2
  <2> QED
    BY <2>6, <2>7
<1> QED
  BY <1>4, <1>5

LEMMA DecideHeard ==
    ASSUME DecideOnce, HInv, NEW d \in Deciders, Decide(d)
    PROVE  DecidersFit' /\ \A v \in Waiters : Heard(v)'
<1>0. /\ dcall \in [Deciders -> DeciderLocals] /\ dcall[d] \in DeciderLocals
      /\ dpc \in [Deciders -> {"idle", "update", "answer", "done", "raised"}]
  BY DEF HInv, IInv, TypeOK
<1>1. ASSUME UNCHANGED <<row, pc, call, late>> PROVE \A v \in Waiters : Heard(v)'
  BY <1>1 DEF HInv, Heard, TimeLeft
<1>2. ASSUME NEW u \in Users, NEW w \in Waiters, NEW st \in Statuses, StartDeciding(d, u, w, st)
      PROVE  DecidersFit'
  <2>1. /\ dpc[d] = "idle" /\ dpc'[d] = "update" /\ dcall'[d].on = w /\ dcall'[d].user = u
        /\ \A e \in Deciders \ {d} : dpc'[e] = dpc[e] /\ dcall'[e] = dcall[e]
        /\ row' = row
    BY <1>0, <1>2 DEF StartDeciding
  <2>2. \A e \in Deciders : ~(dcall[e].on = w /\ dcall[e].user = u)
    BY <1>2 DEF StartDeciding, MayDecide
  <2>3. dcall[d].on \notin Waiters
    BY <2>1, NoneAssumption DEF HInv, DecidersFit
  <2>4. \A v \in Waiters : row'[v].by # NoUser =>
          \E e \in Deciders : dcall'[e].on = v /\ dcall'[e].user = row'[v].user /\ dpc'[e] # "update"
    <3> SUFFICES ASSUME NEW v \in Waiters, row'[v].by # NoUser
                 PROVE  \E e \in Deciders : /\ dcall'[e].on = v /\ dcall'[e].user = row'[v].user
                                            /\ dpc'[e] # "update"
      OBVIOUS
    <3>1. PICK e \in Deciders : dcall[e].on = v /\ dcall[e].user = row[v].user /\ dpc[e] # "update"
      BY <2>1 DEF HInv, DecidersFit
    <3>2. e # d
      BY <2>3, <3>1
    <3> QED
      BY <2>1, <3>1, <3>2
  <2>5. \A e, f \in Deciders :
          dcall'[e].on \in Waiters /\ dcall'[e].on = dcall'[f].on /\ dcall'[e].user = dcall'[f].user
          => e = f
    BY <2>1, <2>2 DEF HInv, DecidersFit
  <2>6. \A e \in Deciders : dpc'[e] = "idle" => dcall'[e].on = NoWaiter
    BY <2>1 DEF HInv, DecidersFit
  <2> QED
    BY <2>4, <2>5, <2>6 DEF DecidersFit
<1>3. CASE UpdateRow(d)
  BY <1>3, UpdateHeard
<1>4. CASE AnswerResolved(d) \/ AnswerReread(d)
  <2>1. /\ dpc[d] = "answer" /\ dpc'[d] \in {"done", "raised"}
        /\ dcall'[d].on = dcall[d].on /\ dcall'[d].user = dcall[d].user
        /\ \A e \in Deciders \ {d} : dpc'[e] = dpc[e] /\ dcall'[e] = dcall[e]
        /\ UNCHANGED <<row, pc, call, late>>
    BY <1>0, <1>4 DEF AnswerResolved, AnswerReread, DeciderLocals
  <2>2. \A e \in Deciders : dcall'[e].on = dcall[e].on /\ dcall'[e].user = dcall[e].user
    BY <2>1
  <2>3. /\ \A e \in Deciders : dpc'[e] = "idle" => dpc[e] = "idle"
        /\ \A e \in Deciders : dpc[e] # "update" => dpc'[e] # "update"
    BY <2>1
  <2>4. DecidersFit'
    BY <2>1, <2>2, <2>3 DEF HInv, DecidersFit
  <2> QED
    BY <1>1, <2>1, <2>4
<1>5. ASSUME NEW u \in Users, NEW w \in Waiters, NEW st \in Statuses, StartDeciding(d, u, w, st)
      PROVE  \A v \in Waiters : Heard(v)'
  BY <1>1, <1>5 DEF StartDeciding
<1> QED
  BY <1>2, <1>3, <1>4, <1>5 DEF Decide

LEMMA NextHInv == ASSUME DecideOnce, Timeout # 0 PROVE HInv /\ [Next]_vars => HInv'
<1> SUFFICES ASSUME HInv, [Next]_vars PROVE HInv'
  OBVIOUS
<1>1. IInv'
  BY NextIInv DEF HInv
<1>2. CASE \E s \in Sessions : DeleteSession(s)
  <2>1. UNCHANGED <<row, pc, call, late, dpc, dcall>>
    BY <1>2 DEF DeleteSession, UnchangedDeciders
  <2>2. DecidersFit' /\ \A w \in Waiters : Heard(w)'
    BY <2>1 DEF HInv, DecidersFit, Heard, TimeLeft
  <2> QED
    BY <1>1, <2>2 DEF HInv
<1>3. CASE UNCHANGED vars
  <2>1. DecidersFit' /\ \A w \in Waiters : Heard(w)'
    BY <1>3 DEF vars, HInv, DecidersFit, Heard, TimeLeft
  <2> QED
    BY <1>1, <2>1 DEF HInv
<1> QED
  BY <1>1, <1>2, <1>3, AskHears, WaitHears, DecideHeard DEF Next, Quiet, HInv

(* When no user decides a request twice, the waiter of a request hears     *)
(* what the table says ever after, and gives up only on a request that is  *)
(* pending or was decided after its last poll (wait_for_resolution).       *)
THEOREM WaitersStayInformed ==
    ASSUME DecideOnce, Timeout # 0 PROVE Spec => []WaitersHearDecisions
<1>1. HInv => WaitersHearDecisions
  BY DEF HInv, Heard, WaitersHearDecisions
<1>2. HInv /\ [Next]_vars => HInv'
  BY NextHInv
<1> QED
  BY InitHInv, <1>1, <1>2, PTL DEF Spec

=============================================================================
