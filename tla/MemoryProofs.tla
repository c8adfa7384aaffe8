---------------------------- MODULE MemoryProofs ----------------------------
(***************************************************************************)
(* Theorems about Memory, for every number of tasks, sessions and entries, *)
(* every limit and every number of deaths.                                 *)
(***************************************************************************)
EXTENDS Memory, FiniteSetTheorems, WellFoundedInduction, TLAPS

(* A promotion has written the summary of its whole batch before it        *)
(* deletes a row of it, and what is not left to delete is gone.            *)
PromotionOK(p, l) ==
    /\ p \in {"promote", "promoting"} => l.page \subseteq l.batch /\ l.batch \subseteq Added
    /\ p = "promoting" => l.batch \subseteq Summarised
    /\ p = "promote" => l.page = l.batch
    /\ p = "promoting" => \A i \in l.batch \ l.page : row[i] = NoSession

(* A recall that was not cut has what it was due, or will find it. *)
RecallOK(p, l) ==
    /\ p = "recalling" => l.sid \in Sessions
    /\ p = "recalling" /\ ~l.cut =>
         \A s \in Sessions : l.sid = s => l.due \subseteq l.batch \cup Remembered(s)
    /\ p = "recalled" /\ ~l.cut => l.due \subseteq l.batch

TasksOK == \A t \in Tasks : PromotionOK(pc[t], local[t]) /\ RecallOK(pc[t], local[t])

PromotedWereAdded == promoted \subseteq Added

(* Entries that were not added yet have no row. *)
BufferWasAdded == \A i \in Items : row[i] # NoSession => i \in Added

IInv ==
    /\ TypeOK
    /\ TasksOK
    /\ NothingIsLost
    /\ PromotedWereAdded
    /\ BufferWasAdded
    /\ PromotedLeaveTheBuffer

USE SessionAssumption, BoundAssumption, LimitAssumption

Places == {"idle", "recalling", "cleared", "recalled"} \cup Busy

-----------------------------------------------------------------------------

LEMMA NothingType ==
    ASSUME NEW s \in Sessions \cup {NoSession}
    PROVE  /\ Nothing(s) \in Locals /\ Nothing(s).sid = s /\ Nothing(s).page = {}
           /\ Nothing(s).batch = {} /\ Nothing(s).due = {} /\ Nothing(s).cut = FALSE
BY DEF Nothing, Locals

LEMMA InitIInv == Init => IInv
<1> SUFFICES ASSUME Init PROVE IInv
  OBVIOUS
<1>1. TypeOK
  <2>1. local \in [Tasks -> Locals]
    BY NothingType DEF Init
  <2>2. next \in 1..(MaxItems + 1) /\ deaths \in 0..MaxDeaths
    BY DEF Init
  <2>3. row \in [Items -> Sessions \cup {NoSession}] /\ summaries \in Seq(Summaries)
    BY DEF Init
  <2> QED
    BY <2>1, <2>2, <2>3 DEF Init, TypeOK, Busy
<1>2. TasksOK
  BY DEF Init, TasksOK, PromotionOK, RecallOK
<1>3. Added = {}
  BY DEF Init, Added
<1>4. NothingIsLost /\ PromotedWereAdded /\ BufferWasAdded /\ PromotedLeaveTheBuffer
  BY <1>3 DEF Init, NothingIsLost, PromotedWereAdded, BufferWasAdded, PromotedLeaveTheBuffer
<1> QED
  BY <1>1, <1>2, <1>4 DEF IInv

-----------------------------------------------------------------------------

(* A limit that is not reached cuts nothing off. *)
LEMMA NothingCut ==
    ASSUME NEW n \in Nat, NEW ids \in SUBSET (1..n), NEW m \in Nat, Cardinality(ids) <= m
    PROVE  Newest(ids, m) = ids
<1>1. IsFiniteSet(1..n)
  BY FS_Interval
<1>2. IsFiniteSet(ids) /\ Cardinality(ids) \in Nat
  BY <1>1, FS_Subset, FS_CardinalityType
<1>3. ASSUME NEW i \in ids PROVE Cardinality({j \in ids : j > i}) < m
  <2> DEFINE later == {j \in ids : j > i}
  <2>1. later \in SUBSET (ids \ {i})
    OBVIOUS
  <2>2. IsFiniteSet(ids \ {i}) /\ Cardinality(ids \ {i}) = Cardinality(ids) - 1
    BY <1>2, FS_RemoveElement
  <2>3. IsFiniteSet(later) /\ Cardinality(later) <= Cardinality(ids \ {i})
    BY <2>1, <2>2, FS_Subset
  <2>4. Cardinality(later) \in Nat
    BY <2>3, FS_CardinalityType
  <2> HIDE DEF later
  <2>5. Cardinality(later) < m
    BY <1>2, <2>2, <2>3, <2>4
  <2> QED
    BY <2>5 DEF later
<1> QED
  BY <1>3 DEF Newest

LEMMA Longer ==
    ASSUME NEW m \in Int, NEW n \in Int, m <= n
    PROVE  1..(m - 1) \subseteq 1..(n - 1)
OBVIOUS

LEMMA NewestAreSome == ASSUME NEW ids, NEW m PROVE Newest(ids, m) \subseteq ids
BY DEF Newest

(* What a step may change for the tasks that do not take it: summaries are *)
(* added, rows are added beyond those there are, and rows are deleted.     *)
LEMMA OtherTask ==
    ASSUME IInv, NEW t \in Tasks, pc'[t] = pc[t], local'[t] = local[t],
           next' >= next, next' \in Nat,
           Summarised \subseteq Summarised',
           \A s \in Sessions : Remembered(s) \subseteq Remembered(s)',
           \A i \in Added : row[i] = NoSession => row'[i] = NoSession
    PROVE  (PromotionOK(pc[t], local[t]) /\ RecallOK(pc[t], local[t]))'
<1>1. PromotionOK(pc[t], local[t]) /\ RecallOK(pc[t], local[t])
  BY DEF IInv, TasksOK
<1>2. Added \subseteq Added'
  <2>1. next \in Int
    BY DEF IInv, TypeOK
  <2>2. next \in Int /\ next' \in Int /\ next <= next'
    BY <2>1
  <2>3. 1..(next - 1) \subseteq 1..(next' - 1)
    BY ONLY <2>2, Longer
  <2> QED
    BY <2>3 DEF Added
<1>3. \A i \in Items : i \in local[t].batch /\ pc[t] = "promoting" => i \in Added
  BY <1>1 DEF PromotionOK
<1>4. PromotionOK(pc[t], local[t])'
  BY <1>1, <1>2, <1>3 DEF PromotionOK
<1>5. RecallOK(pc[t], local[t])'
  BY <1>1 DEF RecallOK
<1> QED
  BY <1>4, <1>5

(* What a step needs to keep IInv, for the task t that takes it. *)
LEMMA StepIInv ==
    ASSUME IInv, TypeOK', NEW t \in Tasks,
           next' >= next, next' \in Nat,
           Summarised \subseteq Summarised',
           \A s \in Sessions : Remembered(s) \subseteq Remembered(s)',
           \A i \in Added : row[i] = NoSession => row'[i] = NoSession,
           \A u \in Tasks \ {t} : pc'[u] = pc[u] /\ local'[u] = local[u],
           (PromotionOK(pc[t], local[t]) /\ RecallOK(pc[t], local[t]))',
           NothingIsLost', PromotedWereAdded', BufferWasAdded', PromotedLeaveTheBuffer'
    PROVE  IInv'
<1>1. ASSUME NEW u \in Tasks PROVE (PromotionOK(pc[u], local[u]) /\ RecallOK(pc[u], local[u]))'
  <2>1. CASE u = t
    BY <2>1
  <2>2. CASE u # t
    <3>1. pc'[u] = pc[u] /\ local'[u] = local[u]
      BY <2>2
    <3> QED
      BY <3>1, OtherTask
  <2> QED
    BY <2>1, <2>2
<1>2. TasksOK'
  BY <1>1 DEF TasksOK
<1> QED
  BY <1>2 DEF IInv

(* Adding an entry: the rows of the others stay, next grows by one. *)
LEMMA AddIInv == ASSUME IInv, NEW s \in Sessions, AddShortTerm(s) PROVE IInv'
<1>1. /\ next <= MaxItems /\ row' = [row EXCEPT ![next] = s] /\ next' = next + 1
      /\ UNCHANGED <<summaries, pc, local, cleared, promoted, deaths>>
  BY DEF AddShortTerm
<1>2. next \in 1..MaxItems /\ next' \in 1..(MaxItems + 1) /\ next' >= next /\ next' \in Nat
  <2>1. next \in 1..(MaxItems + 1)
    BY DEF IInv, TypeOK
  <2> QED
    BY <1>1, <2>1
<1>3. row' \in [Items -> Sessions \cup {NoSession}] /\ \A i \in Items \ {next} : row'[i] = row[i]
  BY <1>1, <1>2 DEF IInv, TypeOK, Items
<1>4. row'[next] = s
  BY <1>1, <1>2 DEF IInv, TypeOK, Items
<1>5. TypeOK'
  BY <1>1, <1>2, <1>3 DEF IInv, TypeOK
<1>6. Added' = Added \cup {next} /\ next \notin Added /\ Added \subseteq Items
  BY <1>1, <1>2 DEF Added, Items
<1>7. Summarised' = Summarised
  BY <1>1 DEF Summarised
<1>8. \A u \in Sessions : Remembered(u)' = Remembered(u)
  BY <1>1 DEF Remembered
<1>9. \A i \in Added : row'[i] = row[i]
  BY <1>3, <1>6
<1>10. NothingIsLost'
  <2>1. NothingIsLost
    BY DEF IInv
  <2>2. s # NoSession
    OBVIOUS
  <2>3. \A i \in Added' : row'[i] # NoSession \/ i \in Summarised' \/ i \in cleared'
    BY <1>1, <1>4, <1>6, <1>7, <1>9, <2>1, <2>2 DEF NothingIsLost
  <2> QED
    BY <2>3 DEF NothingIsLost
<1>11. PromotedWereAdded' /\ PromotedLeaveTheBuffer'
  BY <1>1, <1>6, <1>9 DEF IInv, PromotedWereAdded, PromotedLeaveTheBuffer
<1>14. BufferWasAdded'
  BY <1>3, <1>6 DEF IInv, BufferWasAdded
<1>12. ASSUME NEW t \in Tasks PROVE (PromotionOK(pc[t], local[t]) /\ RecallOK(pc[t], local[t]))'
  BY <1>1, <1>2, <1>7, <1>8, <1>9, OtherTask
<1>13. TasksOK'
  BY <1>12 DEF TasksOK
<1> QED
  BY <1>5, <1>10, <1>11, <1>13, <1>14 DEF IInv

-----------------------------------------------------------------------------

(* Steps that leave the rows, the summaries and next alone. *)
LEMMA ReadingIInv ==
    ASSUME IInv, NEW t \in Tasks, TypeOK',
           UNCHANGED <<next, row, summaries, cleared, promoted>>,
           \A u \in Tasks \ {t} : pc'[u] = pc[u] /\ local'[u] = local[u],
           (PromotionOK(pc[t], local[t]) /\ RecallOK(pc[t], local[t]))'
    PROVE  IInv'
<1>1. Added' = Added
  BY DEF Added
<1>2. Summarised' = Summarised
  BY DEF Summarised
<1>3. \A s \in Sessions : Remembered(s)' = Remembered(s)
  BY DEF Remembered
<1>4. next' \in Nat /\ next' >= next
  BY DEF IInv, TypeOK
<1>5. NothingIsLost'
  BY <1>1, <1>2 DEF IInv, NothingIsLost
<1>6. PromotedWereAdded' /\ BufferWasAdded' /\ PromotedLeaveTheBuffer'
  BY <1>1 DEF IInv, PromotedWereAdded, BufferWasAdded, PromotedLeaveTheBuffer
<1> QED
  BY <1>2, <1>3, <1>4, <1>5, <1>6, StepIInv

(* A task that starts or stops: its local is a record that says so. *)
LEMMA LocallyType ==
    ASSUME IInv, NEW t \in Tasks, NEW p \in Places, NEW l \in Locals, Goto(t, p), Locally(t, l),
           p \in Busy => l.sid \in Sessions /\ l.page # {},
           UNCHANGED <<next, row, summaries, cleared, promoted>>, deaths' \in 0..MaxDeaths
    PROVE  /\ TypeOK' /\ pc'[t] = p /\ local'[t] = l
           /\ \A u \in Tasks \ {t} : pc'[u] = pc[u] /\ local'[u] = local[u]
<1>1. pc \in [Tasks -> Places] /\ local \in [Tasks -> Locals]
  BY DEF IInv, TypeOK, Places
<1>2. pc' \in [Tasks -> Places] /\ local' \in [Tasks -> Locals]
  BY <1>1 DEF Goto, Locally
<1>3. /\ pc'[t] = p /\ local'[t] = l
      /\ \A u \in Tasks \ {t} : pc'[u] = pc[u] /\ local'[u] = local[u]
  BY <1>1 DEF Goto, Locally
<1>4. \A u \in Tasks : pc'[u] \in Busy => local'[u].sid \in Sessions /\ local'[u].page # {}
  BY <1>3 DEF IInv, TypeOK
<1> QED
  BY <1>2, <1>3, <1>4 DEF IInv, TypeOK, Places

(* A task that goes idle. *)
LEMMA RestIInv ==
    ASSUME IInv, NEW t \in Tasks, Goto(t, "idle"), Locally(t, Nothing(NoSession)),
           UNCHANGED <<next, row, summaries, cleared, promoted>>, deaths' \in 0..MaxDeaths
    PROVE  IInv'
<1>1. "idle" \in Places /\ "idle" \notin Busy
  BY DEF Places, Busy
<1>2. Nothing(NoSession) \in Locals
  BY NothingType
<1>3. /\ TypeOK' /\ pc'[t] = "idle"
      /\ \A u \in Tasks \ {t} : pc'[u] = pc[u] /\ local'[u] = local[u]
  BY <1>1, <1>2, LocallyType
<1>4. (PromotionOK(pc[t], local[t]) /\ RecallOK(pc[t], local[t]))'
  BY <1>3 DEF PromotionOK, RecallOK
<1> QED
  BY <1>3, <1>4, ReadingIInv

LEMMA ReturnIInv == ASSUME IInv, NEW t \in Tasks, Return(t) PROVE IInv'
<1>1. deaths' \in 0..MaxDeaths
  BY DEF IInv, TypeOK, Return
<1> QED
  BY <1>1, RestIInv DEF Return

LEMMA DieIInv == ASSUME IInv, NEW t \in Tasks, Die(t) PROVE IInv'
<1>1. deaths' \in 0..MaxDeaths
  BY DEF IInv, TypeOK, Die
<1> QED
  BY <1>1, RestIInv DEF Die


LEMMA RememberedType ==
    ASSUME IInv, NEW s \in Sessions PROVE Remembered(s) \in SUBSET Items
<1>1. summaries \in Seq(Summaries)
  BY DEF IInv, TypeOK
<1>2. ASSUME NEW k \in DOMAIN summaries PROVE summaries[k].items \in SUBSET Items
  <2>1. summaries[k] \in Summaries
    BY <1>1
  <2> QED
    BY <2>1 DEF Summaries
<1> QED
  BY <1>2 DEF Remembered

LEMMA ReadBufferIInv ==
    ASSUME IInv, NEW t \in Tasks, NEW s \in Sessions, ReadBuffer(t, s) PROVE IInv'
<1> DEFINE found == Newest(Buffer(s), PromoteLimit)
           l == [Nothing(s) EXCEPT !.page = found, !.batch = found]
<1>1. found # {} /\ Locally(t, l) /\ Goto(t, "promote")
      /\ UNCHANGED <<next, row, summaries, cleared, promoted, deaths>>
  BY DEF ReadBuffer
<1>2. found \subseteq Added
  <2>1. Buffer(s) \subseteq Added
    BY DEF Buffer, IInv, BufferWasAdded
  <2> QED
    BY <2>1, NewestAreSome
<1>3. found \in SUBSET Items
  BY NewestAreSome DEF Buffer
<1> HIDE DEF found
<1>4. l \in Locals /\ l.page = found /\ l.batch = found /\ l.sid = s
  BY <1>3 DEF Nothing, Locals
<1> HIDE DEF l
<1>5. "promote" \in Places
  BY DEF Places, Busy
<1>6. deaths' \in 0..MaxDeaths
  BY <1>1 DEF IInv, TypeOK
<1>7. /\ TypeOK' /\ pc'[t] = "promote" /\ local'[t] = l
      /\ \A u \in Tasks \ {t} : pc'[u] = pc[u] /\ local'[u] = local[u]
  BY <1>1, <1>4, <1>5, <1>6, LocallyType
<1>8. Added' = Added
  BY <1>1 DEF Added
<1>9. (PromotionOK(pc[t], local[t]) /\ RecallOK(pc[t], local[t]))'
  BY <1>2, <1>4, <1>7, <1>8 DEF PromotionOK, RecallOK
<1> QED
  BY <1>1, <1>7, <1>9, ReadingIInv

LEMMA ReadPageIInv ==
    ASSUME IInv, NEW t \in Tasks, NEW s \in Sessions, ReadPage(t, s) PROVE IInv'
<1> DEFINE found == Newest(Buffer(s), PageLimit)
           due == Buffer(s)
           l == [Nothing(s) EXCEPT !.page = found, !.due = due]
<1>1. found # {} /\ Locally(t, l) /\ Goto(t, "clearing")
      /\ UNCHANGED <<next, row, summaries, cleared, promoted, deaths>>
  BY DEF ReadPage
<1>2. found \in SUBSET Items /\ due \in SUBSET Items
  BY NewestAreSome DEF Buffer
<1> HIDE DEF found, due
<1>4. l \in Locals /\ l.page = found /\ l.sid = s
  BY <1>2 DEF Nothing, Locals
<1> HIDE DEF l
<1>5. "clearing" \in Places
  BY DEF Places, Busy
<1>6. deaths' \in 0..MaxDeaths
  BY <1>1 DEF IInv, TypeOK
<1>7. /\ TypeOK' /\ pc'[t] = "clearing"
      /\ \A u \in Tasks \ {t} : pc'[u] = pc[u] /\ local'[u] = local[u]
  BY <1>1, <1>4, <1>5, <1>6, LocallyType
<1>9. (PromotionOK(pc[t], local[t]) /\ RecallOK(pc[t], local[t]))'
  BY <1>7 DEF PromotionOK, RecallOK
<1> QED
  BY <1>1, <1>7, <1>9, ReadingIInv

LEMMA RecallShortTermIInv ==
    ASSUME IInv, NEW t \in Tasks, NEW s \in Sessions, RecallShortTerm(t, s) PROVE IInv'
<1> DEFINE found == Newest(Buffer(s), RecallLimit)
           due == Buffer(s) \cup Remembered(s)
           cut == found # Buffer(s)
           l == [Nothing(s) EXCEPT !.due = due, !.batch = found, !.cut = cut]
<1>1. Locally(t, l) /\ Goto(t, "recalling")
      /\ UNCHANGED <<next, row, summaries, cleared, promoted, deaths>>
  BY DEF RecallShortTerm
<1>2. found \in SUBSET Items /\ Buffer(s) \in SUBSET Items
  BY NewestAreSome DEF Buffer
<1>3. due \in SUBSET Items /\ cut \in BOOLEAN
  BY <1>2, RememberedType
<1> HIDE DEF found, due, cut
<1>4. l \in Locals /\ l.due = due /\ l.batch = found /\ l.sid = s /\ l.cut = cut
  BY <1>2, <1>3 DEF Nothing, Locals
<1> HIDE DEF l
<1>5. "recalling" \in Places /\ "recalling" \notin Busy
  BY DEF Places, Busy
<1>6. deaths' \in 0..MaxDeaths
  BY <1>1 DEF IInv, TypeOK
<1>7. /\ TypeOK' /\ pc'[t] = "recalling" /\ local'[t] = l
      /\ \A u \in Tasks \ {t} : pc'[u] = pc[u] /\ local'[u] = local[u]
  BY <1>1, <1>4, <1>5, <1>6, LocallyType
<1>8. Remembered(s)' = Remembered(s)
  BY <1>1 DEF Remembered
<1>9. ~l.cut => l.due \subseteq l.batch \cup Remembered(s)
  BY <1>4 DEF cut, due, found
<1>10. \A u \in Sessions : l.sid = u => u = s
  BY <1>4
<1>11. \A u \in Sessions : ~l.cut /\ l.sid = u => l.due \subseteq l.batch \cup Remembered(u)'
  BY <1>8, <1>9, <1>10
<1>12. PromotionOK(pc[t], local[t])'
  BY <1>7 DEF PromotionOK
<1>13. RecallOK(pc[t], local[t])'
  BY <1>4, <1>7, <1>11 DEF RecallOK
<1> QED
  BY <1>1, <1>7, <1>12, <1>13, ReadingIInv

(* A recall that was not cut reads every summary of its session. *)
LEMMA FoundAll ==
    ASSUME IInv, NEW s \in Sessions, ~(Cardinality(Matching(s)) > SearchLimit)
    PROVE  Found(s) = Remembered(s)
<1>1. summaries \in Seq(Summaries) /\ SearchLimit \in Nat
  BY DEF IInv, TypeOK
<1>2. Len(summaries) \in Nat /\ Matching(s) \in SUBSET (1..Len(summaries))
  BY <1>1 DEF Matching
<1>3. IsFiniteSet(1..Len(summaries))
  BY <1>2, FS_Interval
<1>4. Cardinality(Matching(s)) \in Nat
  BY <1>2, <1>3, FS_Subset, FS_CardinalityType
<1>5. Cardinality(Matching(s)) <= SearchLimit
  BY <1>1, <1>4
<1>6. Newest(Matching(s), SearchLimit) = Matching(s)
  BY <1>1, <1>2, <1>5, NothingCut
<1> QED
  BY <1>6 DEF Found, Matching, Remembered

LEMMA FoundType ==
    ASSUME IInv, NEW s \in Sessions PROVE Found(s) \in SUBSET Items
<1>1. Found(s) \subseteq Remembered(s)
  BY NewestAreSome DEF Found, Matching, Remembered
<1> QED
  BY <1>1, RememberedType

LEMMA RecallLongTermIInv ==
    ASSUME IInv, NEW t \in Tasks, RecallLongTerm(t) PROVE IInv'
<1> DEFINE s == local[t].sid
           found == local[t].batch \cup Found(s)
           cut == local[t].cut \/ Cardinality(Matching(s)) > SearchLimit
           l == [local[t] EXCEPT !.batch = found, !.cut = cut]
<1>1. pc[t] = "recalling" /\ Locally(t, l) /\ Goto(t, "recalled")
      /\ UNCHANGED <<next, row, summaries, cleared, promoted, deaths>>
  BY DEF RecallLongTerm
<1>2. local[t] \in Locals
  BY DEF IInv, TypeOK
<1>4. RecallOK(pc[t], local[t])
  BY DEF IInv, TasksOK
<1>14. s \in Sessions
  BY <1>1, <1>4 DEF RecallOK
<1>3. found \in SUBSET Items /\ cut \in BOOLEAN
  BY <1>2, <1>14, FoundType DEF Locals
<1>5. ~cut => local[t].due \subseteq found
  <2> SUFFICES ASSUME ~cut PROVE local[t].due \subseteq found
    OBVIOUS
  <2>1. Found(s) = Remembered(s)
    BY <1>14, FoundAll
  <2>2. ~local[t].cut
    BY <1>2 DEF Locals
  <2>3. local[t].due \subseteq local[t].batch \cup Remembered(s)
    BY <1>1, <1>4, <1>14, <2>2 DEF RecallOK
  <2> QED
    BY <2>1, <2>3
<1> HIDE DEF found, cut
<1>6. l \in Locals /\ l.due = local[t].due /\ l.batch = found /\ l.cut = cut
  BY <1>2, <1>3 DEF Locals
<1> HIDE DEF l
<1>7. "recalled" \in Places /\ "recalled" \notin Busy
  BY DEF Places, Busy
<1>8. deaths' \in 0..MaxDeaths
  BY <1>1 DEF IInv, TypeOK
<1>9. /\ TypeOK' /\ pc'[t] = "recalled" /\ local'[t] = l
      /\ \A u \in Tasks \ {t} : pc'[u] = pc[u] /\ local'[u] = local[u]
  BY <1>1, <1>6, <1>7, <1>8, LocallyType
<1>10. PromotionOK(pc[t], local[t])'
  BY <1>9 DEF PromotionOK
<1>11. RecallOK(pc[t], local[t])'
  BY <1>5, <1>6, <1>9 DEF RecallOK
<1> QED
  BY <1>1, <1>9, <1>10, <1>11, ReadingIInv

LEMMA AddSummaryIInv ==
    ASSUME IInv, NEW t \in Tasks, AddSummary(t) PROVE IInv'
<1> DEFINE new == [sid |-> local[t].sid, items |-> local[t].batch]
<1>1. /\ pc[t] = "promote" /\ summaries' = Append(summaries, new) /\ Goto(t, "promoting")
      /\ UNCHANGED <<next, row, local, cleared, promoted, deaths>>
  BY DEF AddSummary
<1>2. local[t] \in Locals /\ local[t].sid \in Sessions /\ local[t].page # {}
  BY <1>1 DEF IInv, TypeOK, Busy
<1>3. new \in Summaries /\ summaries \in Seq(Summaries)
  BY <1>2 DEF Summaries, Locals, IInv, TypeOK
<1>4. new.items = local[t].batch
  OBVIOUS
<1> HIDE DEF new
<1>5. /\ summaries' \in Seq(Summaries) /\ DOMAIN summaries' = DOMAIN summaries \cup {Len(summaries) + 1}
      /\ \A k \in DOMAIN summaries : summaries'[k] = summaries[k]
      /\ summaries'[Len(summaries) + 1] = new
  BY <1>1, <1>3
<1>6. pc \in [Tasks -> Places] /\ "promoting" \in Places /\ "promoting" \in Busy
  BY DEF IInv, TypeOK, Places, Busy
<1>7. /\ pc' \in [Tasks -> Places] /\ pc'[t] = "promoting"
      /\ \A u \in Tasks \ {t} : pc'[u] = pc[u]
  BY <1>1, <1>6 DEF Goto
<1>8. \A u \in Tasks : pc'[u] \in Busy => local'[u].sid \in Sessions /\ local'[u].page # {}
  BY <1>1, <1>2, <1>7 DEF IInv, TypeOK
<1>9. TypeOK'
  BY <1>1, <1>5, <1>7, <1>8 DEF IInv, TypeOK, Places
<1>10. Summarised \subseteq Summarised' /\ local[t].batch \subseteq Summarised'
  BY <1>4, <1>5 DEF Summarised
<1>11. \A s \in Sessions : Remembered(s) \subseteq Remembered(s)'
  BY <1>5 DEF Remembered
<1>12. Added' = Added /\ next' \in Nat /\ next' >= next
  BY <1>1 DEF Added, IInv, TypeOK
<1>13. PromotionOK(pc[t], local[t])
  BY DEF IInv, TasksOK
<1>14. PromotionOK(pc[t], local[t])'
  BY <1>1, <1>7, <1>10, <1>12, <1>13 DEF PromotionOK
<1>15. RecallOK(pc[t], local[t])'
  BY <1>7 DEF RecallOK
<1>16. NothingIsLost'
  BY <1>1, <1>10, <1>12 DEF IInv, NothingIsLost
<1>17. PromotedWereAdded' /\ BufferWasAdded' /\ PromotedLeaveTheBuffer'
  BY <1>1, <1>12 DEF IInv, PromotedWereAdded, BufferWasAdded, PromotedLeaveTheBuffer
<1>18. \A i \in Added : row[i] = NoSession => row'[i] = NoSession
  BY <1>1
<1>19. \A u \in Tasks \ {t} : pc'[u] = pc[u] /\ local'[u] = local[u]
  BY <1>1, <1>7
<1> QED
  BY <1>9, <1>10, <1>11, <1>12, <1>14, <1>15, <1>16, <1>17, <1>18, <1>19, StepIInv

(* A DELETE takes the rows of its page away and changes no other.          *)
LEMMA RowsGo ==
    ASSUME IInv, NEW t \in Tasks, DeleteRows(t)
    PROVE  /\ row' \in [Items -> Sessions \cup {NoSession}]
           /\ RowsById(t) \subseteq local[t].page
           /\ \A i \in Items : i \in RowsById(t) => row'[i] = NoSession
           /\ \A i \in Items : i \notin RowsById(t) => row'[i] = row[i]
           /\ LeftToDelete(t) = local[t].page \ RowsById(t)
BY DEF DeleteRows, RowsById, LeftToDelete, Latest, IInv, TypeOK

(* What a DELETE keeps of IInv, whoever does it: what it takes away is     *)
(* summarised or cleared.                                                  *)
LEMMA DeletingIInv ==
    ASSUME IInv, NEW t \in Tasks, TypeOK', DeleteRows(t),
           UNCHANGED <<next, summaries>>, cleared \subseteq cleared',
           RowsById(t) \subseteq Summarised \cup cleared',
           promoted' \subseteq Added, \A i \in promoted' : row'[i] = NoSession,
           \A u \in Tasks \ {t} : pc'[u] = pc[u] /\ local'[u] = local[u],
           (PromotionOK(pc[t], local[t]) /\ RecallOK(pc[t], local[t]))'
    PROVE  IInv'
<1>1. /\ row' \in [Items -> Sessions \cup {NoSession}]
      /\ \A i \in Items : i \in RowsById(t) => row'[i] = NoSession
      /\ \A i \in Items : i \notin RowsById(t) => row'[i] = row[i]
  BY RowsGo
<1>2. Added' = Added /\ next' \in Nat /\ next' >= next /\ Added \subseteq Items
  BY DEF Added, IInv, TypeOK, Items
<1>3. Summarised' = Summarised
  BY DEF Summarised
<1>4. \A s \in Sessions : Remembered(s)' = Remembered(s)
  BY DEF Remembered
<1>5. \A i \in Items : row[i] = NoSession => row'[i] = NoSession
  BY <1>1
<1>6. NothingIsLost'
  <2>1. \A i \in Added : row[i] # NoSession \/ i \in Summarised \/ i \in cleared
    BY DEF IInv, NothingIsLost
  <2>2. \A i \in Added : row'[i] # NoSession \/ i \in Summarised \/ i \in cleared'
    BY <1>1, <1>2, <2>1
  <2> QED
    BY <1>2, <1>3, <2>2 DEF NothingIsLost
<1>7. PromotedWereAdded' /\ PromotedLeaveTheBuffer'
  BY <1>2 DEF PromotedWereAdded, PromotedLeaveTheBuffer
<1>8. BufferWasAdded'
  BY <1>2, <1>5 DEF IInv, BufferWasAdded
<1> QED
  BY <1>2, <1>3, <1>4, <1>5, <1>6, <1>7, <1>8, StepIInv

LEMMA DeletePromotedIInv == ASSUME IInv, NEW t \in Tasks, DeletePromoted(t) PROVE IInv'
<1> DEFINE gone == RowsById(t)
           left == LeftToDelete(t)
<1>1. pc[t] = "promoting" /\ DeleteRows(t) /\ UNCHANGED <<next, summaries, cleared, deaths>>
  BY DEF DeletePromoted
<1>2. /\ row' \in [Items -> Sessions \cup {NoSession}]
      /\ gone \subseteq local[t].page
      /\ \A i \in Items : i \in gone => row'[i] = NoSession
      /\ \A i \in Items : i \notin gone => row'[i] = row[i]
      /\ left = local[t].page \ gone
  BY <1>1, RowsGo
<1>3. PromotionOK(pc[t], local[t])
  BY DEF IInv, TasksOK
<1>4. /\ local[t] \in Locals /\ local[t].sid \in Sessions
      /\ local \in [Tasks -> Locals] /\ pc \in [Tasks -> Places]
  BY <1>1 DEF IInv, TypeOK, Busy, Places
<1>5. /\ local[t].page \subseteq local[t].batch /\ local[t].batch \subseteq Added
      /\ local[t].batch \subseteq Summarised /\ local[t].batch \subseteq Items
      /\ \A i \in local[t].batch \ local[t].page : row[i] = NoSession
  BY <1>1, <1>3, <1>4 DEF PromotionOK, Locals
<1>6. \A i \in local[t].batch \ left : row'[i] = NoSession
  BY <1>2, <1>5
<1>7. left \in SUBSET Items /\ left \subseteq local[t].batch
  BY <1>2, <1>5
<1>8. Added' = Added /\ Summarised' = Summarised
  BY <1>1 DEF Added, Summarised
<1>9. promoted \subseteq Added /\ \A i \in promoted : row'[i] = NoSession
  <2>1. promoted \subseteq Items /\ promoted \subseteq Added /\ \A i \in promoted : row[i] = NoSession
    BY DEF IInv, TypeOK, PromotedWereAdded, PromotedLeaveTheBuffer
  <2> QED
    BY <1>2, <2>1
<1>10. gone \subseteq Summarised \cup cleared'
  BY <1>2, <1>5
<1>11. CASE left # {}
  <2> DEFINE l == [local[t] EXCEPT !.page = left]
  <2>1. Locally(t, l) /\ UNCHANGED <<pc, promoted>>
    BY <1>11 DEF DeletePromoted
  <2> HIDE DEF left
  <2>2. l \in Locals /\ l.page = left /\ l.batch = local[t].batch /\ l.sid = local[t].sid
    BY <1>4, <1>7 DEF Locals
  <2> HIDE DEF l
  <2>3. /\ local' \in [Tasks -> Locals] /\ local'[t] = l
        /\ \A u \in Tasks \ {t} : pc'[u] = pc[u] /\ local'[u] = local[u]
    BY <1>4, <2>1, <2>2 DEF Locally
  <2>4. \A u \in Tasks : pc'[u] \in Busy => local'[u].sid \in Sessions /\ local'[u].page # {}
    BY <1>4, <1>11, <2>1, <2>2, <2>3 DEF IInv, TypeOK
  <2>5. TypeOK'
    BY <1>1, <1>2, <2>1, <2>3, <2>4 DEF IInv, TypeOK
  <2>6. pc'[t] = "promoting"
    BY <1>1, <2>1
  <2>7. PromotionOK(pc[t], local[t])'
    BY <1>5, <1>6, <1>7, <1>8, <2>2, <2>3, <2>6 DEF PromotionOK
  <2>8. RecallOK(pc[t], local[t])'
    BY <2>6 DEF RecallOK
  <2>9. promoted' \subseteq Added /\ (\A i \in promoted' : row'[i] = NoSession)
        /\ cleared \subseteq cleared'
    BY <1>1, <1>9, <2>1
  <2> QED
    BY <1>1, <1>10, <2>3, <2>5, <2>7, <2>8, <2>9, DeletingIInv
<1>12. CASE left = {}
  <2>1. /\ Locally(t, Nothing(NoSession)) /\ Goto(t, "idle")
        /\ promoted' = promoted \cup local[t].batch
    BY <1>12 DEF DeletePromoted
  <2>2. Nothing(NoSession) \in Locals
    BY NothingType
  <2>3. "idle" \in Places /\ "idle" \notin Busy
    BY DEF Places, Busy
  <2>4. /\ local' \in [Tasks -> Locals] /\ pc' \in [Tasks -> Places] /\ pc'[t] = "idle"
        /\ \A u \in Tasks \ {t} : pc'[u] = pc[u] /\ local'[u] = local[u]
    BY <1>4, <2>1, <2>2, <2>3 DEF Locally, Goto
  <2>5. \A u \in Tasks : pc'[u] \in Busy => local'[u].sid \in Sessions /\ local'[u].page # {}
    BY <2>3, <2>4 DEF IInv, TypeOK
  <2>6. promoted' \subseteq Items /\ promoted' \subseteq Added /\ \A i \in promoted' : row'[i] = NoSession
    BY <1>5, <1>6, <1>9, <1>12, <2>1 DEF IInv, TypeOK
  <2>7. TypeOK'
    BY <1>1, <1>2, <2>4, <2>5, <2>6 DEF IInv, TypeOK, Places
  <2>8. (PromotionOK(pc[t], local[t]) /\ RecallOK(pc[t], local[t]))'
    BY <2>4 DEF PromotionOK, RecallOK
  <2>9. cleared \subseteq cleared'
    BY <1>1
  <2> QED
    BY <1>1, <1>10, <2>4, <2>6, <2>7, <2>8, <2>9, DeletingIInv
<1> QED
  BY <1>11, <1>12

LEMMA DeleteClearedIInv == ASSUME IInv, NEW t \in Tasks, DeleteCleared(t) PROVE IInv'
<1> DEFINE gone == RowsById(t)
           left == LeftToDelete(t)
           l == [local[t] EXCEPT !.page = left]
           p == IF left = {} THEN "cleared" ELSE "clearing"
<1>1. /\ pc[t] = "clearing" /\ DeleteRows(t) /\ cleared' = cleared \cup gone
      /\ Locally(t, l) /\ Goto(t, p) /\ UNCHANGED <<next, summaries, promoted, deaths>>
  BY DEF DeleteCleared
<1>2. /\ row' \in [Items -> Sessions \cup {NoSession}]
      /\ gone \subseteq local[t].page
      /\ \A i \in Items : i \in gone => row'[i] = NoSession
      /\ \A i \in Items : i \notin gone => row'[i] = row[i]
      /\ left = local[t].page \ gone
  BY <1>1, RowsGo
<1>3. /\ local[t] \in Locals /\ local[t].sid \in Sessions
      /\ local \in [Tasks -> Locals] /\ pc \in [Tasks -> Places]
  BY <1>1 DEF IInv, TypeOK, Busy, Places
<1>4. local[t].page \in SUBSET Items /\ left \in SUBSET Items /\ gone \in SUBSET Items
  BY <1>2, <1>3 DEF Locals
<1>5. p \in Places /\ p \in {"cleared", "clearing"} /\ (p = "clearing" => left # {})
  BY DEF Places, Busy
<1> HIDE DEF left, gone
<1>6. l \in Locals /\ l.page = left /\ l.sid = local[t].sid
  BY <1>3, <1>4 DEF Locals
<1> HIDE DEF l, p
<1>7. /\ local' \in [Tasks -> Locals] /\ local'[t] = l /\ pc' \in [Tasks -> Places] /\ pc'[t] = p
      /\ \A u \in Tasks \ {t} : pc'[u] = pc[u] /\ local'[u] = local[u]
  BY <1>1, <1>3, <1>5, <1>6 DEF Locally, Goto
<1>8. p \in Busy => l.page # {}
  BY <1>5, <1>6 DEF Busy
<1>9. \A u \in Tasks : pc'[u] \in Busy => local'[u].sid \in Sessions /\ local'[u].page # {}
  BY <1>3, <1>6, <1>7, <1>8 DEF IInv, TypeOK
<1>10. cleared' \subseteq Items /\ cleared \subseteq cleared'
  BY <1>1, <1>4 DEF IInv, TypeOK
<1>11. TypeOK'
  BY <1>1, <1>2, <1>7, <1>9, <1>10 DEF IInv, TypeOK, Places
<1>12. (PromotionOK(pc[t], local[t]) /\ RecallOK(pc[t], local[t]))'
  BY <1>5, <1>7 DEF PromotionOK, RecallOK
<1>13. promoted' \subseteq Added /\ \A i \in promoted' : row'[i] = NoSession
  <2>1. promoted \subseteq Items /\ promoted \subseteq Added /\ \A i \in promoted : row[i] = NoSession
    BY DEF IInv, TypeOK, PromotedWereAdded, PromotedLeaveTheBuffer
  <2> QED
    BY <1>1, <1>2, <2>1
<1>14. RowsById(t) \subseteq Summarised \cup cleared'
  BY <1>1 DEF gone
<1> QED
  BY <1>1, <1>7, <1>10, <1>11, <1>12, <1>13, <1>14, DeletingIInv

-----------------------------------------------------------------------------

LEMMA NextIInv == IInv /\ [Next]_vars => IInv'
<1> SUFFICES ASSUME IInv, [Next]_vars PROVE IInv'
  OBVIOUS
<1>1. ASSUME NEW s \in Sessions, AddShortTerm(s) PROVE IInv'
  BY <1>1, AddIInv
<1>2. ASSUME NEW t \in Tasks, NEW s \in Sessions, ReadBuffer(t, s) PROVE IInv'
  BY <1>2, ReadBufferIInv
<1>3. ASSUME NEW t \in Tasks, NEW s \in Sessions, ReadPage(t, s) PROVE IInv'
  BY <1>3, ReadPageIInv
<1>4. ASSUME NEW t \in Tasks, NEW s \in Sessions, RecallShortTerm(t, s) PROVE IInv'
  BY <1>4, RecallShortTermIInv
<1>5. ASSUME NEW t \in Tasks, AddSummary(t) PROVE IInv'
  BY <1>5, AddSummaryIInv
<1>6. ASSUME NEW t \in Tasks, DeletePromoted(t) PROVE IInv'
  BY <1>6, DeletePromotedIInv
<1>7. ASSUME NEW t \in Tasks, DeleteCleared(t) PROVE IInv'
  BY <1>7, DeleteClearedIInv
<1>8. ASSUME NEW t \in Tasks, RecallLongTerm(t) PROVE IInv'
  BY <1>8, RecallLongTermIInv
<1>9. ASSUME NEW t \in Tasks, Return(t) PROVE IInv'
  BY <1>9, ReturnIInv
<1>10. ASSUME NEW t \in Tasks, Die(t) PROVE IInv'
  BY <1>10, DieIInv
<1>11. CASE UNCHANGED vars
  <2>1. TypeOK'
    BY <1>11 DEF IInv, TypeOK, vars
  <2>2. Added' = Added /\ Summarised' = Summarised
    BY <1>11 DEF Added, Summarised, vars
  <2>3. \A s \in Sessions : Remembered(s)' = Remembered(s)
    BY <1>11 DEF Remembered, vars
  <2>4. TasksOK'
    <3>1. next' \in Nat /\ next' >= next
      BY <1>11 DEF IInv, TypeOK, vars
    <3> QED
      BY <1>11, <2>2, <2>3, <3>1, OtherTask DEF TasksOK, vars
  <2>5. NothingIsLost' /\ PromotedWereAdded' /\ BufferWasAdded' /\ PromotedLeaveTheBuffer'
    BY <1>11, <2>2
    DEF IInv, NothingIsLost, PromotedWereAdded, BufferWasAdded, PromotedLeaveTheBuffer, vars
  <2> QED
    BY <2>1, <2>4, <2>5 DEF IInv
<1> QED
  BY <1>1, <1>2, <1>3, <1>4, <1>5, <1>6, <1>7, <1>8, <1>9, <1>10, <1>11 DEF Next

(* In every reachable state ids, rows, summaries and the locals of the     *)
(* tasks have their types, and every task that is about to delete a row    *)
(* has one to delete (persistence/memory.py).                              *)
THEOREM TypeCorrect == Spec => []TypeOK
<1>1. IInv => TypeOK
  BY DEF IInv
<1> QED
  BY InitIInv, NextIInv, <1>1, PTL DEF Spec

(* However adds, promotions, clears and deaths interleave, an entry that   *)
(* add_short_term stored is in the buffer, in a summary, or was deleted by *)
(* clear: summarize_and_promote writes first and deletes afterwards, and   *)
(* deletes only what it has read.                                          *)
THEOREM NothingGetsLost == Spec => []NothingIsLost
<1>1. IInv => NothingIsLost
  BY DEF IInv
<1> QED
  BY InitIInv, NextIInv, <1>1, PTL DEF Spec

(* What a promotion that has returned read is not in the buffer any more,  *)
(* for any number of rows and any other tasks meanwhile.                   *)
THEOREM PromotedStayGone == Spec => []PromotedLeaveTheBuffer
<1>1. IInv => PromotedLeaveTheBuffer
  BY DEF IInv
<1> QED
  BY InitIInv, NextIInv, <1>1, PTL DEF Spec

(* A caller that reads the buffer first and the summaries second, neither  *)
(* of them cut by its limit, has every entry its session had when it       *)
(* began, whatever is promoted between the two reads.                      *)
THEOREM RecallIsComplete == Spec => []RecallFindsEverything
<1>1. IInv => RecallFindsEverything
  BY DEF IInv, TasksOK, RecallOK, RecallFindsEverything
<1> QED
  BY InitIInv, NextIInv, <1>1, PTL DEF Spec

-----------------------------------------------------------------------------
(* What clear leaves: the rows beyond the page it read. *)

LEMMA LargestOf ==
    ASSUME NEW n \in Nat, NEW S \in SUBSET (1..n), S # {}
    PROVE  \E x \in S : \A y \in S : y <= x
<1> DEFINE T == {n - x : x \in S}
<1>1. T \subseteq Nat /\ T # {}
  <2>1. \A x \in S : n - x \in Nat
    OBVIOUS
  <2> QED
    BY <2>1
<1> HIDE DEF T
<1>2. PICK m \in T : \A k \in T : <<k, m>> \notin OpToRel(<, Nat)
  BY <1>1, WFMin, NatLessThanWellFounded, Zenon
<1>3. \A k \in T : ~(k < m)
  BY <1>1, <1>2, Zenon DEF OpToRel
<1>4. PICK x \in S : m = n - x
  BY DEF T
<1>5. \A y \in S : n - y \in T
  BY DEF T
<1> QED
  BY <1>3, <1>4, <1>5

(* A page that is not all there is is full. *)
LEMMA PageIsFull ==
    ASSUME NEW n \in Nat, NEW ids \in SUBSET (1..n), NEW m \in Nat,
           NEW left \in SUBSET (ids \ Newest(ids, m)), left # {}
    PROVE  Cardinality(left) + m <= Cardinality(ids)
<1> DEFINE page == Newest(ids, m)
           rest == ids \ page
<1>1. /\ IsFiniteSet(ids) /\ IsFiniteSet(page) /\ IsFiniteSet(rest) /\ IsFiniteSet(left)
      /\ Cardinality(left) <= Cardinality(rest) /\ Cardinality(rest) \in Nat
      /\ Cardinality(left) \in Nat /\ Cardinality(page) \in Nat /\ Cardinality(ids) \in Nat
  <2>1. IsFiniteSet(1..n)
    BY FS_Interval
  <2>2. IsFiniteSet(ids)
    BY <2>1, FS_Subset
  <2>3. page \in SUBSET ids /\ rest \in SUBSET ids /\ left \in SUBSET rest
    BY NewestAreSome
  <2>4. IsFiniteSet(page) /\ IsFiniteSet(rest)
    BY <2>2, <2>3, FS_Subset
  <2>5. IsFiniteSet(left) /\ Cardinality(left) <= Cardinality(rest)
    BY <2>3, <2>4, FS_Subset
  <2> QED
    BY <2>2, <2>4, <2>5, FS_CardinalityType
<1>2. PICK x \in rest : \A y \in rest : y <= x
  <2>1. rest \in SUBSET (1..n) /\ rest # {}
    OBVIOUS
  <2> HIDE DEF rest
  <2> QED
    BY <2>1, LargestOf
<1> DEFINE later == {j \in ids : j > x}
<1>3. x \in ids /\ ~(Cardinality(later) < m)
  BY <1>2 DEF Newest
<1>4. later \in SUBSET page
  <2>1. \A j \in ids : j > x => j \notin rest
    <3>1. \A j \in ids : j \in Int /\ x \in Int
      BY <1>3
    <3> QED
      BY <1>2, <3>1
  <2> QED
    BY <2>1
<1>5. Cardinality(later) <= Cardinality(page) /\ IsFiniteSet(later)
  BY <1>1, <1>4, FS_Subset
<1>6. Cardinality(later) \in Nat
  BY <1>5, FS_CardinalityType
<1>7. Cardinality(ids) = Cardinality(rest) + Cardinality(page)
  <2>1. rest \cup page = ids /\ rest \cap page = {}
    BY NewestAreSome
  <2>2. Cardinality(rest \cup page) =
          Cardinality(rest) + Cardinality(page) - Cardinality(rest \cap page)
    BY <1>1, FS_Union
  <2>3. Cardinality(rest \cap page) = 0
    BY <2>1, FS_EmptySet
  <2> HIDE DEF rest, page
  <2> QED
    BY <1>1, <2>1, <2>2, <2>3
<1> HIDE DEF later, rest, page
<1> QED
  BY <1>1, <1>3, <1>5, <1>6, <1>7

(* Of the page clear read, what is not left to delete is gone. *)
ClearOK(p, l) ==
    /\ p \in {"clearing", "cleared"} =>
         /\ l.due \subseteq Added
         /\ \A i \in Newest(l.due, PageLimit) : i \in l.page \/ row[i] = NoSession
    /\ p = "cleared" => l.page = {}

CInv == IInv /\ \A t \in Tasks : ClearOK(pc[t], local[t])

(* No step brings a row back. *)
LEMMA RowsStayGone ==
    ASSUME IInv, [Next]_vars
    PROVE  /\ Added \subseteq Added'
           /\ \A i \in Added : row[i] = NoSession => row'[i] = NoSession
<1>0. next \in 1..(MaxItems + 1) /\ row \in [Items -> Sessions \cup {NoSession}]
  BY DEF IInv, TypeOK
<1>1. ASSUME NEW s \in Sessions, AddShortTerm(s)
      PROVE  next' = next + 1 /\ \A i \in Added : row'[i] = row[i]
  BY <1>0, <1>1 DEF AddShortTerm, Added, Items
<1>2. ASSUME NEW t \in Tasks, DeletePromoted(t) \/ DeleteCleared(t)
      PROVE  next' = next /\ \A i \in Added : row[i] = NoSession => row'[i] = NoSession
  <2>1. DeleteRows(t) /\ next' = next /\ Added \subseteq Items
    BY <1>0, <1>2 DEF DeletePromoted, DeleteCleared, Added, Items
  <2> QED
    BY <2>1, RowsGo
<1>3. CASE UNCHANGED <<next, row>>
  BY <1>3 DEF Added
<1>4. next' \in {next, next + 1} /\ \A i \in Added : row[i] = NoSession => row'[i] = NoSession
  BY <1>1, <1>2
  DEF Next, vars, ReadBuffer, ReadPage, RecallShortTerm, AddSummary, RecallLongTerm, Return, Die
<1>5. Added \subseteq Added'
  <2>1. next \in Int /\ next' \in Int /\ next <= next'
    BY <1>0, <1>4
  <2> QED
    BY <2>1, Longer DEF Added
<1> QED
  BY <1>4, <1>5

LEMMA ClearStep ==
    ASSUME CInv, [Next]_vars, NEW t \in Tasks PROVE ClearOK(pc[t], local[t])'
<1>0. /\ pc \in [Tasks -> Places] /\ local \in [Tasks -> Locals] /\ IInv
      /\ ClearOK(pc[t], local[t]) /\ local[t] \in Locals
  BY DEF CInv, IInv, TypeOK, Places
<1>1. CASE pc'[t] = pc[t] /\ local'[t] = local[t]
  <2>1. /\ pc[t] \in {"clearing", "cleared"} =>
             \A i \in Newest(local[t].due, PageLimit) : i \in Added
    BY <1>0, NewestAreSome DEF ClearOK
  <2> QED
    BY <1>0, <1>1, <2>1, RowsStayGone DEF ClearOK
<1>2. CASE \E s \in Sessions : ReadPage(t, s)
  <2>1. PICK s \in Sessions : ReadPage(t, s)
    BY <1>2
  <2> DEFINE found == Newest(Buffer(s), PageLimit)
             due == Buffer(s)
             l == [Nothing(s) EXCEPT !.page = found, !.due = due]
  <2>2. local'[t] = l /\ pc'[t] = "clearing" /\ UNCHANGED <<next, row>>
    BY <1>0, <2>1 DEF ReadPage, Locally, Goto
  <2>3. due \subseteq Added
    BY <1>0 DEF IInv, BufferWasAdded, Buffer
  <2> HIDE DEF due
  <2>4. l.page = found /\ l.due = due
    BY DEF Nothing
  <2>5. Newest(due, PageLimit) = found /\ Added' = Added
    BY <2>2 DEF due, Added
  <2> HIDE DEF l, found
  <2> QED
    BY <2>2, <2>3, <2>4, <2>5 DEF ClearOK
<1>3. CASE DeleteCleared(t)
  <2> DEFINE gone == RowsById(t)
             left == LeftToDelete(t)
             l == [local[t] EXCEPT !.page = left]
  <2>1. /\ pc[t] = "clearing" /\ DeleteRows(t) /\ local'[t] = l /\ next' = next
        /\ pc'[t] = IF left = {} THEN "cleared" ELSE "clearing"
    BY <1>0, <1>3 DEF DeleteCleared, Locally, Goto
  <2>2. /\ \A i \in Items : i \in gone => row'[i] = NoSession
        /\ left = local[t].page \ gone /\ gone \subseteq local[t].page
    BY <1>0, <2>1, RowsGo
  <2> HIDE DEF gone, left
  <2>3. l.page = left /\ l.due = local[t].due
    BY <1>0 DEF Locals
  <2> HIDE DEF l
  <2>4. /\ local[t].due \subseteq Added /\ Added' = Added /\ local[t].page \subseteq Items
        /\ \A i \in Newest(local[t].due, PageLimit) :
             i \in Added /\ (i \in local[t].page \/ row[i] = NoSession)
    BY <1>0, <2>1, NewestAreSome DEF ClearOK, Added, Locals
  <2>5. \A i \in Newest(local[t].due, PageLimit) : i \in left \/ row'[i] = NoSession
    BY <1>0, <2>2, <2>4, RowsStayGone
  <2> QED
    BY <2>1, <2>3, <2>4, <2>5 DEF ClearOK
<1>4. CASE pc'[t] \notin {"clearing", "cleared"}
  BY <1>4 DEF ClearOK
<1>5. ASSUME NEW u \in Tasks,
             \/ \E s \in Sessions : ReadBuffer(u, s) \/ ReadPage(u, s) \/ RecallShortTerm(u, s)
             \/ AddSummary(u) \/ DeletePromoted(u) \/ DeleteCleared(u)
             \/ RecallLongTerm(u) \/ Return(u) \/ Die(u)
      PROVE  \/ pc'[t] = pc[t] /\ local'[t] = local[t]
             \/ pc'[t] \notin {"clearing", "cleared"}
             \/ (\E s \in Sessions : ReadPage(t, s)) \/ DeleteCleared(t)
  <2>1. CASE u = t
    BY <1>0, <1>5, <2>1
    DEF ReadBuffer, RecallShortTerm, AddSummary, DeletePromoted, RecallLongTerm, Return, Die, Goto
  <2>2. CASE u # t
    BY <1>0, <1>5, <2>2
    DEF ReadBuffer, ReadPage, RecallShortTerm, AddSummary, DeletePromoted, DeleteCleared,
        RecallLongTerm, Return, Die, Goto, Locally
  <2> QED
    BY <2>1, <2>2
<1>6. CASE UNCHANGED vars
  BY <1>1, <1>6 DEF vars
<1>7. CASE \E s \in Sessions : AddShortTerm(s)
  BY <1>1, <1>7 DEF AddShortTerm
<1> QED
  BY <1>1, <1>2, <1>3, <1>4, <1>5, <1>6, <1>7 DEF Next

(* When clear returns, a whole page of the rows there were at the call is  *)
(* gone, or all of them, and so is what a promotion that has returned has  *)
(* read, whatever is added, promoted and cleared meanwhile                 *)
(* (MemoryManager.clear and summarize_and_promote).                        *)
THEOREM DeletesStayComplete == Spec => []DeletesAreComplete
<1>1. Init => CInv
  BY InitIInv DEF CInv, Init, ClearOK
<1>2. CInv /\ [Next]_vars => CInv'
  BY NextIInv, ClearStep DEF CInv
<1>3. ASSUME CInv PROVE DeletesAreComplete
  <2> SUFFICES ASSUME NEW t \in Tasks, pc[t] = "cleared",
                      {i \in local[t].due : row[i] # NoSession} # {}
               PROVE  Cardinality({i \in local[t].due : row[i] # NoSession}) + PageLimit
                        <= Cardinality(local[t].due)
    BY <1>3 DEF CInv, IInv, DeletesAreComplete, ClearRemovesAPage
  <2> DEFINE left == {i \in local[t].due : row[i] # NoSession}
  <2>1. /\ \A i \in Newest(local[t].due, PageLimit) : row[i] = NoSession
        /\ local[t].due \in SUBSET (1..MaxItems) /\ MaxItems \in Nat /\ PageLimit \in Nat
    BY <1>3 DEF CInv, ClearOK, IInv, TypeOK, Locals, Items
  <2>2. left \in SUBSET (local[t].due \ Newest(local[t].due, PageLimit)) /\ left # {}
    BY <2>1
  <2> HIDE DEF left
  <2>3. Cardinality(left) + PageLimit <= Cardinality(local[t].due)
    BY <2>1, <2>2, PageIsFull
  <2> QED
    BY <2>3 DEF left
<1> QED
  BY <1>1, <1>2, <1>3, PTL DEF Spec

=============================================================================
