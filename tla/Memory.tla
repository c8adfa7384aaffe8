------------------------------- MODULE Memory -------------------------------
(***************************************************************************)
(* src/agent_sdk/persistence/memory.py over MemoryRepository: entries are  *)
(* added to the short-term buffer of a session, summarize_and_promote      *)
(* replaces them by one long-term summary, clear deletes them.  Promoting  *)
(* and clearing read a page of rows, and then write and delete row by row  *)
(* with an await before each statement, so several of them, and the adds   *)
(* of a running session, interleave, and a process may die in between.  A  *)
(* recall is a caller that builds its context from get_short_term and then *)
(* search_long_term.  All sessions here are of one user.                   *)
(***************************************************************************)
EXTENDS Integers, Sequences, FiniteSets

CONSTANTS
    Tasks,          \* coroutines that promote, clear or recall
    Sessions,       \* session ids
    NoSession,      \* of a row that does not exist and of an idle task
    MaxItems,       \* bound: entries that are added
    MaxPromotes,    \* bound: summaries that are written
    MaxDeaths,      \* bound: tasks that die on the way
    PromoteLimit,   \* rows a promotion reads (100)
    PageLimit,      \* rows get_by_session returns to clear (50)
    RecallLimit,    \* rows get_short_term returns (10)
    SearchLimit     \* rows search_long_term returns (5)

Items == 1..MaxItems

ASSUME SessionAssumption == NoSession \notin Sessions
ASSUME BoundAssumption   == MaxItems \in Nat /\ MaxPromotes \in Nat /\ MaxDeaths \in Nat
ASSUME LimitAssumption   ==
    {PromoteLimit, PageLimit, RecallLimit, SearchLimit} \subseteq Nat \ {0}

VARIABLES
    next,       \* id of the next entry; ids are in the order of created_at
    row,        \* the session of each short-term row that exists
    summaries,  \* the long-term rows in the order of created_at
    pc,         \* what each task is doing
    local,      \* the locals of each task
    cleared,    \* history: the entries clear has deleted
    promoted,   \* history: the entries of promotions that have returned
    deaths      \* tasks that died so far

vars == <<next, row, summaries, pc, local, cleared, promoted, deaths>>

-----------------------------------------------------------------------------

(* page: the rows read and not deleted yet; batch: all the rows read; due: *)
(* history, the entries there were at the call; cut: history, whether a    *)
(* limit kept rows from a recall.                                          *)
Locals == [sid: Sessions \cup {NoSession}, page: SUBSET Items, batch: SUBSET Items,
           due: SUBSET Items, cut: BOOLEAN]

Nothing(s) == [sid |-> s, page |-> {}, batch |-> {}, due |-> {}, cut |-> FALSE]

Summaries == [sid: Sessions, items: SUBSET Items]

Busy == {"promote", "promoting", "clearing"}

Init ==
    /\ next = 1
    /\ row = [i \in Items |-> NoSession]
    /\ summaries = <<>>
    /\ pc = [t \in Tasks |-> "idle"]
    /\ local = [t \in Tasks |-> Nothing(NoSession)]
    /\ cleared = {}
    /\ promoted = {}
    /\ deaths = 0

Buffer(s) == {i \in Items : row[i] = s}

(* ORDER BY created_at DESC LIMIT n *)
Newest(ids, n) == {i \in ids : Cardinality({j \in ids : j > i}) < n}

Oldest(ids) == {i \in ids : \A j \in ids : i <= j}
Latest(ids) == {i \in ids : \A j \in ids : j <= i}

Remembered(s) == UNION {summaries[k].items : k \in {n \in DOMAIN summaries : summaries[n].sid = s}}

Goto(t, p)     == pc' = [pc EXCEPT ![t] = p]
Locally(t, l)  == local' = [local EXCEPT ![t] = l]

-----------------------------------------------------------------------------

(* add_short_term: one INSERT. *)
AddShortTerm(s) ==
    /\ next <= MaxItems
    /\ row' = [row EXCEPT ![next] = s]
    /\ next' = next + 1
    /\ UNCHANGED <<summaries, pc, local, cleared, promoted, deaths>>

(* summarize_and_promote reads the buffer and returns if it is empty. *)
ReadBuffer(t, s) ==
    LET found == Newest(Buffer(s), PromoteLimit) IN
    /\ pc[t] = "idle"
    /\ Len(summaries) + Cardinality({u \in Tasks : pc[u] = "promote"}) < MaxPromotes
    /\ found # {}
    /\ Locally(t, [Nothing(s) EXCEPT !.page = found, !.batch = found])
    /\ Goto(t, "promote")
    /\ UNCHANGED <<next, row, summaries, cleared, promoted, deaths>>

(* add_long_term: the summary of all the rows read, in a row whose key and *)
(* not whose session_id names the session.                                 *)
AddSummary(t) ==
    /\ pc[t] = "promote"
    /\ summaries' = Append(summaries, [sid |-> local[t].sid, items |-> local[t].batch])
    /\ Goto(t, "promoting")
    /\ UNCHANGED <<next, row, local, cleared, promoted, deaths>>

(* Rows are deleted one by one in the order they were read, latest first.  *)
(* Mutant of what a statement deletes: the buffer of the session.          *)
RowsOfSession(t) == Buffer(local[t].sid)
RowsById(t)      == Latest(local[t].page)

(* Mutant of the rows that are left to delete: the last one is forgotten. *)
LeftButOne(t)   == local[t].page \ (Latest(local[t].page) \cup Oldest(local[t].page))
LeftToDelete(t) == local[t].page \ Latest(local[t].page)

DeleteRows(t) == row' = [i \in Items |-> IF i \in RowsById(t) THEN NoSession ELSE row[i]]

(* One DELETE of summarize_and_promote; the last one is followed by its    *)
(* return.  A row that another task has deleted is deleted again: no row.  *)
DeletePromoted(t) ==
    /\ pc[t] = "promoting"
    /\ DeleteRows(t)
    /\ IF LeftToDelete(t) # {}
       THEN /\ Locally(t, [local[t] EXCEPT !.page = LeftToDelete(t)])
            /\ UNCHANGED <<pc, promoted>>
       ELSE /\ Locally(t, Nothing(NoSession))
            /\ Goto(t, "idle")
            /\ promoted' = promoted \cup local[t].batch
    /\ UNCHANGED <<next, summaries, cleared, deaths>>

(* clear reads one page of the rows of the session, which are short-term   *)
(* rows only: a summary has no session_id.                                 *)
ReadPage(t, s) ==
    LET found == Newest(Buffer(s), PageLimit) IN
    /\ pc[t] = "idle"
    /\ found # {}
    /\ Locally(t, [Nothing(s) EXCEPT !.page = found, !.due = Buffer(s)])
    /\ Goto(t, "clearing")
    /\ UNCHANGED <<next, row, summaries, cleared, promoted, deaths>>

DeleteCleared(t) ==
    /\ pc[t] = "clearing"
    /\ DeleteRows(t)
    /\ cleared' = cleared \cup RowsById(t)
    /\ Locally(t, [local[t] EXCEPT !.page = LeftToDelete(t)])
    /\ Goto(t, IF LeftToDelete(t) = {} THEN "cleared" ELSE "clearing")
    /\ UNCHANGED <<next, summaries, promoted, deaths>>

-----------------------------------------------------------------------------

(* The summaries search_long_term finds for the session. *)
Matching(s) == {k \in DOMAIN summaries : summaries[k].sid = s}

FoundBefore(s) ==           \* mutant: the limit is exclusive
    UNION {summaries[k].items : k \in Newest(Matching(s), SearchLimit - 1)}
Found(s) == UNION {summaries[k].items : k \in Newest(Matching(s), SearchLimit)}

(* A recall reads the buffer... *)
RecallShortTerm(t, s) ==
    LET found == Newest(Buffer(s), RecallLimit) IN
    /\ pc[t] = "idle"
    /\ Locally(t, [Nothing(s) EXCEPT !.due = Buffer(s) \cup Remembered(s),
                                     !.batch = found, !.cut = found # Buffer(s)])
    /\ Goto(t, "recalling")
    /\ UNCHANGED <<next, row, summaries, cleared, promoted, deaths>>

(* ... and then the summaries. *)
RecallLongTerm(t) ==
    /\ pc[t] = "recalling"
    /\ Locally(t, [local[t] EXCEPT !.batch = @ \cup Found(local[t].sid),
                      !.cut = @ \/ Cardinality(Matching(local[t].sid)) > SearchLimit])
    /\ Goto(t, "recalled")
    /\ UNCHANGED <<next, row, summaries, cleared, promoted, deaths>>

(* The caller of clear or of a recall goes on. *)
Return(t) ==
    /\ pc[t] \in {"cleared", "recalled"}
    /\ Locally(t, Nothing(NoSession))
    /\ Goto(t, "idle")
    /\ UNCHANGED <<next, row, summaries, cleared, promoted, deaths>>

(* The process dies or the task is cancelled between two statements. *)
Die(t) ==
    /\ pc[t] \in Busy
    /\ deaths < MaxDeaths
    /\ deaths' = deaths + 1
    /\ Locally(t, Nothing(NoSession))
    /\ Goto(t, "idle")
    /\ UNCHANGED <<next, row, summaries, cleared, promoted>>

Next ==
    \/ \E s \in Sessions : AddShortTerm(s)
    \/ \E t \in Tasks :
         \/ \E s \in Sessions : ReadBuffer(t, s) \/ ReadPage(t, s) \/ RecallShortTerm(t, s)
         \/ AddSummary(t) \/ DeletePromoted(t) \/ DeleteCleared(t)
         \/ RecallLongTerm(t) \/ Return(t) \/ Die(t)

Spec == Init /\ [][Next]_vars

-----------------------------------------------------------------------------

(* Ids, rows and locals have their types; what is being deleted was added, *)
(* and there is a row to delete wherever a DELETE is next.                 *)
TypeOK ==
    /\ next \in 1..(MaxItems + 1)
    /\ row \in [Items -> Sessions \cup {NoSession}]
    /\ summaries \in Seq(Summaries)
    /\ pc \in [Tasks -> {"idle", "recalling", "cleared", "recalled"} \cup Busy]
    /\ local \in [Tasks -> Locals]
    /\ cleared \subseteq Items /\ promoted \subseteq Items
    /\ deaths \in 0..MaxDeaths
    /\ \A t \in Tasks : pc[t] \in Busy => local[t].sid \in Sessions /\ local[t].page # {}

Added == 1..(next - 1)

Summarised == UNION {summaries[k].items : k \in DOMAIN summaries}

(* An entry that was added is in the buffer or in a summary, unless clear  *)
(* has deleted it: entries added while their session is being promoted,    *)
(* two promotions at once, a clear in between and a death between any two  *)
(* statements lose none.                                                   *)
NothingIsLost ==
    \A i \in Added : row[i] # NoSession \/ i \in Summarised \/ i \in cleared

(* A promotion that has returned left nothing of what it summarised in the *)
(* buffer: what is summarised twice is so because a promotion died or was  *)
(* overtaken by another one.                                               *)
PromotedLeaveTheBuffer == \A i \in promoted : row[i] = NoSession

(* When clear returns, of the rows there were when it was called a whole   *)
(* page is gone, or all of them if they fit one page, whatever is promoted *)
(* and added meanwhile. Rows beyond the page stay.                         *)
ClearRemovesAPage ==
    \A t \in Tasks :
        pc[t] = "cleared" =>
            LET left == {i \in local[t].due : row[i] # NoSession} IN
            left = {} \/ Cardinality(left) + PageLimit <= Cardinality(local[t].due)

(* What is read to be deleted is deleted, by both of its readers. *)
DeletesAreComplete == PromotedLeaveTheBuffer /\ ClearRemovesAPage

(* A recall within its limits finds every entry its session had when it    *)
(* was called, in the buffer or in a summary, though a promotion may move  *)
(* them from one to the other between its two reads.                       *)
RecallFindsEverything ==
    \A t \in Tasks :
        pc[t] = "recalled" /\ ~local[t].cut => local[t].due \subseteq local[t].batch

=============================================================================
