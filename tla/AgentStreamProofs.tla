-------------------------- MODULE AgentStreamProofs --------------------------
(***************************************************************************)
(* Theorems about AgentStream, for every number of tasks, streams,         *)
(* sessions, users, steps and tool calls.  The user scope of a task is     *)
(* right when it iterates one stream at a time (IInv); what a stream       *)
(* stores of its tool calls does not depend on that (Effects).             *)
(***************************************************************************)
EXTENDS AgentStream, TLAPS

Live == Awaits \cup Yields

Owned == Live \ {"create", "load"}

(* What a stream knows of its user: the value it put back when it ends is  *)
(* that of a stream that was dropped, if it is any.                        *)
StreamsFit ==
    \A g \in Streams :
        /\ pc[g] = "made" => gen[g].user = NoUser
        /\ pc[g] # "made" => \/ gen[g].token = NoUser
                             \/ \E h \in Streams : /\ gen[h].task = gen[g].task
                                                   /\ gen[h].user = gen[g].token
                                                   /\ pc[h] = "dropped"
        /\ pc[g] \in Live => scope[gen[g].task] = gen[g].user
        /\ pc[g] \in Owned => owner[gen[g].sid] = gen[g].user

OneStream ==
    \A g, h \in Streams :
        pc[g] \in Live /\ pc[h] \in Live /\ gen[g].task = gen[h].task => g = h

TasksFit ==
    \A t \in Tasks : \/ scope[t] = NoUser
                     \/ \E g \in Streams : /\ gen[g].task = t /\ gen[g].user = scope[t]
                                           /\ pc[g] \in Live \cup {"dropped"}

IInv == TypeOK /\ StreamsFit /\ OneStream /\ TasksFit /\ RowsBelongToOwner

Places == {"made"} \cup Awaits \cup Yields \cup Ended

USE NoneAssumption, BoundAssumption, ChoiceAssumption

LEMMA InitIInv == Init => IInv
<1> SUFFICES ASSUME Init PROVE IInv
  OBVIOUS
<1>1. gen \in [Streams -> Locals]
  BY DEF Init, Locals, Roles
<1>2. TypeOK
  <2>1. /\ owner \in [Sessions -> Users \cup {NoUser}] /\ scope \in [Tasks -> Users \cup {NoUser}]
        /\ messages \in [Sessions -> Seq(Message)] /\ executed = {} /\ shown = {}
    BY DEF Init
  <2>2. \A g \in Streams : pc[g] = "made" /\ gen[g].task = NoTask
    BY DEF Init
  <2>3. pc \in [Streams -> {"made"} \cup Awaits \cup Yields \cup Ended]
    BY DEF Init
  <2> QED
    BY <1>1, <2>1, <2>2, <2>3 DEF TypeOK, Running, Suspended, Awaits, Yields
<1>3. StreamsFit /\ OneStream /\ TasksFit
  BY DEF Init, StreamsFit, OneStream, TasksFit, Live, Owned, Awaits, Yields
<1>4. RowsBelongToOwner
  <2>1. \A s \in Sessions : DOMAIN messages[s] = {}
    BY DEF Init
  <2> QED
    BY <2>1 DEF RowsBelongToOwner
<1> QED
  BY <1>2, <1>3, <1>4 DEF IInv

-----------------------------------------------------------------------------

LEMMA RowsType ==
    ASSUME IInv
    PROVE  \A s \in Sessions : \A i \in DOMAIN messages[s] :
               messages[s][i].by \in Streams /\ messages[s][i].user \in Users
<1> SUFFICES ASSUME NEW s \in Sessions, NEW i \in DOMAIN messages[s]
             PROVE  messages[s][i].by \in Streams /\ messages[s][i].user \in Users
  OBVIOUS
<1>1. messages[s] \in Seq(Message)
  BY DEF IInv, TypeOK
<1>2. messages[s][i] \in Message
  BY <1>1
<1> QED
  BY <1>2 DEF Message

(* A stream that goes from one await or yield to another in its session.   *)
LEMMA ProceedIInv ==
    ASSUME IInv, NEW g \in Streams, NEW p \in Owned, NEW l \in Locals,
           pc[g] \in Live, Goto(g, p),
           gen' = [gen EXCEPT ![g] = l],
           l.task = gen[g].task, l.user = gen[g].user, l.token = gen[g].token, l.sid = gen[g].sid,
           gen[g].sid \in Sessions, owner[gen[g].sid] = gen[g].user,
           UNCHANGED <<owner, messages, scope>>,
           executed' \subseteq ToolCall, shown' \subseteq ToolCall
    PROVE  IInv'
<1>1. /\ pc \in [Streams -> Places] /\ gen \in [Streams -> Locals]
      /\ Owned \subseteq Live /\ Live \subseteq Places
      /\ "made" \notin Live /\ "dropped" \notin Live
  BY DEF IInv, TypeOK, Places, Owned, Live, Awaits, Yields
<1>2. /\ pc' \in [Streams -> Places] /\ gen' \in [Streams -> Locals]
      /\ pc'[g] = p /\ gen'[g] = l
      /\ \A h \in Streams \ {g} : pc'[h] = pc[h] /\ gen'[h] = gen[h]
  BY <1>1 DEF Goto
<1>3. /\ \A h \in Streams : /\ gen'[h].task = gen[h].task /\ gen'[h].user = gen[h].user
                            /\ gen'[h].token = gen[h].token /\ gen'[h].sid = gen[h].sid
  BY <1>2
<1>4. /\ \A h \in Streams : pc'[h] \in Live <=> pc[h] \in Live
      /\ \A h \in Streams : pc'[h] = "made" <=> pc[h] = "made"
      /\ \A h \in Streams : pc'[h] = "dropped" <=> pc[h] = "dropped"
      /\ p # "create"
  BY <1>1, <1>2 DEF Owned
<1>5. TypeOK'
  <2>1. \A h \in Streams :
          /\ pc'[h] # "made" => gen'[h].task \in Tasks /\ gen'[h].user \in Users
          /\ pc'[h] = "made" => gen'[h].task = NoTask
    BY <1>3, <1>4 DEF IInv, TypeOK
  <2>2. \A h \in Streams : pc'[h] \in Live => pc'[h] = "create" \/ gen'[h].sid \in Sessions
    BY <1>2, <1>3, <1>4 DEF IInv, TypeOK, Running, Suspended, Live
  <2> QED
    BY <1>2, <2>1, <2>2 DEF IInv, TypeOK, Running, Suspended, Live, Places
<1>6. StreamsFit'
  <2>1. ASSUME NEW h \in Streams
        PROVE  /\ pc'[h] = "made" => gen'[h].user = NoUser
               /\ pc'[h] # "made" => \/ gen'[h].token = NoUser
                                     \/ \E j \in Streams : /\ gen'[j].task = gen'[h].task
                                                           /\ gen'[j].user = gen'[h].token
                                                           /\ pc'[j] = "dropped"
               /\ pc'[h] \in Live => scope'[gen'[h].task] = gen'[h].user
    BY <1>3, <1>4 DEF IInv, StreamsFit
  <2>2. ASSUME NEW h \in Streams, pc'[h] \in Owned PROVE owner'[gen'[h].sid] = gen'[h].user
    <3>1. CASE h = g
      BY <1>3, <3>1
    <3>2. CASE h # g
      BY <1>2, <1>3, <2>2, <3>2 DEF IInv, StreamsFit
    <3> QED
      BY <3>1, <3>2
  <2> QED
    BY <2>1, <2>2 DEF StreamsFit
<1>7. OneStream'
  BY <1>3, <1>4 DEF IInv, OneStream
<1>8. TasksFit'
  BY <1>3, <1>4 DEF IInv, TasksFit
<1>9. RowsBelongToOwner'
  <2>1. \A s \in Sessions : \A i \in DOMAIN messages[s] : messages[s][i].by \in Streams
    BY RowsType
  <2> QED
    BY <1>3, <2>1 DEF IInv, RowsBelongToOwner
<1> QED
  BY <1>5, <1>6, <1>7, <1>8, <1>9 DEF IInv

(* A stream that ends and puts back the user it replaced. *)
LEMMA LeaveIInv ==
    ASSUME IInv, NEW g \in Streams, NEW p \in Ended \ {"dropped"}, pc[g] \in Live,
           Goto(g, p), scope' = ClearScope(g), UNCHANGED <<gen, owner, messages>>,
           executed' \subseteq ToolCall, shown' \subseteq ToolCall
    PROVE  IInv'
<1>1. /\ pc \in [Streams -> Places] /\ gen \in [Streams -> Locals] /\ scope \in [Tasks -> Users \cup {NoUser}]
      /\ Ended \subseteq Places /\ Owned \subseteq Live
      /\ p \notin Live /\ p # "made" /\ p # "dropped" /\ "made" \notin Live /\ "dropped" \notin Live
  BY DEF IInv, TypeOK, Places, Owned, Live, Awaits, Yields, Ended
<1>2. /\ pc' \in [Streams -> Places] /\ pc'[g] = p
      /\ \A h \in Streams \ {g} : pc'[h] = pc[h]
  BY <1>1 DEF Goto
<1>3. gen[g].task \in Tasks /\ gen[g].token \in Users \cup {NoUser}
  BY <1>1 DEF IInv, TypeOK, Locals
<1>4. /\ scope' \in [Tasks -> Users \cup {NoUser}] /\ scope'[gen[g].task] = gen[g].token
      /\ \A t \in Tasks \ {gen[g].task} : scope'[t] = scope[t]
  BY <1>1, <1>3 DEF ClearScope
<1>5. /\ \A h \in Streams : pc'[h] \in Live => pc[h] \in Live /\ h # g
      /\ \A h \in Streams : pc'[h] = "made" <=> pc[h] = "made"
      /\ \A h \in Streams : pc'[h] = "dropped" <=> pc[h] = "dropped"
  BY <1>1, <1>2
<1>6. \A h \in Streams : pc'[h] \in Live => gen[h].task \in Tasks \ {gen[g].task}
  BY <1>1, <1>5 DEF IInv, OneStream, TypeOK
<1>7. TypeOK'
  <2>1. \A h \in Streams :
          /\ pc'[h] # "made" => gen'[h].task \in Tasks /\ gen'[h].user \in Users
          /\ pc'[h] = "made" => gen'[h].task = NoTask
    BY <1>5 DEF IInv, TypeOK
  <2>2. \A h \in Streams : pc'[h] \in Live => pc'[h] = "create" \/ gen'[h].sid \in Sessions
    BY <1>2, <1>5 DEF IInv, TypeOK, Running, Suspended, Live
  <2> QED
    BY <1>2, <1>4, <2>1, <2>2 DEF IInv, TypeOK, Running, Suspended, Live, Places
<1>8. StreamsFit'
  <2>1. ASSUME NEW h \in Streams
        PROVE  /\ pc'[h] = "made" => gen'[h].user = NoUser
               /\ pc'[h] # "made" => \/ gen'[h].token = NoUser
                                     \/ \E j \in Streams : /\ gen'[j].task = gen'[h].task
                                                           /\ gen'[j].user = gen'[h].token
                                                           /\ pc'[j] = "dropped"
    BY <1>5 DEF IInv, StreamsFit
  <2>2. ASSUME NEW h \in Streams, pc'[h] \in Live PROVE scope'[gen'[h].task] = gen'[h].user
    BY <1>4, <1>5, <1>6, <2>2 DEF IInv, StreamsFit
  <2>3. ASSUME NEW h \in Streams, pc'[h] \in Owned PROVE owner'[gen'[h].sid] = gen'[h].user
    <3>1. h # g /\ pc'[h] = pc[h]
      BY <1>1, <1>2, <1>5, <2>3
    <3> QED
      BY <2>3, <3>1 DEF IInv, StreamsFit
  <2> QED
    BY <2>1, <2>2, <2>3 DEF StreamsFit
<1>9. OneStream'
  BY <1>5 DEF IInv, OneStream
<1>10. TasksFit'
  <2>1. ASSUME NEW t \in Tasks
        PROVE  \/ scope'[t] = NoUser
               \/ \E h \in Streams : /\ gen'[h].task = t /\ gen'[h].user = scope'[t]
                                     /\ pc'[h] \in Live \cup {"dropped"}
    <3>1. CASE t = gen[g].task
      <4>1. \/ gen[g].token = NoUser
            \/ \E h \in Streams : /\ gen[h].task = t /\ gen[h].user = gen[g].token /\ pc[h] = "dropped"
        BY <1>1, <3>1 DEF IInv, StreamsFit
      <4> QED
        BY <1>4, <1>5, <3>1, <4>1
    <3>2. CASE t # gen[g].task
      <4>1. \/ scope[t] = NoUser
            \/ \E h \in Streams : /\ gen[h].task = t /\ gen[h].user = scope[t]
                                  /\ pc[h] \in Live \cup {"dropped"}
        BY DEF IInv, TasksFit
      <4> QED
        BY <1>2, <1>4, <3>2, <4>1
    <3> QED
      BY <3>1, <3>2
  <2> QED
    BY <2>1 DEF TasksFit
<1>11. RowsBelongToOwner'
  BY DEF IInv, RowsBelongToOwner
<1> QED
  BY <1>7, <1>8, <1>9, <1>10, <1>11 DEF IInv

(* A dropped stream leaves its user in the scope of the task, and accounts *)
(* for it.                                                                 *)
LEMMA DropIInv == ASSUME IInv, NEW g \in Streams, Drop(g) PROVE IInv'
<1>1. pc[g] \in Live /\ Goto(g, "dropped") /\ UNCHANGED <<owner, messages, scope, gen, executed, shown>>
  BY DEF Drop, MayPull, Suspended, Live, UnchangedTables
<1>2. /\ pc \in [Streams -> Places] /\ "dropped" \in Places
      /\ Owned \subseteq Live /\ "made" \notin Live /\ "dropped" \notin Live
  BY DEF IInv, TypeOK, Places, Owned, Live, Awaits, Yields, Ended
<1>3. /\ pc' \in [Streams -> Places] /\ pc'[g] = "dropped"
      /\ \A h \in Streams \ {g} : pc'[h] = pc[h]
  BY <1>1, <1>2 DEF Goto
<1>4. /\ \A h \in Streams : pc'[h] \in Live => pc[h] \in Live /\ h # g
      /\ \A h \in Streams : pc'[h] = "made" <=> pc[h] = "made"
      /\ \A h \in Streams : pc[h] \in Live \cup {"dropped"} <=> pc'[h] \in Live \cup {"dropped"}
      /\ \A h \in Streams : pc[h] = "dropped" => pc'[h] = "dropped"
  BY <1>1, <1>2, <1>3
<1>5. TypeOK'
  <2>1. \A h \in Streams :
          /\ pc'[h] # "made" => gen'[h].task \in Tasks /\ gen'[h].user \in Users
          /\ pc'[h] = "made" => gen'[h].task = NoTask
    BY <1>1, <1>4 DEF IInv, TypeOK
  <2>2. \A h \in Streams : pc'[h] \in Live => pc'[h] = "create" \/ gen'[h].sid \in Sessions
    BY <1>1, <1>3, <1>4 DEF IInv, TypeOK, Running, Suspended, Live
  <2> QED
    BY <1>1, <1>3, <2>1, <2>2 DEF IInv, TypeOK, Running, Suspended, Live, Places
<1>6. StreamsFit'
  <2>1. ASSUME NEW h \in Streams
        PROVE  /\ pc'[h] = "made" => gen'[h].user = NoUser
               /\ pc'[h] # "made" => \/ gen'[h].token = NoUser
                                     \/ \E j \in Streams : /\ gen'[j].task = gen'[h].task
                                                           /\ gen'[j].user = gen'[h].token
                                                           /\ pc'[j] = "dropped"
               /\ pc'[h] \in Live => scope'[gen'[h].task] = gen'[h].user
    BY <1>1, <1>4 DEF IInv, StreamsFit
  <2>2. ASSUME NEW h \in Streams, pc'[h] \in Owned PROVE owner'[gen'[h].sid] = gen'[h].user
    <3>1. h # g /\ pc'[h] = pc[h]
      BY <1>2, <1>3, <1>4, <2>2
    <3> QED
      BY <1>1, <2>2, <3>1 DEF IInv, StreamsFit
  <2> QED
    BY <2>1, <2>2 DEF StreamsFit
<1>7. OneStream' /\ TasksFit'
  BY <1>1, <1>4 DEF IInv, OneStream, TasksFit
<1>8. RowsBelongToOwner'
  BY <1>1 DEF IInv, RowsBelongToOwner
<1> QED
  BY <1>5, <1>6, <1>7, <1>8 DEF IInv

(* The new session belongs to the user of the stream, and no row and no    *)
(* stream knew its id.                                                     *)
LEMMA CreateSessionIInv ==
    ASSUME IInv, NEW g \in Streams, NEW s \in Sessions, CreateSession(g, s) PROVE IInv'
<1> DEFINE l == [gen[g] EXCEPT !.sid = s]
<1>1. /\ pc[g] = "create" /\ owner[s] = NoUser /\ owner' = [owner EXCEPT ![s] = ScopeOf(g)]
      /\ gen' = [gen EXCEPT ![g] = l] /\ Goto(g, "append")
      /\ UNCHANGED <<messages, scope, executed, shown>>
  BY DEF CreateSession
<1>2. /\ pc \in [Streams -> Places] /\ gen \in [Streams -> Locals] /\ gen[g] \in Locals
      /\ owner \in [Sessions -> Users \cup {NoUser}]
      /\ {"append", "create"} \subseteq Live /\ "append" \in Owned /\ Live \subseteq Places
      /\ Owned \subseteq Live /\ "made" \notin Live /\ "dropped" \notin Live
  BY DEF IInv, TypeOK, Places, Owned, Live, Awaits, Yields
<1>3. /\ l \in Locals /\ l.task = gen[g].task /\ l.user = gen[g].user /\ l.token = gen[g].token
      /\ l.sid = s
  BY <1>2 DEF Locals
<1> HIDE DEF l
<1>4. /\ pc' \in [Streams -> Places] /\ gen' \in [Streams -> Locals]
      /\ pc'[g] = "append" /\ gen'[g] = l
      /\ \A h \in Streams \ {g} : pc'[h] = pc[h] /\ gen'[h] = gen[h]
  BY <1>1, <1>2, <1>3 DEF Goto
<1>5. \A h \in Streams : /\ gen'[h].task = gen[h].task /\ gen'[h].user = gen[h].user
                         /\ gen'[h].token = gen[h].token
  BY <1>3, <1>4
<1>6. /\ \A h \in Streams : pc'[h] \in Live <=> pc[h] \in Live
      /\ \A h \in Streams : pc'[h] = "made" <=> pc[h] = "made"
      /\ \A h \in Streams : pc'[h] = "dropped" <=> pc[h] = "dropped"
  BY <1>1, <1>2, <1>4
<1>7. gen[g].user \in Users /\ gen[g].task \in Tasks /\ ScopeOf(g) = gen[g].user
  BY <1>1, <1>2 DEF IInv, TypeOK, StreamsFit, ScopeOf
<1>8. /\ owner' \in [Sessions -> Users \cup {NoUser}] /\ owner'[s] = gen[g].user
      /\ \A r \in Sessions \ {s} : owner'[r] = owner[r]
  BY <1>1, <1>2, <1>7
<1>9. TypeOK'
  <2>1. \A h \in Streams :
          /\ pc'[h] # "made" => gen'[h].task \in Tasks /\ gen'[h].user \in Users
          /\ pc'[h] = "made" => gen'[h].task = NoTask
    BY <1>5, <1>6 DEF IInv, TypeOK
  <2>2. \A h \in Streams : pc'[h] \in Live => pc'[h] = "create" \/ gen'[h].sid \in Sessions
    BY <1>3, <1>4, <1>6 DEF IInv, TypeOK, Running, Suspended, Live
  <2> QED
    BY <1>1, <1>4, <1>8, <2>1, <2>2 DEF IInv, TypeOK, Running, Suspended, Live, Places
<1>10. StreamsFit'
  <2>1. ASSUME NEW h \in Streams
        PROVE  /\ pc'[h] = "made" => gen'[h].user = NoUser
               /\ pc'[h] # "made" => \/ gen'[h].token = NoUser
                                     \/ \E j \in Streams : /\ gen'[j].task = gen'[h].task
                                                           /\ gen'[j].user = gen'[h].token
                                                           /\ pc'[j] = "dropped"
               /\ pc'[h] \in Live => scope'[gen'[h].task] = gen'[h].user
    BY <1>1, <1>5, <1>6 DEF IInv, StreamsFit
  <2>2. ASSUME NEW h \in Streams, pc'[h] \in Owned PROVE owner'[gen'[h].sid] = gen'[h].user
    <3>1. CASE h = g
      BY <1>3, <1>4, <1>8, <3>1
    <3>2. CASE h # g
      <4>1. pc[h] \in Owned /\ gen'[h] = gen[h]
        BY <1>4, <2>2, <3>2
      <4>2. owner[gen[h].sid] = gen[h].user /\ gen[h].user \in Users
        BY <1>2, <4>1 DEF IInv, StreamsFit, TypeOK
      <4>3. gen[h].sid \in Sessions
        BY <4>1 DEF IInv, TypeOK, Running, Suspended, Live, Owned
      <4>4. gen[h].sid # s
        BY <1>1, <4>2
      <4> QED
        BY <1>8, <4>1, <4>2, <4>3, <4>4
    <3> QED
      BY <3>1, <3>2
  <2> QED
    BY <2>1, <2>2 DEF StreamsFit
<1>11. OneStream' /\ TasksFit'
  BY <1>1, <1>5, <1>6 DEF IInv, OneStream, TasksFit
<1>12. RowsBelongToOwner'
  <2>1. ASSUME NEW r \in Sessions, NEW i \in DOMAIN messages[r]
        PROVE  messages[r][i].user = owner'[r] /\ messages[r][i].user = gen'[messages[r][i].by].user
    <3>1. /\ messages[r][i].user = owner[r] /\ messages[r][i].user = gen[messages[r][i].by].user
          /\ messages[r][i].user \in Users /\ messages[r][i].by \in Streams
      BY RowsType DEF IInv, RowsBelongToOwner
    <3>2. r # s
      BY <1>1, <3>1
    <3> QED
      BY <1>5, <1>8, <3>1, <3>2
  <2> QED
    BY <1>1, <2>1 DEF RowsBelongToOwner
<1> QED
  BY <1>9, <1>10, <1>11, <1>12 DEF IInv

(* The message carries the scope of the task, which is the user of the     *)
(* stream and the owner of its session.                                    *)
LEMMA StoreMessageIInv ==
    ASSUME IInv, NEW g \in Streams, pc[g] = "append", StoreMessage(g) PROVE IInv'
<1> DEFINE m == NewMessage(g)
           s == gen[g].sid
<1>1. /\ messages' = [messages EXCEPT ![s] = Append(@, m)] /\ Goto(g, AfterAppend(g))
      /\ UNCHANGED <<owner, scope, gen, executed>>
  BY DEF StoreMessage
<1>2. /\ gen[g] \in Locals /\ messages \in [Sessions -> Seq(Message)]
      /\ "append" \in Owned /\ Owned \subseteq Live
  BY DEF IInv, TypeOK, Owned, Live, Awaits, Yields
<1>3. /\ gen[g].user \in Users /\ gen[g].task \in Tasks /\ ScopeOf(g) = gen[g].user
      /\ owner[s] = gen[g].user /\ s \in Sessions
  BY <1>2 DEF IInv, TypeOK, StreamsFit, ScopeOf, Running, Awaits
<1>4. /\ gen[g].phase \in Roles /\ gen[g].k \in Nat /\ gen[g].calls \in Nat /\ gen[g].done \in Nat
  BY <1>2 DEF Locals
<1>5. m \in Message /\ m.user = gen[g].user /\ m.by = g
  BY <1>3, <1>4 DEF NewMessage, Message
<1>6. AfterAppend(g) \in Owned
  BY <1>4 DEF AfterAppend, Roles, Owned, Live, Awaits, Yields
<1> HIDE DEF m, s
<1>7. shown' \subseteq ToolCall
  <2>1. ResultShown(g) \subseteq ToolCall
    BY <1>4 DEF ResultShown, ToolCall
  <2> QED
    BY <2>1 DEF StoreMessage, IInv, TypeOK
<1>8. /\ messages' \in [Sessions -> Seq(Message)] /\ messages[s] \in Seq(Message)
      /\ messages'[s] = Append(messages[s], m)
      /\ \A r \in Sessions \ {s} : messages'[r] = messages[r]
  BY <1>1, <1>2, <1>3, <1>5
<1>9. /\ pc \in [Streams -> Places] /\ Live \subseteq Places
      /\ "made" \notin Live /\ "dropped" \notin Live
  BY DEF IInv, TypeOK, Places, Live, Awaits, Yields
<1>10. /\ pc' \in [Streams -> Places] /\ pc'[g] \in Owned
       /\ \A h \in Streams \ {g} : pc'[h] = pc[h]
  BY <1>1, <1>2, <1>6, <1>9 DEF Goto
<1>11. /\ \A h \in Streams : pc'[h] \in Live <=> pc[h] \in Live
       /\ \A h \in Streams : pc'[h] \in Owned <=> pc[h] \in Owned
       /\ \A h \in Streams : pc'[h] = "made" <=> pc[h] = "made"
       /\ \A h \in Streams : pc'[h] = "dropped" <=> pc[h] = "dropped"
  BY <1>2, <1>9, <1>10
<1>12. TypeOK'
  <2>1. \A h \in Streams :
          /\ pc'[h] # "made" => gen'[h].task \in Tasks /\ gen'[h].user \in Users
          /\ pc'[h] = "made" => gen'[h].task = NoTask
    BY <1>1, <1>11 DEF IInv, TypeOK
  <2>2. \A h \in Streams : pc'[h] \in Live => pc'[h] = "create" \/ gen'[h].sid \in Sessions
    <3>1. ASSUME NEW h \in Streams, pc'[h] \in Live PROVE pc'[h] = "create" \/ gen'[h].sid \in Sessions
      <4>1. CASE h = g
        BY <1>1, <1>3, <4>1 DEF s
      <4>2. CASE h # g
        BY <1>1, <1>10, <3>1, <4>2 DEF IInv, TypeOK, Running, Suspended, Live
      <4> QED
        BY <4>1, <4>2
    <3> QED
      BY <3>1
  <2> QED
    BY <1>1, <1>7, <1>8, <1>10, <2>1, <2>2 DEF IInv, TypeOK, Running, Suspended, Live, Places
<1>13. StreamsFit' /\ OneStream' /\ TasksFit'
  BY <1>1, <1>11 DEF IInv, StreamsFit, OneStream, TasksFit
<1>14. RowsBelongToOwner'
  <2>1. ASSUME NEW r \in Sessions, NEW i \in DOMAIN messages'[r]
        PROVE  /\ messages'[r][i].user = owner[r]
               /\ messages'[r][i].user = gen[messages'[r][i].by].user
    <3>1. CASE r = s /\ i = Len(messages[s]) + 1
      <4>1. messages'[r][i] = m
        BY <1>5, <1>8, <3>1
      <4> QED
        BY <1>3, <1>5, <3>1, <4>1
    <3>2. CASE ~(r = s /\ i = Len(messages[s]) + 1)
      <4>1. i \in DOMAIN messages[r] /\ messages'[r][i] = messages[r][i]
        BY <1>5, <1>8, <3>2
      <4> QED
        BY <4>1 DEF IInv, RowsBelongToOwner
    <3> QED
      BY <3>1, <3>2
  <2> QED
    BY <1>1, <2>1 DEF RowsBelongToOwner
<1> QED
  BY <1>12, <1>13, <1>14 DEF IInv

(* A task opens a stream when it is not in the middle of another one. *)
LEMMA OpenIInv ==
    ASSUME IInv, ~Overlap, NEW t \in Tasks, NEW g \in Streams, NEW u \in Users,
           NEW s \in Sessions \cup {NoSession}, NEW p \in {"create", "load"},
           p = "load" => s \in Sessions,
           Open(t, g, u, s, p)
    PROVE  IInv'
<1> DEFINE l == [gen[g] EXCEPT !.task = t, !.user = u, !.token = scope[t], !.sid = s]
<1>1. /\ pc[g] = "made" /\ MayOpen(t) /\ scope' = [scope EXCEPT ![t] = u]
      /\ gen' = [gen EXCEPT ![g] = l] /\ Goto(g, p)
      /\ UNCHANGED <<owner, messages, executed, shown>>
  BY DEF Open, NewScope, UnchangedTables
<1>2. /\ pc \in [Streams -> Places] /\ gen \in [Streams -> Locals] /\ gen[g] \in Locals
      /\ scope \in [Tasks -> Users \cup {NoUser}]
      /\ p \in Live /\ p \notin Owned /\ Live \subseteq Places
      /\ Owned \subseteq Live /\ "made" \notin Live /\ "dropped" \notin Live
  BY DEF IInv, TypeOK, Places, Owned, Live, Awaits, Yields
<1>3. l \in Locals /\ l.task = t /\ l.user = u /\ l.token = scope[t] /\ l.sid = s
  BY <1>2 DEF Locals
<1> HIDE DEF l
<1>4. /\ pc' \in [Streams -> Places] /\ gen' \in [Streams -> Locals]
      /\ pc'[g] = p /\ gen'[g] = l
      /\ \A h \in Streams \ {g} : pc'[h] = pc[h] /\ gen'[h] = gen[h]
  BY <1>1, <1>2, <1>3 DEF Goto
<1>5. /\ scope' \in [Tasks -> Users \cup {NoUser}] /\ scope'[t] = u
      /\ \A v \in Tasks \ {t} : scope'[v] = scope[v]
  BY <1>1, <1>2
<1>6. \A h \in Streams : pc[h] \in Live => gen[h].task # t
  BY <1>1 DEF MayOpen, Busy, Running, Suspended, Live
<1>7. gen[g].user = NoUser /\ gen[g].task = NoTask
  BY <1>1 DEF IInv, StreamsFit, TypeOK
<1>8. \A h \in Streams : h # g /\ pc[h] \in Live => gen'[h].task \in Tasks \ {t}
  BY <1>2, <1>4, <1>6 DEF IInv, TypeOK
<1>9. TypeOK'
  <2>1. \A h \in Streams :
          /\ pc'[h] # "made" => gen'[h].task \in Tasks /\ gen'[h].user \in Users
          /\ pc'[h] = "made" => gen'[h].task = NoTask
    BY <1>2, <1>3, <1>4 DEF IInv, TypeOK
  <2>2. \A h \in Streams : pc'[h] \in Live => pc'[h] = "create" \/ gen'[h].sid \in Sessions
    BY <1>3, <1>4 DEF IInv, TypeOK, Running, Suspended, Live
  <2> QED
    BY <1>1, <1>4, <1>5, <2>1, <2>2 DEF IInv, TypeOK, Running, Suspended, Live, Places
<1>10. \A v \in Tasks, w \in Users : \A h \in Streams :
          gen[h].task = v /\ gen[h].user = w /\ pc[h] = "dropped" =>
              gen'[h].task = v /\ gen'[h].user = w /\ pc'[h] = "dropped"
  BY <1>1, <1>4
<1>11. \/ scope[t] = NoUser
       \/ \E h \in Streams : gen'[h].task = t /\ gen'[h].user = scope[t] /\ pc'[h] = "dropped"
  <2>1. \/ scope[t] = NoUser
        \/ \E h \in Streams : gen[h].task = t /\ gen[h].user = scope[t] /\ pc[h] = "dropped"
    BY <1>6 DEF IInv, TasksFit
  <2> QED
    BY <1>2, <1>10, <2>1
<1>12. StreamsFit'
  <2>1. ASSUME NEW h \in Streams
        PROVE  /\ pc'[h] = "made" => gen'[h].user = NoUser
               /\ pc'[h] # "made" => \/ gen'[h].token = NoUser
                                     \/ \E j \in Streams : /\ gen'[j].task = gen'[h].task
                                                           /\ gen'[j].user = gen'[h].token
                                                           /\ pc'[j] = "dropped"
               /\ pc'[h] \in Live => scope'[gen'[h].task] = gen'[h].user
               /\ pc'[h] \in Owned => owner'[gen'[h].sid] = gen'[h].user
    <3>1. CASE h = g
      BY <1>2, <1>3, <1>4, <1>5, <1>11, <3>1
    <3>2. CASE h # g
      <4>1. pc'[h] = pc[h] /\ gen'[h] = gen[h]
        BY <1>4, <3>2
      <4>2. /\ pc[h] = "made" => gen[h].user = NoUser
            /\ pc[h] # "made" => \/ gen[h].token = NoUser
                                 \/ \E j \in Streams : /\ gen[j].task = gen[h].task
                                                       /\ gen[j].user = gen[h].token
                                                       /\ pc[j] = "dropped"
            /\ pc[h] \in Live => scope[gen[h].task] = gen[h].user
            /\ pc[h] \in Owned => owner[gen[h].sid] = gen[h].user
        BY DEF IInv, StreamsFit
      <4>3. \A j \in Streams : pc[j] = "dropped" => pc'[j] = "dropped" /\ gen'[j] = gen[j]
        BY <1>1, <1>4
      <4>4. pc[h] \in Live => scope'[gen'[h].task] = scope[gen[h].task]
        BY <1>5, <1>8, <3>2, <4>1
      <4> QED
        BY <1>1, <4>1, <4>2, <4>3, <4>4
    <3> QED
      BY <3>1, <3>2
  <2> QED
    BY <2>1 DEF StreamsFit
<1>13. OneStream'
  <2>1. ASSUME NEW h \in Streams, NEW j \in Streams, pc'[h] \in Live, pc'[j] \in Live,
               gen'[h].task = gen'[j].task
        PROVE  h = j
    <3>1. CASE h # g /\ j # g
      BY <1>4, <2>1, <3>1 DEF IInv, OneStream
    <3>2. CASE h = g /\ j # g
      BY <1>3, <1>4, <1>8, <2>1, <3>2
    <3>3. CASE h # g /\ j = g
      BY <1>3, <1>4, <1>8, <2>1, <3>3
    <3> QED
      BY <3>1, <3>2, <3>3
  <2> QED
    BY <2>1 DEF OneStream
<1>14. TasksFit'
  <2>1. ASSUME NEW v \in Tasks
        PROVE  \/ scope'[v] = NoUser
               \/ \E h \in Streams : /\ gen'[h].task = v /\ gen'[h].user = scope'[v]
                                     /\ pc'[h] \in Live \cup {"dropped"}
    <3>1. CASE v = t
      BY <1>2, <1>3, <1>4, <1>5, <3>1
    <3>2. CASE v # t
      <4>1. \/ scope[v] = NoUser
            \/ \E h \in Streams : /\ gen[h].task = v /\ gen[h].user = scope[v]
                                  /\ pc[h] \in Live \cup {"dropped"}
        BY DEF IInv, TasksFit
      <4>2. \A h \in Streams : pc[h] \in Live \cup {"dropped"} => h # g
        BY <1>1, <1>2
      <4> QED
        BY <1>4, <1>5, <3>2, <4>1, <4>2
    <3> QED
      BY <3>1, <3>2
  <2> QED
    BY <2>1 DEF TasksFit
<1>15. RowsBelongToOwner'
  <2>1. ASSUME NEW r \in Sessions, NEW i \in DOMAIN messages[r]
        PROVE  messages[r][i].user = owner[r] /\ messages[r][i].user = gen'[messages[r][i].by].user
    <3>1. /\ messages[r][i].user = owner[r] /\ messages[r][i].user = gen[messages[r][i].by].user
          /\ messages[r][i].user \in Users /\ messages[r][i].by \in Streams
      BY RowsType DEF IInv, RowsBelongToOwner
    <3>2. messages[r][i].by # g
      BY <1>7, <3>1
    <3> QED
      BY <1>4, <3>1, <3>2
  <2> QED
    BY <1>1, <2>1 DEF RowsBelongToOwner
<1> QED
  BY <1>9, <1>12, <1>13, <1>14, <1>15 DEF IInv

-----------------------------------------------------------------------------
(* The actions.                                                            *)

(* A stream past its setup is in a session of its user. *)
LEMMA InSession ==
    ASSUME IInv, NEW g \in Streams, pc[g] \in Owned
    PROVE  /\ pc[g] \in Live /\ gen[g] \in Locals
           /\ gen[g].sid \in Sessions /\ owner[gen[g].sid] = gen[g].user
<1>1. pc[g] \in Live /\ pc[g] # "create"
  BY DEF Owned
<1> QED
  BY <1>1 DEF IInv, TypeOK, StreamsFit, Running, Suspended, Live

(* A step that changes no local. *)
LEMMA QuietProceed ==
    ASSUME IInv, NEW g \in Streams, pc[g] \in Owned, NEW p \in Owned, Goto(g, p),
           UNCHANGED <<owner, messages, scope, gen, executed, shown>>
    PROVE  IInv'
<1>1. /\ pc[g] \in Live /\ gen[g] \in Locals
      /\ gen[g].sid \in Sessions /\ owner[gen[g].sid] = gen[g].user
  BY InSession
<1>2. gen' = [gen EXCEPT ![g] = gen[g]]
  BY DEF IInv, TypeOK
<1>3. executed' \subseteq ToolCall /\ shown' \subseteq ToolCall
  BY DEF IInv, TypeOK
<1> QED
  BY <1>1, <1>2, <1>3, ProceedIInv

LEMMA LoadIInv == ASSUME IInv, NEW g \in Streams, LoadSession(g) PROVE IInv'
<1>1. /\ pc[g] = "load" /\ owner[gen[g].sid] = ScopeOf(g) /\ Goto(g, "append")
      /\ UNCHANGED <<owner, messages, scope, gen, executed, shown>>
  BY DEF LoadSession, VisibleSession, UnchangedTables
<1>2. pc[g] \in Live /\ "append" \in Owned
  BY <1>1 DEF Owned, Live, Awaits, Yields
<1>3. gen[g] \in Locals /\ gen[g].sid \in Sessions /\ scope[gen[g].task] = gen[g].user
  BY <1>1, <1>2 DEF IInv, TypeOK, StreamsFit, Running, Awaits
<1>4. owner[gen[g].sid] = gen[g].user
  BY <1>1, <1>3 DEF ScopeOf
<1>5. gen' = [gen EXCEPT ![g] = gen[g]] /\ executed' \subseteq ToolCall /\ shown' \subseteq ToolCall
  BY <1>1 DEF IInv, TypeOK
<1> QED
  BY <1>1, <1>2, <1>3, <1>4, <1>5, ProceedIInv

(* A step that changes the locals of its stream, but not whom it is for. *)
LEMMA StepIInv ==
    ASSUME IInv, NEW g \in Streams, pc[g] \in Owned, NEW p \in Owned, NEW l \in Locals, Goto(g, p),
           gen' = [gen EXCEPT ![g] = l],
           l.task = gen[g].task, l.user = gen[g].user, l.token = gen[g].token, l.sid = gen[g].sid,
           UNCHANGED <<owner, messages, scope>>,
           executed' \subseteq ToolCall, shown' \subseteq ToolCall
    PROVE  IInv'
BY InSession, ProceedIInv

(* The fields of the locals that steps change. *)
LEMMA Counters ==
    ASSUME IInv, NEW g \in Streams
    PROVE  /\ gen[g] \in Locals /\ gen \in [Streams -> Locals]
           /\ gen[g].k \in Nat /\ gen[g].phase \in Roles /\ gen[g].calls \in Nat /\ gen[g].done \in Nat
           /\ executed \subseteq ToolCall /\ shown \subseteq ToolCall
           /\ {"append", "history", "llm", "tool"} \subseteq Owned /\ Yields \subseteq Owned
           /\ "tool" \in Roles /\ "assistant" \in Roles
BY DEF IInv, TypeOK, Locals, Owned, Live, Awaits, Yields, Roles

LEMMA ReadHistoryIInv == ASSUME IInv, NEW g \in Streams, ReadHistory(g) PROVE IInv'
<1> DEFINE l == [gen[g] EXCEPT !.calls = 0, !.done = 0]
<1>1. /\ pc[g] = "history" /\ Goto(g, "llm") /\ gen' = [gen EXCEPT ![g].calls = 0, ![g].done = 0]
      /\ UNCHANGED <<owner, messages, scope, executed, shown>>
  BY DEF ReadHistory, UnchangedTables
<1>2. gen' = [gen EXCEPT ![g] = l]
  BY <1>1
<1>3. /\ l \in Locals /\ l.task = gen[g].task /\ l.user = gen[g].user
      /\ l.token = gen[g].token /\ l.sid = gen[g].sid
  BY Counters DEF Locals
<1> HIDE DEF l
<1>4. {"history", "llm"} \subseteq Owned /\ executed' \subseteq ToolCall /\ shown' \subseteq ToolCall
  BY <1>1, Counters
<1> QED
  BY <1>1, <1>2, <1>3, <1>4, StepIInv

LEMMA PassOnChunkIInv ==
    ASSUME IInv, NEW g \in Streams, NEW n \in 0..MaxCalls, PassOnChunk(g, n) PROVE IInv'
<1> DEFINE c == gen[g].calls + n
           l == [gen[g] EXCEPT !.calls = c]
<1>1. /\ pc[g] = "llm" /\ Goto(g, "event") /\ gen' = [gen EXCEPT ![g].calls = @ + n]
      /\ UNCHANGED <<owner, messages, scope, executed, shown>>
  BY DEF PassOnChunk, UnchangedTables
<1>2. gen' = [gen EXCEPT ![g] = l]
  BY <1>1
<1>3. c \in Nat
  BY Counters
<1> HIDE DEF c
<1>4. /\ l \in Locals /\ l.task = gen[g].task /\ l.user = gen[g].user
      /\ l.token = gen[g].token /\ l.sid = gen[g].sid
  BY <1>3, Counters DEF Locals
<1> HIDE DEF l
<1>5. {"llm", "event"} \subseteq Owned /\ executed' \subseteq ToolCall /\ shown' \subseteq ToolCall
  BY <1>1, Counters DEF Yields
<1> QED
  BY <1>1, <1>2, <1>4, <1>5, StepIInv

LEMMA ExecuteToolIInv == ASSUME IInv, NEW g \in Streams, ExecuteTool(g) PROVE IInv'
<1> DEFINE d == gen[g].done + 1
           l == [gen[g] EXCEPT !.phase = "tool", !.done = d]
<1>1. /\ pc[g] = "tool" /\ Goto(g, "append") /\ executed' = executed \cup {Call(g)}
      /\ gen' = [gen EXCEPT ![g].phase = "tool", ![g].done = @ + 1]
      /\ UNCHANGED <<owner, messages, scope, shown>>
  BY DEF ExecuteTool, UnchangedTables
<1>2. gen' = [gen EXCEPT ![g] = l]
  BY <1>1
<1>3. d \in Nat
  BY Counters
<1>4. Call(g) \in ToolCall
  BY <1>3, Counters DEF Call, ToolCall
<1> HIDE DEF d
<1>5. /\ l \in Locals /\ l.task = gen[g].task /\ l.user = gen[g].user
      /\ l.token = gen[g].token /\ l.sid = gen[g].sid
  BY <1>3, Counters DEF Locals
<1> HIDE DEF l
<1>6. {"tool", "append"} \subseteq Owned /\ executed' \subseteq ToolCall /\ shown' \subseteq ToolCall
  BY <1>1, <1>4, Counters
<1> QED
  BY <1>1, <1>2, <1>5, <1>6, StepIInv

LEMMA PullAnswerIInv == ASSUME IInv, NEW g \in Streams, PullAnswer(g) PROVE IInv'
<1> DEFINE l == [gen[g] EXCEPT !.phase = "assistant"]
<1>1. /\ pc[g] = "told" /\ Goto(g, "append") /\ gen' = [gen EXCEPT ![g].phase = "assistant"]
      /\ UNCHANGED <<owner, messages, scope, executed, shown>>
  BY DEF PullAnswer, UnchangedTables
<1>2. gen' = [gen EXCEPT ![g] = l]
  BY <1>1
<1>3. /\ l \in Locals /\ l.task = gen[g].task /\ l.user = gen[g].user
      /\ l.token = gen[g].token /\ l.sid = gen[g].sid
  BY Counters DEF Locals
<1> HIDE DEF l
<1>4. {"told", "append"} \subseteq Owned /\ executed' \subseteq ToolCall /\ shown' \subseteq ToolCall
  BY <1>1, Counters DEF Yields
<1> QED
  BY <1>1, <1>2, <1>3, <1>4, StepIInv

LEMMA PullEndIInv == ASSUME IInv, NEW g \in Streams, PullEnd(g) PROVE IInv'
<1>1. pc[g] = "end" /\ UNCHANGED <<owner, messages, scope, executed, shown>>
  BY DEF PullEnd, UnchangedTables
<1>2. {"end", "start", "done"} \subseteq Owned /\ executed' \subseteq ToolCall /\ shown' \subseteq ToolCall
  BY <1>1, Counters DEF Yields
<1>3. CASE Goto(g, "done") /\ UNCHANGED gen
  BY <1>1, <1>2, <1>3, QuietProceed
<1>4. CASE Goto(g, "start") /\ gen' = [gen EXCEPT ![g].k = @ + 1]
  <2> DEFINE c == gen[g].k + 1
             l == [gen[g] EXCEPT !.k = c]
  <2>1. gen' = [gen EXCEPT ![g] = l]
    BY <1>4
  <2>2. c \in Nat
    BY Counters
  <2> HIDE DEF c
  <2>3. /\ l \in Locals /\ l.task = gen[g].task /\ l.user = gen[g].user
        /\ l.token = gen[g].token /\ l.sid = gen[g].sid
    BY <2>2, Counters DEF Locals
  <2> HIDE DEF l
  <2> QED
    BY <1>1, <1>2, <1>4, <2>1, <2>3, StepIInv
<1> QED
  BY <1>3, <1>4 DEF PullEnd

(* Leave, by whatever way out. *)
LEMMA EndIInv ==
    ASSUME IInv, NEW g \in Streams, NEW p \in {"finished", "raised", "closed"}, pc[g] \in Live,
           Leave(g, p), UnchangedTables
    PROVE  IInv'
<1>1. p \in Ended \ {"dropped"}
  BY DEF Ended
<1>2. executed' \subseteq ToolCall /\ shown' \subseteq ToolCall
  BY DEF IInv, TypeOK, Leave
<1> QED
  BY <1>1, <1>2, LeaveIInv DEF Leave, UnchangedTables

LEMMA EncodeFailsIInv == ASSUME IInv, NEW g \in Streams, EncodeFails(g) PROVE IInv'
<1>1. /\ pc[g] = "tool" /\ Goto(g, "raised") /\ scope' = ClearScope(g)
      /\ executed' = executed \cup {Call(g)} /\ UNCHANGED <<gen, owner, messages, shown>>
  BY DEF EncodeFails, UnchangedTables
<1>2. pc[g] \in Live /\ "raised" \in Ended \ {"dropped"}
  BY <1>1 DEF Live, Awaits, Ended
<1>3. gen[g].done + 1 \in Nat
  BY Counters
<1>4. Call(g) \in ToolCall
  BY <1>3, Counters DEF Call, ToolCall
<1>5. executed' \subseteq ToolCall /\ shown' \subseteq ToolCall
  BY <1>1, <1>4, Counters
<1> QED
  BY <1>1, <1>2, <1>5, LeaveIInv

LEMMA ProceedKeeps == ASSUME IInv, NEW g \in Streams, Proceed(g) PROVE IInv'
<1>1. \A a \in Awaits : a \in Live
  BY DEF Live
<1>2. "raised" \in {"finished", "raised", "closed"}
  OBVIOUS
<1>3. ASSUME LoadFails(g) \/ AnswerFails(g) PROVE IInv'
  <2>1. pc[g] \in Live /\ Leave(g, "raised") /\ UnchangedTables
    BY <1>1, <1>3 DEF LoadFails, AnswerFails, Awaits
  <2> QED
    BY <1>2, <2>1, EndIInv
<1>4. ASSUME AppendMessage(g) PROVE IInv'
  <2>1. CASE ScopeOf(g) = NoUser
    <3>1. pc[g] \in Live /\ Leave(g, "raised") /\ UnchangedTables
      BY <1>1, <1>4, <2>1 DEF AppendMessage, Awaits
    <3> QED
      BY <1>2, <3>1, EndIInv
  <2>2. CASE ScopeOf(g) # NoUser
    BY <1>4, <2>2, StoreMessageIInv DEF AppendMessage
  <2> QED
    BY <2>1, <2>2
<1>5. ASSUME AnswerEnds(g) PROVE IInv'
  <2>1. /\ pc[g] = "llm" /\ Goto(g, "told")
        /\ UNCHANGED <<owner, messages, scope, gen, executed, shown>>
    BY <1>5 DEF AnswerEnds, UnchangedTables
  <2>2. "told" \in Owned /\ "llm" \in Owned
    BY Counters DEF Yields
  <2> QED
    BY <2>1, <2>2, QuietProceed
<1> QED
  BY <1>3, <1>4, <1>5, CreateSessionIInv, LoadIInv, ReadHistoryIInv, PassOnChunkIInv,
     ExecuteToolIInv, EncodeFailsIInv DEF Proceed

LEMMA ResumeIInv ==
    ASSUME IInv, NEW g \in Streams, NEW p \in Owned, Resume(g, p) PROVE IInv'
<1>1. /\ pc[g] \in Yields /\ Goto(g, p)
      /\ UNCHANGED <<owner, messages, scope, gen, executed, shown>>
  BY DEF Resume, MayPull, Suspended, UnchangedTables
<1> QED
  BY <1>1, Counters, QuietProceed

LEMMA PullKeeps == ASSUME IInv, NEW g \in Streams, Pull(g) PROVE IInv'
<1>1. "end" \in Owned /\ "history" \in Owned /\ "llm" \in Owned /\ "tool" \in Owned
  BY Counters DEF Yields
<1>2. ASSUME PullStart(g) \/ PullChunk(g) PROVE IInv'
  BY <1>1, <1>2, ResumeIInv DEF PullStart, PullChunk
<1>3. ASSUME PullResult(g) PROVE IInv'
  <2>1. PICK p \in Owned : Resume(g, p)
    BY <1>1, <1>3 DEF PullResult
  <2> QED
    BY <2>1, ResumeIInv
<1>4. ASSUME PullDone(g) PROVE IInv'
  <2>1. pc[g] \in Live /\ Leave(g, "finished") /\ UnchangedTables
    BY <1>4 DEF PullDone, Live, Yields
  <2> QED
    BY <2>1, EndIInv
<1> QED
  BY <1>2, <1>3, <1>4, PullAnswerIInv, PullEndIInv DEF Pull

LEMMA StartKeeps == ASSUME IInv, ~Overlap, NEW t \in Tasks, NEW g \in Streams, Start(t, g) PROVE IInv'
<1>1. PICK u \in Users : \/ OpenNew(t, g, u)
                         \/ \E s \in Sessions : OpenOn(t, g, u, s)
  BY DEF Start
<1>2. CASE OpenNew(t, g, u)
  BY <1>2, OpenIInv DEF OpenNew
<1>3. ASSUME NEW s \in Sessions, OpenOn(t, g, u, s) PROVE IInv'
  BY <1>3, OpenIInv DEF OpenOn
<1> QED
  BY <1>1, <1>2, <1>3

LEMMA NextIInv == ~Overlap /\ IInv /\ [Next]_vars => IInv'
<1> SUFFICES ASSUME ~Overlap, IInv, [Next]_vars PROVE IInv'
  OBVIOUS
<1>1. ASSUME NEW g \in Streams, Proceed(g) PROVE IInv'
  BY <1>1, ProceedKeeps
<1>2. ASSUME NEW g \in Streams, Pull(g) PROVE IInv'
  BY <1>2, PullKeeps
<1>3. ASSUME NEW g \in Streams, Close(g) PROVE IInv'
  <2>1. pc[g] \in Live /\ Leave(g, "closed") /\ UnchangedTables
    BY <1>3 DEF Close, MayPull, Suspended, Live
  <2> QED
    BY <2>1, EndIInv
<1>4. ASSUME NEW g \in Streams, Drop(g) PROVE IInv'
  BY <1>4, DropIInv
<1>5. ASSUME NEW g \in Streams, Abort(g) PROVE IInv'
  <2>1. pc[g] \in Live /\ Leave(g, "raised") /\ UnchangedTables
    BY <1>5 DEF Abort, Running, Live
  <2> QED
    BY <2>1, EndIInv
<1>6. ASSUME NEW g \in Streams, NEW t \in Tasks, Start(t, g) PROVE IInv'
  BY <1>6, StartKeeps
<1>7. CASE UNCHANGED vars
  BY <1>7
  DEF vars, IInv, TypeOK, StreamsFit, OneStream, TasksFit, RowsBelongToOwner, Running, Suspended
<1> QED
  BY <1>1, <1>2, <1>3, <1>4, <1>5, <1>6, <1>7 DEF Next, Quiet

(* A task that iterates one stream at a time writes every message with the *)
(* user of the stream it is for, into a session of that user, whatever     *)
(* streams it dropped, closed or saw fail before (isolation/scope.py).     *)
THEOREM StreamsKeepTenantsApart == ASSUME Overlap = FALSE PROVE Spec => []RowsBelongToOwner
<1>1. IInv => RowsBelongToOwner
  BY DEF IInv
<1>2. ~Overlap
  OBVIOUS
<1>3. IInv /\ [Next]_vars => IInv'
  BY <1>2, NextIInv
<1> QED
  BY InitIInv, <1>1, <1>3, PTL DEF Spec

(* The user in the context of a task is that of the stream it is in the    *)
(* middle of; without one there is a user only after a dropped stream,     *)
(* whose clear_user_scope ran in another context.                          *)
THEOREM ScopeStaysAccounted == ASSUME Overlap = FALSE PROVE Spec => []ScopeIsAccounted
<1>1. IInv => ScopeIsAccounted
  BY DEF IInv, StreamsFit, TasksFit, ScopeIsAccounted, Running, Suspended, Live
<1>2. ~Overlap
  OBVIOUS
<1>3. IInv /\ [Next]_vars => IInv'
  BY <1>2, NextIInv
<1> QED
  BY InitIInv, <1>1, <1>3, PTL DEF Spec

-----------------------------------------------------------------------------
(* What follows holds for tasks that iterate any number of streams at a    *)
(* time as well.  Every step of a stream is one of these moves: between    *)
(* two awaits or yields only some of its counters change.                  *)

Kept(g) == /\ gen'[g].k = gen[g].k /\ gen'[g].phase = gen[g].phase
           /\ gen'[g].calls = gen[g].calls /\ gen'[g].done = gen[g].done

SameTables == UNCHANGED <<messages, executed, shown>>

Stands(g)  == pc'[g] = pc[g] /\ Kept(g)
Settles(g) == /\ pc[g] \in {"made", "create", "load"} /\ pc'[g] \in {"create", "load", "append"}
              /\ Kept(g) /\ SameTables
Stores(g)  == pc[g] = "append" /\ pc'[g] = AfterAppend(g) /\ StoreMessage(g) /\ Kept(g)
Breaks(g)  == Running(g) /\ pc'[g] = "raised" /\ Kept(g) /\ SameTables
Spoils(g)  == /\ pc[g] = "tool" /\ pc'[g] = "raised" /\ Kept(g)
              /\ executed' = executed \cup {Call(g)} /\ UNCHANGED <<messages, shown>>
Begins(g)  == pc[g] = "start" /\ pc'[g] = "history" /\ Kept(g) /\ SameTables
Forgets(g) == /\ pc[g] = "history" /\ pc'[g] = "llm" /\ SameTables
              /\ gen'[g].k = gen[g].k /\ gen'[g].phase = gen[g].phase /\ gen'[g].done = 0
Hears(g)   == /\ pc[g] \in {"llm", "event"} /\ pc'[g] \in {"llm", "event", "told"} /\ SameTables
              /\ gen'[g].k = gen[g].k /\ gen'[g].phase = gen[g].phase /\ gen'[g].done = gen[g].done
Replies(g) == /\ pc[g] = "told" /\ pc'[g] = "append" /\ SameTables
              /\ gen'[g].k = gen[g].k /\ gen'[g].phase = "assistant" /\ gen'[g].done = gen[g].done
Executes(g) == /\ pc[g] = "tool" /\ pc'[g] = "append"
               /\ executed' = executed \cup {Call(g)} /\ UNCHANGED <<messages, shown>>
               /\ gen'[g].k = gen[g].k /\ gen'[g].phase = "tool"
               /\ gen'[g].calls = gen[g].calls /\ gen'[g].done = gen[g].done + 1
Returns(g) == /\ pc[g] = "result" /\ pc'[g] = (IF CallsLeft(g) THEN "tool" ELSE "end")
              /\ Kept(g) /\ SameTables
Finishes(g) == /\ pc[g] \in {"end", "done"} /\ pc'[g] \in {"done", "finished"}
               /\ Kept(g) /\ SameTables
Repeats(g) == pc[g] = "end" /\ pc'[g] = "start" /\ gen'[g].k = gen[g].k + 1 /\ SameTables
Departs(g) == Suspended(g) /\ pc'[g] \in {"closed", "dropped"} /\ Kept(g) /\ SameTables

Moves(g) == \/ Settles(g) \/ Stores(g) \/ Breaks(g) \/ Spoils(g) \/ Begins(g) \/ Forgets(g)
            \/ Hears(g) \/ Replies(g) \/ Executes(g) \/ Returns(g) \/ Finishes(g)
            \/ Repeats(g) \/ Departs(g)

Acts(g) == \/ Proceed(g) \/ Pull(g) \/ Close(g) \/ Drop(g) \/ Abort(g)
           \/ \E t \in Tasks : Start(t, g)

LEMMA Typed ==
    ASSUME TypeOK
    PROVE  /\ pc \in [Streams -> Places] /\ gen \in [Streams -> Locals]
           /\ executed \subseteq ToolCall /\ shown \subseteq ToolCall
           /\ \A g \in Streams : /\ gen[g].k \in Nat /\ gen[g].calls \in Nat /\ gen[g].done \in Nat
                                 /\ gen[g].phase \in Roles
BY DEF TypeOK, Places, Locals

LEMMA OpenMoves ==
    ASSUME TypeOK, NEW t \in Tasks, NEW g \in Streams, NEW u, NEW s, NEW p \in {"create", "load"},
           Open(t, g, u, s, p)
    PROVE  Settles(g)
<1>1. /\ pc[g] = "made" /\ pc'[g] = p /\ SameTables
      /\ gen'[g] = [gen[g] EXCEPT !.task = t, !.user = u, !.token = scope[t], !.sid = s]
  BY Typed DEF Open, Goto, UnchangedTables, SameTables
<1>2. gen[g] \in Locals
  BY Typed
<1> QED BY <1>1, <1>2 DEF Settles, Kept, Locals

LEMMA LeaveMoves ==
    ASSUME TypeOK, NEW g \in Streams, NEW p, Leave(g, p), UnchangedTables
    PROVE  pc'[g] = p /\ Kept(g) /\ SameTables
BY Typed DEF Leave, UnchangedTables, Goto, Kept, SameTables

LEMMA ProceedMoves == ASSUME TypeOK, NEW g \in Streams, Proceed(g) PROVE Moves(g)
<1>0. pc \in [Streams -> Places] /\ gen \in [Streams -> Locals] /\ gen[g] \in Locals
  BY Typed
<1>1. ASSUME NEW s \in Sessions, CreateSession(g, s) PROVE Settles(g)
  <2>1. pc[g] = "create" /\ pc'[g] = "append" /\ gen'[g] = [gen[g] EXCEPT !.sid = s] /\ SameTables
    BY <1>0, <1>1 DEF CreateSession, Goto, SameTables
  <2> QED BY <1>0, <2>1 DEF Settles, Kept, Locals
<1>2. CASE LoadSession(g)
  BY <1>0, <1>2 DEF LoadSession, Goto, UnchangedTables, SameTables, Settles, Kept, Moves
<1>3. CASE LoadFails(g) \/ AnswerFails(g)
  BY <1>3, LeaveMoves DEF LoadFails, AnswerFails, Running, Awaits, Breaks, Moves
<1>4. CASE AppendMessage(g)
  <2>1. CASE ScopeOf(g) = NoUser
    BY <1>4, <2>1, LeaveMoves DEF AppendMessage, Running, Awaits, Breaks, Moves
  <2>2. CASE ScopeOf(g) # NoUser
    <3>1. StoreMessage(g) /\ pc[g] = "append" /\ pc'[g] = AfterAppend(g) /\ gen' = gen
      BY <1>0, <1>4, <2>2 DEF AppendMessage, StoreMessage, Goto
    <3> QED BY <3>1 DEF Stores, Kept, Moves
  <2> QED BY <2>1, <2>2
<1>5. CASE ReadHistory(g)
  <2>1. pc[g] = "history" /\ pc'[g] = "llm" /\ SameTables
        /\ gen'[g] = [gen[g] EXCEPT !.calls = 0, !.done = 0]
    BY <1>0, <1>5 DEF ReadHistory, Goto, UnchangedTables, SameTables
  <2>2. Forgets(g)
    BY <1>0, <2>1 DEF Forgets, Locals
  <2> QED BY <2>2 DEF Moves
<1>6. ASSUME NEW n \in 0..MaxCalls, PassOnChunk(g, n) PROVE Hears(g)
  <2>1. /\ pc[g] = "llm" /\ pc'[g] = "event" /\ SameTables
        /\ gen' = [gen EXCEPT ![g].calls = @ + n]
    BY <1>0, <1>6 DEF PassOnChunk, Goto, UnchangedTables, SameTables
  <2>2. gen'[g] = [gen[g] EXCEPT !.calls = gen[g].calls + n]
    BY <1>0, <2>1
  <2> QED BY <1>0, <2>1, <2>2 DEF Hears, Locals
<1>7. CASE AnswerEnds(g)
  BY <1>0, <1>7 DEF AnswerEnds, Goto, UnchangedTables, SameTables, Hears, Moves
<1>8. CASE ExecuteTool(g)
  <2>1. /\ pc[g] = "tool" /\ pc'[g] = "append" /\ executed' = executed \cup {Call(g)}
        /\ UNCHANGED <<messages, shown>> /\ gen' = [gen EXCEPT ![g].phase = "tool", ![g].done = @ + 1]
    BY <1>0, <1>8 DEF ExecuteTool, Goto, UnchangedTables
  <2>2. gen'[g] = [gen[g] EXCEPT !.phase = "tool", !.done = gen[g].done + 1]
    BY <1>0, <2>1
  <2>3. /\ gen'[g].k = gen[g].k /\ gen'[g].phase = "tool"
        /\ gen'[g].calls = gen[g].calls /\ gen'[g].done = gen[g].done + 1
    BY <1>0, <2>2 DEF Locals
  <2> QED BY <2>1, <2>3 DEF Executes, Moves
<1>9. CASE EncodeFails(g)
  BY <1>0, <1>9 DEF EncodeFails, Goto, UnchangedTables, Spoils, Kept, Moves
<1> QED BY <1>1, <1>2, <1>3, <1>4, <1>5, <1>6, <1>7, <1>8, <1>9 DEF Proceed, Moves

LEMMA PullMoves == ASSUME TypeOK, NEW g \in Streams, Pull(g) PROVE Moves(g)
<1>0. pc \in [Streams -> Places] /\ gen \in [Streams -> Locals] /\ gen[g] \in Locals
  BY Typed
<1>1. ASSUME NEW p, Resume(g, p) PROVE pc'[g] = p /\ Kept(g) /\ SameTables
  BY <1>0, <1>1 DEF Resume, Goto, UnchangedTables, SameTables, Kept
<1>2. CASE PullStart(g)
  BY <1>1, <1>2 DEF PullStart, Begins, Moves
<1>3. CASE PullChunk(g)
  BY <1>1, <1>3 DEF PullChunk, Hears, Kept, Moves
<1>4. CASE PullAnswer(g)
  <2>1. /\ pc[g] = "told" /\ pc'[g] = "append" /\ SameTables
        /\ gen'[g] = [gen[g] EXCEPT !.phase = "assistant"]
    BY <1>0, <1>4 DEF PullAnswer, Goto, UnchangedTables, SameTables
  <2>2. Replies(g)
    BY <1>0, <2>1 DEF Replies, Locals
  <2> QED BY <2>2 DEF Moves
<1>5. CASE PullResult(g)
  BY <1>1, <1>5 DEF PullResult, Returns, Moves
<1>6. CASE PullEnd(g)
  <2>1. pc[g] = "end" /\ SameTables
    BY <1>6 DEF PullEnd, UnchangedTables, SameTables
  <2>2. CASE Goto(g, "done") /\ UNCHANGED gen
    BY <1>0, <2>1, <2>2 DEF Goto, Finishes, Kept, Moves
  <2>3. CASE Goto(g, "start") /\ gen' = [gen EXCEPT ![g].k = @ + 1]
    <3>1. pc'[g] = "start" /\ gen'[g] = [gen[g] EXCEPT !.k = gen[g].k + 1]
      BY <1>0, <2>3 DEF Goto
    <3>2. gen'[g].k = gen[g].k + 1
      BY <1>0, <3>1 DEF Locals
    <3> QED BY <2>1, <3>1, <3>2 DEF Repeats, Moves
  <2> QED BY <1>6, <2>2, <2>3 DEF PullEnd
<1>7. CASE PullDone(g)
  BY <1>7, LeaveMoves DEF PullDone, Finishes, Moves
<1> QED BY <1>2, <1>3, <1>4, <1>5, <1>6, <1>7 DEF Pull

LEMMA StreamMoves == ASSUME TypeOK, NEW g \in Streams, Acts(g) PROVE Moves(g)
<1>1. CASE \E t \in Tasks : Start(t, g)
  <2>1. PICK t \in Tasks, u \in Users : OpenNew(t, g, u) \/ \E s \in Sessions : OpenOn(t, g, u, s)
    BY <1>1 DEF Start
  <2>2. CASE OpenNew(t, g, u)
    BY <2>2, OpenMoves DEF OpenNew, Moves
  <2>3. CASE \E s \in Sessions : OpenOn(t, g, u, s)
    BY <2>3, OpenMoves DEF OpenOn, Moves
  <2> QED BY <2>1, <2>2, <2>3
<1>2. CASE Close(g)
  BY <1>2, LeaveMoves DEF Close, MayPull, Departs, Moves
<1>3. CASE Drop(g)
  BY <1>3, Typed DEF Drop, MayPull, Goto, UnchangedTables, SameTables, Kept, Departs, Moves
<1>4. CASE Abort(g)
  BY <1>4, LeaveMoves DEF Abort, Breaks, Moves
<1> QED BY <1>1, <1>2, <1>3, <1>4, ProceedMoves, PullMoves DEF Acts

-----------------------------------------------------------------------------
(* The types are kept by every step, whatever else a task iterates.        *)

LEMMA StepTyped ==
    ASSUME TypeOK, NEW g \in Streams, NEW p \in Places \ {"made"}, NEW l \in Locals,
           Goto(g, p), gen' = [gen EXCEPT ![g] = l], l.task \in Tasks, l.user \in Users,
           p \in Live => p = "create" \/ l.sid \in Sessions,
           owner' \in [Sessions -> Users \cup {NoUser}], messages' \in [Sessions -> Seq(Message)],
           scope' \in [Tasks -> Users \cup {NoUser}],
           executed' \subseteq ToolCall, shown' \subseteq ToolCall
    PROVE  TypeOK'
<1>1. pc \in [Streams -> Places] /\ gen \in [Streams -> Locals]
  BY Typed
<1>2. /\ pc' \in [Streams -> Places] /\ gen' \in [Streams -> Locals] /\ pc'[g] = p /\ gen'[g] = l
      /\ \A h \in Streams \ {g} : pc'[h] = pc[h] /\ gen'[h] = gen[h]
  BY <1>1 DEF Goto
<1>3. ASSUME NEW h \in Streams
      PROVE  /\ pc'[h] # "made" => gen'[h].task \in Tasks /\ gen'[h].user \in Users
             /\ pc'[h] = "made" => gen'[h].task = NoTask
             /\ pc'[h] \in Live => pc'[h] = "create" \/ gen'[h].sid \in Sessions
  <2>1. CASE h = g
    BY <1>2, <2>1
  <2>2. CASE h # g
    <3>1. pc'[h] = pc[h] /\ gen'[h] = gen[h]
      BY <1>2, <2>2
    <3> QED BY <3>1 DEF TypeOK, Running, Suspended, Live
  <2> QED BY <2>1, <2>2
<1> QED BY <1>2, <1>3 DEF TypeOK, Running, Suspended, Live, Places

(* The locals of a stream that is not over. *)
LEMMA LiveTyped ==
    ASSUME TypeOK, NEW g \in Streams, pc[g] \in Live
    PROVE  /\ gen[g] \in Locals /\ gen[g].task \in Tasks /\ gen[g].user \in Users
           /\ gen[g].token \in Users \cup {NoUser} /\ ScopeOf(g) \in Users \cup {NoUser}
           /\ pc[g] = "create" \/ gen[g].sid \in Sessions
           /\ [gen EXCEPT ![g] = gen[g]] = gen
           /\ ClearScope(g) \in [Tasks -> Users \cup {NoUser}]
           /\ Call(g) \in ToolCall /\ ResultShown(g) \subseteq ToolCall
<1>1. gen \in [Streams -> Locals] /\ gen[g] \in Locals /\ scope \in [Tasks -> Users \cup {NoUser}]
  BY DEF TypeOK
<1>2. pc[g] # "made" /\ (Running(g) \/ Suspended(g))
  BY DEF Live, Awaits, Yields, Running, Suspended
<1>3. gen[g].task \in Tasks /\ gen[g].user \in Users /\ (pc[g] = "create" \/ gen[g].sid \in Sessions)
  BY <1>2 DEF TypeOK
<1>4. /\ gen[g].k \in Nat /\ gen[g].done \in Nat /\ gen[g].token \in Users \cup {NoUser}
  BY <1>1 DEF Locals
<1>5. Call(g) \in ToolCall /\ ResultShown(g) \subseteq ToolCall
  BY <1>4 DEF Call, ResultShown, ToolCall
<1>6. [gen EXCEPT ![g] = gen[g]] = gen
  BY <1>1
<1> QED BY <1>1, <1>3, <1>4, <1>5, <1>6 DEF ScopeOf, ClearScope

LEMMA LeaveTyped ==
    ASSUME TypeOK, NEW g \in Streams, NEW p \in Ended, pc[g] \in Live, Goto(g, p),
           scope' = ClearScope(g) \/ scope' = scope, UNCHANGED <<gen, owner, messages, shown>>,
           executed' \subseteq ToolCall
    PROVE  TypeOK'
<1>1. p \in Places \ {"made"} /\ p \notin Live
  BY DEF Places, Live, Awaits, Yields, Ended
<1>2. /\ scope' \in [Tasks -> Users \cup {NoUser}] /\ owner' \in [Sessions -> Users \cup {NoUser}]
      /\ messages' \in [Sessions -> Seq(Message)] /\ shown' \subseteq ToolCall
  BY LiveTyped DEF TypeOK
<1>3. gen' = [gen EXCEPT ![g] = gen[g]]
  BY LiveTyped
<1> QED BY <1>1, <1>2, <1>3, LiveTyped, StepTyped

(* A stream that goes on, in the session it is in. *)
LEMMA GoTyped ==
    ASSUME TypeOK, NEW g \in Streams, NEW p \in Live, NEW l \in Locals, pc[g] \in Live \ {"create"},
           Goto(g, p), gen' = [gen EXCEPT ![g] = l],
           l.task = gen[g].task, l.user = gen[g].user, l.sid = gen[g].sid,
           UNCHANGED <<owner, messages, scope>>, executed' \subseteq ToolCall, shown' \subseteq ToolCall
    PROVE  TypeOK'
<1>1. p \in Places \ {"made"}
  BY DEF Places, Live, Awaits, Yields
<1>2. /\ scope' \in [Tasks -> Users \cup {NoUser}] /\ owner' \in [Sessions -> Users \cup {NoUser}]
      /\ messages' \in [Sessions -> Seq(Message)]
  BY DEF TypeOK
<1> QED BY <1>1, <1>2, LiveTyped, StepTyped

LEMMA StayTyped ==
    ASSUME TypeOK, NEW g \in Streams, NEW p \in Live, pc[g] \in Live \ {"create"}, Goto(g, p),
           UNCHANGED <<owner, messages, scope, gen, executed, shown>>
    PROVE  TypeOK'
<1>1. executed' \subseteq ToolCall /\ shown' \subseteq ToolCall
  BY DEF TypeOK
<1>2. gen[g] \in Locals /\ gen' = [gen EXCEPT ![g] = gen[g]]
  BY LiveTyped
<1> QED BY <1>1, <1>2, GoTyped

LEMMA AppendTyped == ASSUME TypeOK, NEW g \in Streams, AppendMessage(g) PROVE TypeOK'
<1>0. /\ pc[g] = "append" /\ pc[g] \in Live /\ gen[g] \in Locals /\ gen[g].phase \in Roles
      /\ gen[g].sid \in Sessions
  BY LiveTyped, Typed DEF AppendMessage, Live, Awaits
<1>1. CASE ScopeOf(g) = NoUser
  <2>1. Leave(g, "raised") /\ UnchangedTables /\ "raised" \in Ended /\ executed \subseteq ToolCall
    BY <1>1, Typed DEF AppendMessage, Ended
  <2> QED BY <1>0, <2>1, LeaveTyped DEF Leave, UnchangedTables
<1>2. CASE ScopeOf(g) # NoUser
  <2>1. StoreMessage(g) /\ ScopeOf(g) \in Users
    BY <1>0, <1>2, LiveTyped DEF AppendMessage
  <2>2. NewMessage(g) \in Message
    <3>1. gen[g].k \in Nat /\ gen[g].done \in Nat /\ gen[g].calls \in Nat
      BY Typed
    <3> QED BY <1>0, <2>1, <3>1 DEF NewMessage, Message
  <2>3. messages' \in [Sessions -> Seq(Message)]
    <3>1. messages \in [Sessions -> Seq(Message)]
      BY DEF TypeOK
    <3> QED BY <1>0, <2>1, <2>2, <3>1 DEF StoreMessage
  <2>4. AfterAppend(g) \in Live /\ AfterAppend(g) \in Places \ {"made"}
    BY <1>0 DEF AfterAppend, Roles, Live, Awaits, Yields, Places
  <2>5. executed' \subseteq ToolCall /\ shown' \subseteq ToolCall
    BY <1>0, <2>1, LiveTyped, Typed DEF StoreMessage
  <2>6. owner' \in [Sessions -> Users \cup {NoUser}] /\ scope' \in [Tasks -> Users \cup {NoUser}]
    BY <2>1 DEF StoreMessage, TypeOK
  <2>7. Goto(g, AfterAppend(g)) /\ gen' = [gen EXCEPT ![g] = gen[g]]
    BY <1>0, <2>1, LiveTyped DEF StoreMessage
  <2>8. gen[g].task \in Tasks /\ gen[g].user \in Users
    BY <1>0, LiveTyped
  <2> QED BY <1>0, <2>3, <2>4, <2>5, <2>6, <2>7, <2>8, StepTyped
<1> QED BY <1>1, <1>2

LEMMA ProceedTyped == ASSUME TypeOK, NEW g \in Streams, Proceed(g) PROVE TypeOK'
<1>0. /\ executed \subseteq ToolCall /\ shown \subseteq ToolCall
      /\ scope \in [Tasks -> Users \cup {NoUser}] /\ owner \in [Sessions -> Users \cup {NoUser}]
      /\ messages \in [Sessions -> Seq(Message)]
      /\ \A p \in Awaits : p \in Live /\ p \in Places \ {"made"}
      /\ {"append", "llm", "event", "told", "tool", "history", "load"} \subseteq Live \ {"create"}
      /\ "raised" \in Ended
      /\ gen[g].calls \in Nat /\ gen[g].done \in Nat
  BY Typed DEF TypeOK, Awaits, Yields, Live, Places, Ended
<1>1. ASSUME NEW s \in Sessions, CreateSession(g, s) PROVE TypeOK'
  <2>1. pc[g] \in Live
    BY <1>0, <1>1 DEF CreateSession, Awaits
  <2> DEFINE l == [gen[g] EXCEPT !.sid = s]
  <2>2. l \in Locals /\ l.task = gen[g].task /\ l.user = gen[g].user /\ l.sid = s
    BY <2>1, LiveTyped DEF Locals
  <2>3. gen' = [gen EXCEPT ![g] = l]
    BY <1>1 DEF CreateSession
  <2> HIDE DEF l
  <2>4. /\ owner' \in [Sessions -> Users \cup {NoUser}] /\ messages' \in [Sessions -> Seq(Message)]
        /\ scope' \in [Tasks -> Users \cup {NoUser}]
        /\ executed' \subseteq ToolCall /\ shown' \subseteq ToolCall
    BY <1>0, <1>1, <2>1, LiveTyped DEF CreateSession
  <2>5. Goto(g, "append") /\ "append" \in Places \ {"made"}
    BY <1>0, <1>1 DEF CreateSession, Awaits
  <2> QED BY <2>1, <2>2, <2>3, <2>4, <2>5, LiveTyped, StepTyped
<1>2. CASE LoadSession(g)
  BY <1>0, <1>2, StayTyped DEF LoadSession, UnchangedTables
<1>3. CASE LoadFails(g) \/ AnswerFails(g)
  BY <1>0, <1>3, LeaveTyped DEF LoadFails, AnswerFails, Leave, UnchangedTables
<1>4. CASE AppendMessage(g)
  BY <1>4, AppendTyped
<1>5. CASE ReadHistory(g)
  <2> DEFINE l == [gen[g] EXCEPT !.calls = 0, !.done = 0]
  <2>1. pc[g] \in Live \ {"create"} /\ Goto(g, "llm") /\ gen' = [gen EXCEPT ![g] = l]
    BY <1>0, <1>5 DEF ReadHistory
  <2>2. l \in Locals /\ l.task = gen[g].task /\ l.user = gen[g].user /\ l.sid = gen[g].sid
    <3>1. gen[g] \in Locals
      BY <2>1, LiveTyped
    <3> QED BY <3>1 DEF Locals
  <2> HIDE DEF l
  <2>3. UNCHANGED <<owner, messages, scope, executed, shown>>
    BY <1>5 DEF ReadHistory, UnchangedTables
  <2> QED BY <1>0, <2>1, <2>2, <2>3, GoTyped
<1>6. ASSUME NEW n \in 0..MaxCalls, PassOnChunk(g, n) PROVE TypeOK'
  <2> DEFINE l == [gen[g] EXCEPT !.calls = gen[g].calls + n]
  <2>1. pc[g] \in Live \ {"create"} /\ Goto(g, "event") /\ gen' = [gen EXCEPT ![g] = l]
    BY <1>0, <1>6 DEF PassOnChunk
  <2>2. l \in Locals /\ l.task = gen[g].task /\ l.user = gen[g].user /\ l.sid = gen[g].sid
    <3>1. gen[g] \in Locals
      BY <2>1, LiveTyped
    <3>2. gen[g].calls + n \in Nat
      BY <1>0
    <3> QED BY <3>1, <3>2 DEF Locals
  <2> HIDE DEF l
  <2>3. UNCHANGED <<owner, messages, scope, executed, shown>>
    BY <1>6 DEF PassOnChunk, UnchangedTables
  <2> QED BY <1>0, <2>1, <2>2, <2>3, GoTyped
<1>7. CASE AnswerEnds(g)
  BY <1>0, <1>7, StayTyped DEF AnswerEnds, UnchangedTables
<1>8. CASE ExecuteTool(g)
  <2> DEFINE l == [gen[g] EXCEPT !.phase = "tool", !.done = gen[g].done + 1]
  <2>1. pc[g] \in Live \ {"create"} /\ Goto(g, "append") /\ gen' = [gen EXCEPT ![g] = l]
    BY <1>0, <1>8 DEF ExecuteTool
  <2>2. l \in Locals /\ l.task = gen[g].task /\ l.user = gen[g].user /\ l.sid = gen[g].sid
    <3>1. gen[g] \in Locals
      BY <2>1, LiveTyped
    <3>2. gen[g].done + 1 \in Nat
      BY <1>0
    <3> QED BY <3>1, <3>2 DEF Locals, Roles
  <2> HIDE DEF l
  <2>3. UNCHANGED <<owner, messages, scope, shown>> /\ executed' \subseteq ToolCall
    BY <1>0, <1>8, <2>1, LiveTyped DEF ExecuteTool, UnchangedTables
  <2> QED BY <1>0, <2>1, <2>2, <2>3, GoTyped
<1>9. CASE EncodeFails(g)
  <2>1. pc[g] \in Live /\ executed' = executed \cup {Call(g)}
    BY <1>0, <1>9 DEF EncodeFails
  <2>2. executed' \subseteq ToolCall
    BY <1>0, <2>1, LiveTyped
  <2> QED BY <1>0, <1>9, <2>1, <2>2, LeaveTyped DEF EncodeFails, UnchangedTables
<1> QED BY <1>1, <1>2, <1>3, <1>4, <1>5, <1>6, <1>7, <1>8, <1>9 DEF Proceed

LEMMA PullTyped == ASSUME TypeOK, NEW g \in Streams, Pull(g) PROVE TypeOK'
<1>0. /\ executed \subseteq ToolCall /\ shown \subseteq ToolCall
      /\ {"append", "llm", "tool", "history", "start", "end", "done"} \subseteq Live
      /\ \A p \in Yields : p \in Live \ {"create"}
      /\ "finished" \in Ended /\ gen[g].k \in Nat
  BY Typed DEF Awaits, Yields, Live, Ended
<1>1. ASSUME NEW p \in Live, Resume(g, p) PROVE TypeOK'
  BY <1>0, <1>1, StayTyped DEF Resume, MayPull, Suspended, UnchangedTables
<1>2. CASE PullStart(g) \/ PullChunk(g) \/ PullResult(g)
  BY <1>0, <1>1, <1>2 DEF PullStart, PullChunk, PullResult
<1>3. CASE PullAnswer(g)
  <2> DEFINE l == [gen[g] EXCEPT !.phase = "assistant"]
  <2>1. pc[g] \in Live \ {"create"} /\ Goto(g, "append") /\ gen' = [gen EXCEPT ![g] = l]
    BY <1>0, <1>3 DEF PullAnswer, MayPull, Suspended
  <2>2. l \in Locals /\ l.task = gen[g].task /\ l.user = gen[g].user /\ l.sid = gen[g].sid
    BY <2>1, LiveTyped DEF Locals, Roles
  <2> HIDE DEF l
  <2>3. UNCHANGED <<owner, messages, scope, executed, shown>>
    BY <1>3 DEF PullAnswer, UnchangedTables
  <2> QED BY <1>0, <2>1, <2>2, <2>3, GoTyped
<1>4. CASE PullEnd(g)
  <2>0. pc[g] \in Live \ {"create"} /\ UNCHANGED <<owner, messages, scope, executed, shown>>
    BY <1>0, <1>4 DEF PullEnd, MayPull, Suspended, UnchangedTables
  <2>1. CASE Goto(g, "done") /\ UNCHANGED gen
    BY <1>0, <2>0, <2>1, StayTyped
  <2>2. CASE Goto(g, "start") /\ gen' = [gen EXCEPT ![g].k = @ + 1]
    <3> DEFINE l == [gen[g] EXCEPT !.k = gen[g].k + 1]
    <3>1. gen' = [gen EXCEPT ![g] = l]
      BY <2>2
    <3>2. l \in Locals /\ l.task = gen[g].task /\ l.user = gen[g].user /\ l.sid = gen[g].sid
      BY <1>0, <2>0, LiveTyped DEF Locals
    <3> HIDE DEF l
    <3> QED BY <1>0, <2>0, <2>2, <3>1, <3>2, GoTyped
  <2> QED BY <1>4, <2>1, <2>2 DEF PullEnd
<1>5. CASE PullDone(g)
  <2>1. pc[g] \in Live /\ Leave(g, "finished") /\ UnchangedTables
    BY <1>0, <1>5 DEF PullDone, MayPull, Suspended
  <2> QED BY <1>0, <2>1, LeaveTyped DEF Leave, UnchangedTables
<1> QED BY <1>2, <1>3, <1>4, <1>5 DEF Pull

LEMMA StartTyped == ASSUME TypeOK, NEW t \in Tasks, NEW g \in Streams, Start(t, g) PROVE TypeOK'
<1>1. ASSUME NEW u \in Users, NEW s \in Sessions \cup {NoSession}, NEW p \in {"create", "load"},
             p = "create" \/ s \in Sessions, Open(t, g, u, s, p)
      PROVE  TypeOK'
  <2> DEFINE l == [gen[g] EXCEPT !.task = t, !.user = u, !.token = scope[t], !.sid = s]
  <2>1. gen \in [Streams -> Locals] /\ scope \in [Tasks -> Users \cup {NoUser}]
    BY DEF TypeOK
  <2>2. l \in Locals /\ l.task = t /\ l.user = u /\ l.sid = s
    <3>1. gen[g] \in Locals /\ scope[t] \in Users \cup {NoUser}
      BY <2>1
    <3> QED BY <3>1 DEF Locals
  <2>3. gen' = [gen EXCEPT ![g] = l] /\ Goto(g, p)
    BY <1>1 DEF Open
  <2> HIDE DEF l
  <2>4. /\ owner' \in [Sessions -> Users \cup {NoUser}] /\ messages' \in [Sessions -> Seq(Message)]
        /\ scope' \in [Tasks -> Users \cup {NoUser}]
        /\ executed' \subseteq ToolCall /\ shown' \subseteq ToolCall
    BY <1>1, <2>1 DEF Open, NewScope, UnchangedTables, TypeOK
  <2>5. p \in Places \ {"made"}
    BY DEF Places, Awaits
  <2> QED BY <1>1, <2>2, <2>3, <2>4, <2>5, StepTyped
<1>2. PICK u \in Users : OpenNew(t, g, u) \/ \E s \in Sessions : OpenOn(t, g, u, s)
  BY DEF Start
<1> QED BY <1>1, <1>2 DEF OpenNew, OpenOn

LEMMA ActsTyped == ASSUME TypeOK, NEW g \in Streams, Acts(g) PROVE TypeOK'
<1>0. executed \subseteq ToolCall /\ {"closed", "dropped", "raised"} \subseteq Ended
  BY Typed DEF Ended
<1>1. CASE Close(g)
  BY <1>0, <1>1, LeaveTyped DEF Close, MayPull, Suspended, Live, Leave, UnchangedTables
<1>2. CASE Drop(g)
  BY <1>0, <1>2, LeaveTyped DEF Drop, MayPull, Suspended, Live, UnchangedTables
<1>3. CASE Abort(g)
  BY <1>0, <1>3, LeaveTyped DEF Abort, Running, Live, Leave, UnchangedTables
<1> QED BY <1>1, <1>2, <1>3, ProceedTyped, PullTyped, StartTyped DEF Acts

-----------------------------------------------------------------------------
(* What ties a stream to its tool calls and their answers.                 *)

ToolOf(g, n, c) == [by |-> g, step |-> n, call |-> c]

(* An assistant message of step n of stream g asks for x tool calls. *)
Request(g, n, x) ==
    \E s \in Sessions : \E i \in DOMAIN messages[s] :
        LET m == messages[s][i] IN
        m.role = "assistant" /\ m.by = g /\ m.step = n /\ m.calls = x

(* Before the answer of the LLM to this step is stored, and after. *)
Thinking(g) == \/ pc[g] \in {"made", "create", "load", "start", "history", "llm", "event", "told"}
               \/ pc[g] = "append" /\ gen[g].phase # "tool"
Acting(g)   == \/ pc[g] \in {"tool", "result", "end", "done", "finished"}
               \/ pc[g] = "append" /\ gen[g].phase = "tool"

(* The results that have been stored: the last one may be on its way. *)
Stored(g) == IF pc[g] = "append" THEN gen[g].done - 1 ELSE gen[g].done

StepsKept(g) ==
    /\ \A c \in executed : c.by = g => c.step <= gen[g].k /\ (c.step < gen[g].k => Answered(c))
    /\ \A n, x \in Nat : Request(g, n, x) =>
         n <= gen[g].k /\ (n < gen[g].k => \A c \in 1..x : Answered(ToolOf(g, n, c)))

ThinkingKept(g) == Thinking(g) =>
    /\ \A c \in executed : c.by = g => c.step < gen[g].k
    /\ \A n, x \in Nat : Request(g, n, x) => n < gen[g].k
    /\ pc[g] \in {"made", "create", "load"} => gen[g].phase = "user"
    /\ pc[g] \in {"llm", "event", "told"} \/ (pc[g] = "append" /\ gen[g].phase = "assistant") =>
         gen[g].done = 0

ActingKept(g) == Acting(g) =>
    /\ \A c \in executed : c.by = g /\ c.step = gen[g].k => c.call \in 1..gen[g].done
    /\ \A x \in Nat : Request(g, gen[g].k, x) => x = gen[g].calls
    /\ \A c \in 1..Stored(g) : Answered(ToolOf(g, gen[g].k, c))
    /\ pc[g] \in {"end", "done", "finished"} => gen[g].calls <= gen[g].done
    /\ pc[g] = "append" => ToolOf(g, gen[g].k, gen[g].done) \in executed

CutKept(g) ==
    /\ pc[g] \in {"closed", "dropped"} => \A c \in executed : c.by = g => Answered(c)
    /\ pc[g] = "raised" => \A c \in executed : c.by = g /\ c.step = gen[g].k =>
         Answered(c) \/ \A d \in executed : d.by = g /\ d.step = gen[g].k => d.call <= c.call

StreamKept(g) == StepsKept(g) /\ ThinkingKept(g) /\ ActingKept(g) /\ CutKept(g)

ShownKept == \A c \in shown : c \in executed /\ Answered(c)

Effects == TypeOK /\ ShownKept /\ \A g \in Streams : StreamKept(g)

(* What a move of g adds to the history and to the record of tool calls. *)
Adds(g) ==
    /\ \A c \in ToolCall : Answered(c) => Answered(c)'
    /\ executed \subseteq executed'
    /\ \A c \in executed' : c \in executed \/ (c = Call(g) /\ (Executes(g) \/ Spoils(g)))
    /\ \A h \in Streams, n, x \in Nat : Request(h, n, x)' =>
         \/ Request(h, n, x)
         \/ h = g /\ n = gen[g].k /\ x = gen[g].calls /\ Stores(g) /\ gen[g].phase = "assistant"
    /\ \A c \in shown' : c \in shown \/ (c \in ResultShown(g) /\ Stores(g) /\ gen[g].phase = "tool")
    /\ Stores(g) /\ gen[g].phase = "tool" => Answered(ToolOf(g, gen[g].k, gen[g].done))'

LEMMA StoreAdds ==
    ASSUME TypeOK, NEW g \in Streams, StoreMessage(g), pc[g] = "append"
    PROVE  /\ \A c \in ToolCall : Answered(c) => Answered(c)'
           /\ \A h \in Streams, n, x \in Nat : Request(h, n, x)' =>
                \/ Request(h, n, x)
                \/ h = g /\ n = gen[g].k /\ x = gen[g].calls /\ gen[g].phase = "assistant"
           /\ gen[g].phase = "tool" => Answered(ToolOf(g, gen[g].k, gen[g].done))'
<1> DEFINE r == gen[g].sid
           m == NewMessage(g)
           q == messages[r]
<1>1. /\ r \in Sessions /\ messages \in [Sessions -> Seq(Message)] /\ q \in Seq(Message)
      /\ messages' = [messages EXCEPT ![r] = Append(q, m)] /\ gen' = gen
  BY LiveTyped DEF Live, Awaits, StoreMessage, TypeOK
<1>2. /\ m.role = gen[g].phase /\ m.by = g
      /\ gen[g].phase # "user" => m.step = gen[g].k
      /\ gen[g].phase = "tool" => m.call = gen[g].done
      /\ gen[g].phase = "assistant" => m.calls = gen[g].calls
  BY DEF NewMessage
<1> HIDE DEF m
<1>3. /\ messages'[r] = Append(q, m) /\ DOMAIN messages'[r] = 1..(Len(q) + 1) /\ DOMAIN q = 1..Len(q)
      /\ \A i \in 1..Len(q) : messages'[r][i] = q[i]
      /\ messages'[r][Len(q) + 1] = m /\ Len(q) \in Nat
      /\ \A s \in Sessions \ {r} : messages'[s] = messages[s]
  BY <1>1
<1>4. \A s \in Sessions : \A i \in DOMAIN messages[s] :
        i \in DOMAIN messages'[s] /\ messages'[s][i] = messages[s][i]
  BY <1>3
<1>5. \A s \in Sessions : \A i \in DOMAIN messages'[s] :
        \/ i \in DOMAIN messages[s] /\ messages'[s][i] = messages[s][i]
        \/ messages'[s][i] = m
  <2>1. \A i \in DOMAIN messages'[r] : i \in 1..Len(q) \/ i = Len(q) + 1
    BY <1>3
  <2>2. \A i \in DOMAIN messages'[r] :
          (i \in DOMAIN messages[r] /\ messages'[r][i] = messages[r][i]) \/ messages'[r][i] = m
    BY <1>3, <2>1
  <2> QED BY <1>3, <2>2
<1>6. r \in Sessions /\ Len(q) + 1 \in DOMAIN messages'[r] /\ messages'[r][Len(q) + 1] = m
  BY <1>1, <1>3
<1> HIDE DEF r, q
<1>7. ASSUME NEW c, Answered(c) PROVE Answered(c)'
  BY <1>4, <1>7 DEF Answered
<1>8. ASSUME NEW h \in Streams, NEW n \in Nat, NEW x \in Nat, Request(h, n, x)'
      PROVE  \/ Request(h, n, x)
             \/ h = g /\ n = gen[g].k /\ x = gen[g].calls /\ gen[g].phase = "assistant"
  <2>0. PICK s \in Sessions : \E i \in DOMAIN messages'[s] :
          /\ messages'[s][i].role = "assistant" /\ messages'[s][i].by = h
          /\ messages'[s][i].step = n /\ messages'[s][i].calls = x
    BY <1>8 DEF Request
  <2>1. PICK i \in DOMAIN messages'[s] :
          /\ messages'[s][i].role = "assistant" /\ messages'[s][i].by = h
          /\ messages'[s][i].step = n /\ messages'[s][i].calls = x
    BY <2>0
  <2>2. CASE i \in DOMAIN messages[s] /\ messages'[s][i] = messages[s][i]
    BY <2>1, <2>2 DEF Request
  <2>3. CASE messages'[s][i] = m
    BY <1>2, <2>1, <2>3
  <2> QED BY <1>5, <2>2, <2>3
<1>9. ASSUME gen[g].phase = "tool" PROVE Answered(ToolOf(g, gen[g].k, gen[g].done))'
  <2>1. gen' = gen
    BY <1>1
  <2> QED BY <1>2, <1>6, <1>9, <2>1 DEF Answered, ToolOf
<1> QED BY <1>7, <1>8, <1>9

LEMMA MoveAdds == ASSUME TypeOK, NEW g \in Streams, Moves(g) PROVE Adds(g)
<1>1. CASE Stores(g)
  <2>1. executed' = executed
    BY <1>1 DEF Stores, StoreMessage
  <2>2. \A c \in shown' : c \in shown \/ (c \in ResultShown(g) /\ gen[g].phase = "tool")
    BY <1>1 DEF Stores, StoreMessage
  <2> QED BY <1>1, <2>1, <2>2, StoreAdds DEF Adds, Stores
<1>2. CASE ~Stores(g)
  <2>1. messages' = messages /\ shown' = shown
    BY <1>2 DEF Moves, Settles, Breaks, Spoils, Begins, Forgets, Hears, Replies, Executes, Returns,
                Finishes, Repeats, Departs, SameTables
  <2>2. /\ \A c \in ToolCall : Answered(c) => Answered(c)'
        /\ \A h \in Streams, n, x \in Nat : Request(h, n, x)' => Request(h, n, x)
    BY <2>1 DEF Answered, Request
  <2>3. executed' = executed \/ (executed' = executed \cup {Call(g)} /\ (Executes(g) \/ Spoils(g)))
    BY <1>2 DEF Moves, Settles, Breaks, Spoils, Begins, Forgets, Hears, Replies, Executes, Returns,
                Finishes, Repeats, Departs, SameTables
  <2> QED BY <1>2, <2>1, <2>2, <2>3 DEF Adds
<1> QED BY <1>1, <1>2

LEMMA CallOf ==
    ASSUME TypeOK, NEW g \in Streams
    PROVE  /\ Call(g) = ToolOf(g, gen[g].k, gen[g].done + 1)
           /\ \A c \in ToolCall : /\ c.by \in Streams /\ c.step \in Nat /\ c.call \in Nat
                                  /\ c = ToolOf(c.by, c.step, c.call)
           /\ \A n, c \in Nat : /\ ToolOf(g, n, c) \in ToolCall /\ ToolOf(g, n, c).by = g
                                /\ ToolOf(g, n, c).step = n /\ ToolOf(g, n, c).call = c
BY DEF Call, ToolOf, ToolCall

(* A stream steps alone. *)
LEMMA Apart ==
    ASSUME TypeOK, NEW g \in Streams, Acts(g), NEW h \in Streams, h # g
    PROVE  pc'[h] = pc[h] /\ gen'[h] = gen[h]
<1>0. pc \in [Streams -> Places] /\ gen \in [Streams -> Locals]
  BY Typed
<1>1. CASE Proceed(g)
  BY <1>0, <1>1
  DEF Proceed, CreateSession, LoadSession, LoadFails, AppendMessage, StoreMessage, ReadHistory,
      PassOnChunk, AnswerEnds, AnswerFails, ExecuteTool, EncodeFails, Leave, Goto
<1>2. CASE Pull(g)
  BY <1>0, <1>2
  DEF Pull, PullStart, PullChunk, PullAnswer, PullResult, PullEnd, PullDone, Resume, Leave, Goto
<1>3. CASE Close(g) \/ Drop(g) \/ Abort(g)
  BY <1>0, <1>3 DEF Close, Drop, Abort, Leave, Goto
<1>4. CASE \E t \in Tasks : Start(t, g)
  BY <1>0, <1>4 DEF Start, OpenNew, OpenOn, Open, Goto
<1> QED BY <1>1, <1>2, <1>3, <1>4 DEF Acts

LEMMA OtherKept ==
    ASSUME TypeOK, NEW g \in Streams, Acts(g), NEW h \in Streams, h # g, StreamKept(h)
    PROVE  StreamKept(h)'
<1>1. pc'[h] = pc[h] /\ gen'[h] = gen[h]
  BY Apart
<1>2. Adds(g) /\ executed \subseteq ToolCall
  BY StreamMoves, MoveAdds, Typed
<1>3. /\ \A c \in executed' : c.by = h => c \in executed
      /\ \A n, x \in Nat : Request(h, n, x)' => Request(h, n, x)
  BY <1>2 DEF Adds, Call
<1>4. /\ \A c \in executed : Answered(c) => Answered(c)'
      /\ \A n, c \in Nat : Answered(ToolOf(h, n, c)) => Answered(ToolOf(h, n, c))'
  BY <1>2, CallOf DEF Adds
<1>5. gen[h].k \in Nat /\ gen[h].done \in Nat
  BY Typed
<1>6. StepsKept(h)'
  <2>1. ASSUME NEW c \in executed', c.by = h
        PROVE  c.step <= gen'[h].k /\ (c.step < gen'[h].k => Answered(c)')
    BY <1>1, <1>3, <1>4, <2>1 DEF StreamKept, StepsKept
  <2>2. ASSUME NEW n \in Nat, NEW x \in Nat, Request(h, n, x)'
        PROVE  n <= gen'[h].k /\ (n < gen'[h].k => \A c \in 1..x : Answered(ToolOf(h, n, c))')
    <3>1. n <= gen[h].k /\ (n < gen[h].k => \A c \in 1..x : Answered(ToolOf(h, n, c)))
      BY <1>3, <2>2 DEF StreamKept, StepsKept
    <3> QED BY <1>1, <1>4, <3>1
  <2> QED BY <2>1, <2>2 DEF StepsKept
<1>7. ThinkingKept(h)'
  BY <1>1, <1>3 DEF StreamKept, ThinkingKept, Thinking
<1>8. ActingKept(h)'
  <2> SUFFICES ASSUME Acting(h)' PROVE
        /\ \A c \in executed' : c.by = h /\ c.step = gen'[h].k => c.call \in 1..gen'[h].done
        /\ \A x \in Nat : Request(h, gen[h].k, x)' => x = gen'[h].calls
        /\ \A c \in 1..Stored(h)' : Answered(ToolOf(h, gen[h].k, c))'
        /\ pc'[h] \in {"end", "done", "finished"} => gen'[h].calls <= gen'[h].done
        /\ pc'[h] = "append" => ToolOf(h, gen'[h].k, gen'[h].done) \in executed'
    BY DEF ActingKept
  <2>1. Acting(h) /\ Stored(h)' = Stored(h) /\ Stored(h) \in Int
    BY <1>1, <1>5 DEF Acting, Stored
  <2> QED BY <1>1, <1>2, <1>3, <1>4, <1>5, <2>1 DEF StreamKept, ActingKept, Adds
<1>9. CutKept(h)'
  BY <1>1, <1>2, <1>3, <1>4 DEF StreamKept, CutKept, Adds
<1> QED BY <1>6, <1>7, <1>8, <1>9 DEF StreamKept

-----------------------------------------------------------------------------
(* The moves of a stream keep what ties it to its tool calls.              *)

(* What a step of g starts from, and what it can change. *)
LEMMA MoveFacts ==
    ASSUME Effects, NEW g \in Streams, Moves(g)
    PROVE  /\ Adds(g) /\ StepsKept(g) /\ ThinkingKept(g) /\ ActingKept(g) /\ CutKept(g)
           /\ gen[g].k \in Nat /\ gen[g].calls \in Nat /\ gen[g].done \in Nat /\ gen[g].phase \in Roles
           /\ pc[g] \in Places /\ Call(g) = ToolOf(g, gen[g].k, gen[g].done + 1)
           /\ Call(g).by = g /\ Call(g).step = gen[g].k /\ Call(g).call = gen[g].done + 1
           /\ \A c \in executed : /\ c.step \in Nat /\ c.call \in Nat /\ c \in ToolCall
                                  /\ c = ToolOf(c.by, c.step, c.call)
           /\ \A c \in executed : Answered(c) => Answered(c)'
           /\ \A n, c \in Nat : Answered(ToolOf(g, n, c)) => Answered(ToolOf(g, n, c))'
<1>1. TypeOK /\ StreamKept(g)
  BY DEF Effects
<1>2. Adds(g)
  BY <1>1, MoveAdds
<1>3. /\ \A c \in executed : Answered(c) => Answered(c)'
      /\ \A n, c \in Nat : Answered(ToolOf(g, n, c)) => Answered(ToolOf(g, n, c))'
  BY <1>1, <1>2, CallOf, Typed DEF Adds
<1>4. /\ \A c \in executed : /\ c.step \in Nat /\ c.call \in Nat /\ c \in ToolCall
                             /\ c = ToolOf(c.by, c.step, c.call)
  BY <1>1, CallOf, Typed
<1>5. Call(g).by = g /\ Call(g).step = gen[g].k /\ Call(g).call = gen[g].done + 1
  BY DEF Call
<1> QED BY <1>1, <1>2, <1>3, <1>4, <1>5, CallOf, Typed DEF StreamKept

LEMMA StepsStep == ASSUME Effects, NEW g \in Streams, Moves(g) PROVE StepsKept(g)'
<1>1. CASE Repeats(g)
  <2>1. /\ Acting(g) /\ Stored(g) = gen[g].done /\ gen'[g].k = gen[g].k + 1
        /\ executed' = executed /\ gen[g].calls <= gen[g].done /\ pc[g] = "end"
    BY <1>1, MoveFacts DEF Repeats, Acting, Stored, ActingKept, SameTables
  <2>2. \A n \in Nat : n = gen[g].k => \A c \in 1..gen[g].done : Answered(ToolOf(g, n, c))'
    BY <2>1, MoveFacts DEF ActingKept
  <2>3. ASSUME NEW c \in executed', c.by = g
        PROVE  c.step <= gen'[g].k /\ (c.step < gen'[g].k => Answered(c)')
    <3>1. CASE c.step < gen[g].k
      BY <2>1, <2>3, <3>1, MoveFacts DEF StepsKept
    <3>2. CASE c.step = gen[g].k
      <4>1. c.call \in 1..gen[g].done /\ c = ToolOf(g, gen[g].k, c.call)
        BY <2>1, <2>3, <3>2, MoveFacts DEF ActingKept
      <4> QED BY <2>1, <2>2, <3>2, <4>1, MoveFacts
    <3>3. c.step <= gen[g].k /\ c.step \in Nat
      BY <2>1, <2>3, MoveFacts DEF StepsKept
    <3> QED BY <3>1, <3>2, <3>3, MoveFacts
  <2>4. ASSUME NEW n \in Nat, NEW x \in Nat, Request(g, n, x)'
        PROVE  n <= gen'[g].k /\ (n < gen'[g].k => \A c \in 1..x : Answered(ToolOf(g, n, c))')
    <3>1. Request(g, n, x)
      <4>1. ~Stores(g)
        BY <2>1 DEF Stores
      <4> QED BY <2>4, <4>1, MoveFacts DEF Adds
    <3>2. n <= gen[g].k
      BY <3>1, MoveFacts DEF StepsKept
    <3>3. CASE n < gen[g].k
      BY <2>1, <3>1, <3>3, MoveFacts DEF StepsKept
    <3>4. CASE n = gen[g].k
      <4>1. x = gen[g].calls
        BY <2>1, <3>1, <3>4, MoveFacts DEF ActingKept
      <4> QED BY <2>1, <2>2, <3>4, <4>1, MoveFacts
    <3> QED BY <3>2, <3>3, <3>4, MoveFacts
  <2> QED BY <2>3, <2>4 DEF StepsKept
<1>2. CASE ~Repeats(g)
  <2>1. gen'[g].k = gen[g].k
    BY <1>2 DEF Moves, Settles, Stores, Breaks, Spoils, Begins, Forgets, Hears, Replies, Executes,
                Returns, Finishes, Departs, Kept
  <2>2. ASSUME NEW c \in executed', c.by = g
        PROVE  c.step <= gen'[g].k /\ (c.step < gen'[g].k => Answered(c)')
    <3>1. CASE c \in executed
      BY <2>1, <2>2, <3>1, MoveFacts DEF StepsKept
    <3>2. CASE c = Call(g)
      BY <2>1, <3>2, MoveFacts
    <3> QED BY <3>1, <3>2, MoveFacts DEF Adds
  <2>3. ASSUME NEW n \in Nat, NEW x \in Nat, Request(g, n, x)'
        PROVE  n <= gen'[g].k /\ (n < gen'[g].k => \A c \in 1..x : Answered(ToolOf(g, n, c))')
    <3>1. CASE Request(g, n, x)
      BY <2>1, <3>1, MoveFacts DEF StepsKept
    <3>2. CASE n = gen[g].k
      BY <2>1, <3>2, MoveFacts
    <3> QED BY <2>3, <3>1, <3>2, MoveFacts DEF Adds
  <2> QED BY <2>2, <2>3 DEF StepsKept
<1> QED BY <1>1, <1>2

LEMMA ThinkingStep == ASSUME Effects, NEW g \in Streams, Moves(g) PROVE ThinkingKept(g)'
<1> SUFFICES ASSUME Thinking(g)' PROVE
      /\ \A c \in executed' : c.by = g => c.step < gen'[g].k
      /\ \A n, x \in Nat : Request(g, n, x)' => n < gen'[g].k
      /\ pc'[g] \in {"made", "create", "load"} => gen'[g].phase = "user"
      /\ pc'[g] \in {"llm", "event", "told"} \/ (pc'[g] = "append" /\ gen'[g].phase = "assistant") =>
           gen'[g].done = 0
  BY DEF ThinkingKept
<1>1. CASE Repeats(g)
  <2>1. pc'[g] = "start" /\ gen'[g].k = gen[g].k + 1 /\ executed' = executed /\ ~Stores(g)
    BY <1>1 DEF Repeats, Stores, SameTables
  <2>2. \A c \in executed : c.by = g => c.step < gen[g].k + 1
    BY MoveFacts DEF StepsKept
  <2>3. \A n, x \in Nat : Request(g, n, x)' => n < gen[g].k + 1
    <3>1. \A n, x \in Nat : Request(g, n, x)' => Request(g, n, x)
      BY <1>1, MoveFacts DEF Adds, Repeats, Stores
    <3>2. gen[g].k \in Nat /\ \A n, x \in Nat : Request(g, n, x) => n <= gen[g].k
      BY MoveFacts DEF StepsKept
    <3>3. \A n \in Nat : n <= gen[g].k => n < gen[g].k + 1
      BY <3>2
    <3> QED BY <3>1, <3>2, <3>3
  <2> QED BY <2>1, <2>2, <2>3
<1>2. CASE ~Repeats(g)
  <2>1. \/ Settles(g) \/ Begins(g) \/ Forgets(g) \/ Hears(g) \/ Replies(g)
        \/ Stores(g) /\ gen[g].phase = "user" /\ pc'[g] = "start"
    BY <1>2, MoveFacts
    DEF Moves, Stores, Breaks, Spoils, Executes, Returns, Finishes, Departs, Thinking, AfterAppend, Roles
  <2>2. Thinking(g)
    BY <2>1 DEF Settles, Begins, Forgets, Hears, Replies, Stores, Thinking
  <2>3. gen'[g].k = gen[g].k /\ executed' = executed
    BY <2>1 DEF Settles, Begins, Forgets, Hears, Replies, Stores, StoreMessage, Kept, SameTables
  <2>4. \A n, x \in Nat : Request(g, n, x)' => Request(g, n, x)
    BY <2>1, MoveFacts DEF Adds, Settles, Begins, Forgets, Hears, Replies, Stores
  <2>5. /\ pc'[g] \in {"made", "create", "load"} => gen'[g].phase = "user"
        /\ pc'[g] \in {"llm", "event", "told"} \/ (pc'[g] = "append" /\ gen'[g].phase = "assistant") =>
             gen'[g].done = 0
    BY <2>1, <2>2, MoveFacts DEF Settles, Begins, Forgets, Hears, Replies, Stores, Kept, ThinkingKept
  <2> QED BY <2>2, <2>3, <2>4, <2>5, MoveFacts DEF ThinkingKept
<1> QED BY <1>1, <1>2

LEMMA ActingStep == ASSUME Effects, NEW g \in Streams, Moves(g) PROVE ActingKept(g)'
<1> DEFINE k == gen[g].k
           d == gen[g].done
<1> SUFFICES ASSUME Acting(g)', gen'[g].k = k
             PROVE  /\ \A c \in executed' : c.by = g /\ c.step = k => c.call \in 1..gen'[g].done
                    /\ \A x \in Nat : \A n \in Nat : n = k /\ Request(g, n, x)' => x = gen'[g].calls
                    /\ \A c \in 1..Stored(g)', n \in Nat : n = k => Answered(ToolOf(g, n, c))'
                    /\ pc'[g] \in {"end", "done", "finished"} => gen'[g].calls <= gen'[g].done
                    /\ pc'[g] = "append" => ToolOf(g, k, gen'[g].done) \in executed'
  <2>1. Acting(g)' => gen'[g].k = k
    BY DEF Moves, Settles, Stores, Breaks, Spoils, Begins, Forgets, Hears, Replies, Executes,
           Returns, Finishes, Repeats, Departs, Kept, Acting
  <2>2. k \in Nat
    BY MoveFacts
  <2> QED BY <2>1, <2>2 DEF ActingKept
<1>0. /\ k \in Nat /\ d \in Nat /\ gen[g].calls \in Nat /\ gen[g].phase \in Roles
      /\ Call(g) = ToolOf(g, k, d + 1) /\ Call(g).call = d + 1
  BY MoveFacts
<1>1. CASE Stores(g) /\ gen[g].phase = "assistant"
  <2>1. /\ Thinking(g) /\ pc[g] = "append" /\ executed' = executed /\ Kept(g) /\ d = 0
        /\ pc'[g] = IF gen[g].calls = 0 THEN "end" ELSE "tool"
    BY <1>1, MoveFacts DEF Stores, StoreMessage, Thinking, ThinkingKept, AfterAppend
  <2>2. \A c \in executed : c.by = g => c.step < k
    BY <2>1, MoveFacts DEF ThinkingKept
  <2>3. \A x \in Nat : \A n \in Nat : n = k /\ Request(g, n, x)' => x = gen[g].calls
    <3>1. \A n, x \in Nat : Request(g, n, x) => n < k
      BY <2>1, MoveFacts DEF ThinkingKept
    <3>2. \A n, x \in Nat : Request(g, n, x)' => Request(g, n, x) \/ x = gen[g].calls
      BY MoveFacts DEF Adds
    <3> QED BY <1>0, <3>1, <3>2
  <2>4. Stored(g)' = 0 /\ gen'[g].done = 0 /\ gen'[g].calls = gen[g].calls /\ pc'[g] # "append"
    BY <2>1 DEF Stored, Kept
  <2>5. pc'[g] \in {"end", "done", "finished"} => gen[g].calls = 0
    BY <2>1
  <2>6. \A c \in 1..0, n \in Nat : n = k => Answered(ToolOf(g, n, c))'
    OBVIOUS
  <2>7. \A c \in executed : c.by = g /\ c.step = k => c.call \in 1..0
    BY <1>0, <2>2
  <2> QED BY <2>1, <2>3, <2>4, <2>5, <2>6, <2>7
<1>2. CASE Stores(g) /\ gen[g].phase = "tool"
  <2>1. /\ Acting(g) /\ pc[g] = "append" /\ executed' = executed /\ Kept(g) /\ pc'[g] = "result"
        /\ Stored(g) = d - 1 /\ Stored(g)' = d
    BY <1>2 DEF Stores, StoreMessage, Acting, AfterAppend, Stored, Kept
  <2>2. \A c \in 1..(d - 1) : \A n \in Nat : n = k => Answered(ToolOf(g, n, c))'
    BY <1>0, <2>1, MoveFacts DEF ActingKept
  <2>3. \A c, n \in Nat : c = d /\ n = k => Answered(ToolOf(g, n, c))'
    <3>1. Answered(ToolOf(g, gen[g].k, gen[g].done))' /\ gen' = gen
      BY <1>2, MoveFacts DEF Adds, Stores, StoreMessage
    <3> QED BY <3>1
  <2>4. \A c \in 1..d : c \in 1..(d - 1) \/ c = d
    BY <1>0
  <2>5. \A x \in Nat : \A n \in Nat : n = k /\ Request(g, n, x)' => x = gen'[g].calls
    BY <1>2, <2>1, MoveFacts DEF Adds, ActingKept, Kept
  <2>6. \A c \in executed' : c.by = g /\ c.step = k => c.call \in 1..gen'[g].done
    BY <2>1, MoveFacts DEF ActingKept, Kept
  <2>7. \A c \in 1..d, n \in Nat : n = k => Answered(ToolOf(g, n, c))'
    BY <1>0, <2>2, <2>3, <2>4
  <2> QED BY <2>1, <2>5, <2>6, <2>7
<1>3. CASE Executes(g)
  <2>1. /\ Acting(g) /\ pc[g] = "tool" /\ pc'[g] = "append" /\ executed' = executed \cup {Call(g)}
        /\ Stored(g) = d /\ Stored(g)' = d /\ gen'[g].done = d + 1 /\ gen'[g].calls = gen[g].calls
        /\ ~Stores(g)
    BY <1>0, <1>3 DEF Executes, Acting, Stored, Stores
  <2>2. \A c \in 1..d : \A n \in Nat : n = k => Answered(ToolOf(g, n, c))'
    BY <1>0, <2>1, MoveFacts DEF ActingKept
  <2>3. \A x \in Nat : \A n \in Nat : n = k /\ Request(g, n, x)' => x = gen'[g].calls
    BY <1>0, <2>1, MoveFacts DEF Adds, ActingKept
  <2>4. \A c \in executed : c.by = g /\ c.step = k => c.call \in 1..d
    BY <2>1, MoveFacts DEF ActingKept
  <2>5. \A i \in 1..d : i \in 1..(d + 1)
    BY <1>0
  <2>6. d + 1 \in 1..(d + 1)
    BY <1>0
  <2> QED BY <1>0, <2>1, <2>2, <2>3, <2>4, <2>5, <2>6
<1>4. CASE Returns(g) \/ Finishes(g)
  <2>1. /\ Acting(g) /\ pc[g] # "append" /\ pc'[g] # "append" /\ executed' = executed /\ Kept(g)
        /\ Stored(g) = d /\ Stored(g)' = d /\ ~Stores(g)
    BY <1>4 DEF Returns, Finishes, Acting, Stored, Kept, SameTables, Stores
  <2>2. \A c \in 1..d : \A n \in Nat : n = k => Answered(ToolOf(g, n, c))'
    BY <1>0, <2>1, MoveFacts DEF ActingKept
  <2>3. \A x \in Nat : \A n \in Nat : n = k /\ Request(g, n, x)' => x = gen'[g].calls
    BY <1>0, <2>1, MoveFacts DEF Adds, ActingKept, Kept
  <2>4. \A c \in executed : c.by = g /\ c.step = k => c.call \in 1..d
    BY <2>1, MoveFacts DEF ActingKept
  <2>5. pc'[g] \in {"end", "done", "finished"} => gen'[g].calls <= gen'[g].done
    <3>1. CASE Returns(g)
      BY <1>0, <2>1, <3>1 DEF Returns, CallsLeft, Kept
    <3>2. CASE Finishes(g)
      BY <2>1, <3>2, MoveFacts DEF Finishes, ActingKept, Kept
    <3> QED BY <1>4, <3>1, <3>2
  <2> QED BY <2>1, <2>2, <2>3, <2>4, <2>5 DEF Kept
<1>5. \/ Stores(g) /\ gen[g].phase \in {"assistant", "tool"}
      \/ Executes(g) \/ Returns(g) \/ Finishes(g)
  <2>1. ~Settles(g)
    <3>1. Settles(g) => Thinking(g) /\ gen[g].phase = "user"
      BY MoveFacts DEF Settles, Thinking, ThinkingKept
    <3> QED BY <3>1 DEF Settles, Kept, Acting
  <2>2. ~(Stores(g) /\ gen[g].phase = "user")
    BY DEF Stores, AfterAppend, Acting
  <2> QED BY <1>0, <2>1, <2>2
       DEF Moves, Breaks, Spoils, Begins, Forgets, Hears, Replies, Repeats, Departs, Acting, Roles
<1> QED BY <1>1, <1>2, <1>3, <1>4, <1>5

LEMMA CutStep == ASSUME Effects, NEW g \in Streams, Moves(g) PROVE CutKept(g)'
<1> DEFINE k == gen[g].k
           d == gen[g].done
<1>0. k \in Nat /\ d \in Nat
  BY MoveFacts
(* What is answered of the step the stream is in. *)
<1>1. ASSUME NEW c \in executed, c.by = g
      PROVE  Answered(c) \/ (pc[g] = "append" /\ Acting(g) /\ c.step = k /\ c.call = d)
             \/ pc[g] \in Ended \ {"finished"}
  <2>1. c.step < k => Answered(c)
    BY <1>1, MoveFacts DEF StepsKept
  <2>2. c.step <= k /\ c.step \in Nat
    BY <1>1, MoveFacts DEF StepsKept
  <2>3. CASE Thinking(g)
    BY <1>1, <2>1, <2>3, MoveFacts DEF ThinkingKept
  <2>4. CASE Acting(g) /\ c.step = k
    <3>1. c.call \in 1..d /\ c = ToolOf(g, k, c.call)
      BY <1>1, <2>4, MoveFacts DEF ActingKept
    <3>2. \A i \in 1..Stored(g) : Answered(ToolOf(g, k, i))
      BY <2>4, MoveFacts DEF ActingKept
    <3>3. CASE pc[g] # "append"
      BY <3>1, <3>2, <3>3 DEF Stored
    <3>4. CASE pc[g] = "append"
      <4>1. Stored(g) = d - 1 /\ (c.call \in 1..(d - 1) \/ c.call = d)
        BY <1>0, <3>1, <3>4 DEF Stored
      <4> QED BY <2>4, <3>1, <3>2, <3>4, <4>1
    <3> QED BY <3>3, <3>4
  <2>5. Thinking(g) \/ Acting(g) \/ pc[g] \in Ended \ {"finished"}
    BY MoveFacts DEF Thinking, Acting, Places, Awaits, Yields, Ended
  <2>6. c.step < k \/ c.step = k
    BY <1>0, <2>2
  <2> QED BY <2>1, <2>3, <2>4, <2>5, <2>6
<1>2. CASE Departs(g)
  <2>1. /\ pc[g] \notin Ended /\ pc[g] # "append" /\ executed' = executed /\ pc'[g] # "raised"
    BY <1>2 DEF Departs, Suspended, Yields, Ended, SameTables
  <2> QED BY <1>1, <2>1, MoveFacts DEF CutKept
<1>3. CASE Breaks(g) \/ Spoils(g)
  <2>1. /\ pc[g] \notin Ended /\ pc'[g] = "raised" /\ gen'[g].k = k
        /\ executed' = executed \/ (executed' = executed \cup {Call(g)} /\ pc[g] = "tool")
    BY <1>3 DEF Breaks, Spoils, Running, Awaits, Ended, SameTables, Kept
  <2>2. SUFFICES ASSUME NEW c \in executed', c.by = g, c.step = k
                 PROVE  Answered(c)' \/ \A e \in executed' : e.by = g /\ e.step = k => e.call <= c.call
    BY <2>1 DEF CutKept
  <2>3. Acting(g) => \A e \in executed : e.by = g /\ e.step = k => e.call \in 1..d
    BY MoveFacts DEF ActingKept
  <2>4. CASE c = Call(g) /\ pc[g] = "tool"
    <3>1. c.call = d + 1 /\ Acting(g)
      BY <2>4, MoveFacts DEF Acting
    <3>2. \A e \in executed : e.by = g /\ e.step = k => e.call <= d + 1
      BY <1>0, <2>3, <3>1
    <3> QED BY <1>0, <2>1, <2>4, <3>1, <3>2
  <2>5. CASE c \in executed /\ Answered(c)
    BY <2>5, MoveFacts
  <2>6. CASE c \in executed /\ pc[g] = "append" /\ Acting(g) /\ c.call = d
    <3>1. executed' = executed
      BY <2>1, <2>6
    <3> QED BY <1>0, <2>3, <2>6, <3>1
  <2> QED BY <1>1, <2>1, <2>2, <2>4, <2>5, <2>6
<1>4. CASE pc'[g] \notin {"closed", "dropped", "raised"}
  BY <1>4 DEF CutKept
<1>5. Departs(g) \/ Breaks(g) \/ Spoils(g) \/ pc'[g] \notin {"closed", "dropped", "raised"}
  BY MoveFacts
  DEF Moves, Settles, Stores, Begins, Forgets, Hears, Replies, Executes, Returns, Finishes, Repeats,
      AfterAppend, Roles
<1> QED BY <1>2, <1>3, <1>4, <1>5

LEMMA ShownStep == ASSUME Effects, NEW g \in Streams, Moves(g) PROVE ShownKept'
<1> SUFFICES ASSUME NEW c \in shown' PROVE c \in executed' /\ Answered(c)'
  BY DEF ShownKept
<1>1. CASE c \in shown
  <2>1. c \in executed /\ Answered(c)
    BY <1>1 DEF Effects, ShownKept
  <2> QED BY <2>1, MoveFacts DEF Adds
<1>2. CASE c \in ResultShown(g) /\ Stores(g) /\ gen[g].phase = "tool"
  <2>1. c = ToolOf(g, gen[g].k, gen[g].done) /\ Acting(g) /\ pc[g] = "append" /\ gen' = gen
    BY <1>2 DEF ResultShown, ToolOf, Stores, StoreMessage, Acting
  <2>2. c \in executed
    BY <2>1, MoveFacts DEF ActingKept
  <2>3. Answered(ToolOf(g, gen[g].k, gen[g].done))'
    BY <1>2, MoveFacts DEF Adds
  <2>4. Answered(c)'
    BY <2>1, <2>3
  <2> QED BY <2>2, <2>4, MoveFacts DEF Adds
<1> QED BY <1>1, <1>2, MoveFacts DEF Adds

LEMMA EffectsStep == ASSUME Effects, NEW g \in Streams, Acts(g) PROVE Effects'
<1>1. TypeOK /\ Moves(g)
  BY StreamMoves DEF Effects
<1>2. ASSUME NEW h \in Streams PROVE StreamKept(h)'
  <2>1. CASE h = g
    BY <1>1, <2>1, StepsStep, ThinkingStep, ActingStep, CutStep DEF StreamKept
  <2>2. CASE h # g
    BY <1>1, <2>2, OtherKept DEF Effects
  <2> QED BY <2>1, <2>2
<1> QED BY <1>1, <1>2, ActsTyped, ShownStep DEF Effects

LEMMA InitEffects == Init => Effects
<1> SUFFICES ASSUME Init PROVE Effects
  OBVIOUS
<1>1. TypeOK
  BY InitIInv DEF IInv
<1>2. executed = {} /\ shown = {} /\ \A s \in Sessions : DOMAIN messages[s] = {}
  BY DEF Init
<1>3. \A g \in Streams, n, x \in Nat : ~Request(g, n, x)
  BY <1>2 DEF Request
<1>4. \A g \in Streams : pc[g] = "made" /\ gen[g].phase = "user"
  BY DEF Init
<1>5. ASSUME NEW g \in Streams PROVE StreamKept(g)
  BY <1>2, <1>3, <1>4
  DEF StreamKept, StepsKept, ThinkingKept, ActingKept, CutKept, Thinking, Acting
<1> QED BY <1>1, <1>2, <1>5 DEF Effects, ShownKept

LEMMA EffectsKept == Effects /\ [Next]_vars => Effects'
<1> SUFFICES ASSUME Effects, [Next]_vars PROVE Effects'
  OBVIOUS
<1>1. CASE UNCHANGED vars
  <2>1. TypeOK'
    BY <1>1 DEF vars, Effects, TypeOK, Running, Suspended
  <2>2. /\ \A c : Answered(c)' <=> Answered(c)
        /\ \A g, n, x : Request(g, n, x)' <=> Request(g, n, x)
    BY <1>1 DEF vars, Answered, Request
  <2>3. ShownKept'
    BY <1>1, <2>2 DEF vars, Effects, ShownKept
  <2>4. ASSUME NEW g \in Streams PROVE StreamKept(g)'
    <3>1. StepsKept(g) /\ ThinkingKept(g) /\ ActingKept(g) /\ CutKept(g)
      BY DEF Effects, StreamKept
    <3>2. StepsKept(g)'
      BY <1>1, <2>2, <3>1 DEF vars, StepsKept
    <3>3. ThinkingKept(g)'
      BY <1>1, <2>2, <3>1 DEF vars, ThinkingKept, Thinking
    <3>4. ActingKept(g)'
      BY <1>1, <2>2, <3>1 DEF vars, ActingKept, Acting, Stored
    <3>5. CutKept(g)'
      BY <1>1, <2>2, <3>1 DEF vars, CutKept
    <3> QED BY <3>2, <3>3, <3>4, <3>5 DEF StreamKept
  <2> QED BY <2>1, <2>3, <2>4 DEF Effects
<1>2. CASE \E g \in Streams : Acts(g)
  BY <1>2, EffectsStep
<1> QED BY <1>1, <1>2 DEF Next, Quiet, Acts

(* The rows and what the streams know of them have the types of the        *)
(* schema, also when a task iterates several streams at a time.            *)
THEOREM TypeCorrect == Spec => []TypeOK
<1>1. Effects => TypeOK
  BY DEF Effects
<1> QED BY InitEffects, EffectsKept, <1>1, PTL DEF Spec

(* However a stream is cut short, what a consumer saw of its tools is      *)
(* stored, and so is the result of every tool that ran but the last        *)
(* (Agent.stream, from the tool call to the append of its message).        *)
THEOREM EffectsStayStored == Spec => []EffectsAreStored
<1>1. ASSUME Effects PROVE EffectsAreStored
  <2>1. \A c \in shown : c \in executed /\ Answered(c)
    BY <1>1 DEF Effects, ShownKept
  <2>2. ASSUME NEW c \in executed, ~Answered(c)
        PROVE  /\ pc[c.by] \in {"append", "raised"}
               /\ c.step = gen[c.by].k
               /\ \A e \in executed : e.by = c.by /\ e.step = c.step => e.call <= c.call
    <3> DEFINE g == c.by
    <3>1. /\ g \in Streams /\ c.step \in Nat /\ c.call \in Nat /\ c = ToolOf(g, c.step, c.call)
          /\ StreamKept(g) /\ gen[g].k \in Nat /\ gen[g].done \in Nat /\ pc[g] \in Places
      <4>1. TypeOK /\ c \in ToolCall
        BY <1>1, Typed DEF Effects
      <4>2. g \in Streams /\ c.step \in Nat /\ c.call \in Nat /\ c = ToolOf(g, c.step, c.call)
        BY <4>1 DEF ToolCall, ToolOf
      <4> QED BY <1>1, <4>1, <4>2, Typed DEF Effects
    <3>2. c.step = gen[g].k
      BY <2>2, <3>1 DEF StreamKept, StepsKept
    <3>3. CASE Thinking(g)
      BY <3>1, <3>2, <3>3 DEF StreamKept, ThinkingKept
    <3>4. CASE Acting(g)
      <4>1. c.call \in 1..gen[g].done /\ \A i \in 1..Stored(g) : Answered(ToolOf(g, gen[g].k, i))
        BY <3>1, <3>2, <3>4 DEF StreamKept, ActingKept
      <4>2. c.call \notin 1..Stored(g)
        BY <2>2, <3>1, <3>2, <4>1
      <4>3. pc[g] = "append" /\ c.call = gen[g].done
        BY <3>1, <4>1, <4>2 DEF Stored
      <4>4. \A e \in executed : e.by = g /\ e.step = gen[g].k => e.call \in 1..gen[g].done
        BY <3>1, <3>4 DEF StreamKept, ActingKept
      <4> QED BY <3>1, <3>2, <4>3, <4>4
    <3>5. CASE pc[g] \in {"closed", "dropped", "raised"}
      BY <2>2, <3>1, <3>2, <3>5 DEF StreamKept, CutKept
    <3>6. Thinking(g) \/ Acting(g) \/ pc[g] \in {"closed", "dropped", "raised"}
      BY <3>1 DEF Thinking, Acting, Places, Awaits, Yields, Ended
    <3> QED BY <3>3, <3>4, <3>5, <3>6
  <2> QED BY <2>1, <2>2 DEF EffectsAreStored
<1> QED BY InitEffects, EffectsKept, <1>1, PTL DEF Spec

(* No stream starts another step, or finishes, while a tool call of an     *)
(* assistant message it stored has no answer: only the step it is in can   *)
(* be cut short (Agent.stream, the loop over the tool calls).              *)
THEOREM StepsStayAnswered == Spec => []StepsAreAnswered
<1>1. ASSUME Effects PROVE StepsAreAnswered
  <2> SUFFICES ASSUME NEW s \in Sessions, NEW i \in DOMAIN messages[s],
                      messages[s][i].role = "assistant"
               PROVE  LET m == messages[s][i] IN
                      \/ \A c \in 1..m.calls : Answered(ToolOf(m.by, m.step, c))
                      \/ /\ gen[m.by].k = m.step
                         /\ pc[m.by] \notin {"start", "history", "llm", "finished"}
    BY DEF StepsAreAnswered, ToolOf
  <2> DEFINE m == messages[s][i]
             g == m.by
  <2>1. messages[s] \in Seq(Message)
    BY <1>1 DEF Effects, TypeOK
  <2>2. g \in Streams /\ m.step \in Nat /\ m.calls \in Nat
    <3>1. m \in Message
      BY <2>1
    <3> QED BY <3>1 DEF Message
  <2>3. Request(g, m.step, m.calls)
    BY DEF Request
  <2> HIDE DEF m
  <2>4. StreamKept(g) /\ gen[g].k \in Nat /\ gen[g].done \in Nat /\ gen[g].calls \in Nat
    BY <1>1, <2>2, Typed DEF Effects
  <2>5. /\ m.step <= gen[g].k
        /\ m.step < gen[g].k => \A c \in 1..m.calls : Answered(ToolOf(g, m.step, c))
    BY <2>2, <2>3, <2>4 DEF StreamKept, StepsKept
  <2>6. CASE m.step = gen[g].k /\ pc[g] \in {"start", "history", "llm"}
    BY <2>2, <2>3, <2>4, <2>6 DEF StreamKept, ThinkingKept, Thinking
  <2>7. CASE m.step = gen[g].k /\ pc[g] = "finished"
    <3>1. /\ m.calls = gen[g].calls /\ gen[g].calls <= gen[g].done /\ Stored(g) = gen[g].done
          /\ \A c \in 1..Stored(g) : Answered(ToolOf(g, gen[g].k, c))
      BY <2>2, <2>3, <2>4, <2>7 DEF StreamKept, ActingKept, Acting, Stored
    <3>2. \A c \in 1..m.calls : c \in 1..gen[g].done
      BY <2>2, <2>4, <3>1
    <3> QED BY <2>7, <3>1, <3>2 DEF m
  <2> QED BY <2>2, <2>4, <2>5, <2>6, <2>7 DEF m
<1> QED BY InitEffects, EffectsKept, <1>1, PTL DEF Spec

=============================================================================
