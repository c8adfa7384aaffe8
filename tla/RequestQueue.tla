---------------------------- MODULE RequestQueue ----------------------------
(***************************************************************************)
(* The request queue of src/agent_sdk/scale/queue.py: clients submit       *)
(* requests and wait for their results, workers take them in the order of  *)
(* their priority, and somebody starts and stops the workers.  Everything  *)
(* between two awaits is one action.                                       *)
(***************************************************************************)
EXTENDS Integers, FiniteSets

CONSTANTS
    Requests,       \* requests; uuid4().hex tells them apart
    Priority,       \* the priority each is submitted with
    Clients,        \* tasks that call get_result
    Workers,        \* worker tasks, of all the times start is called
    NoRequest,      \* what an idle worker works on
    MaxSize,        \* max_size
    MaxWorkers,     \* max_workers
    MaxStops,       \* bound: calls of stop
    Overlap         \* TRUE: start may be called while stop is in progress

ASSUME PriorityAssumption == Priority \in [Requests -> Nat]
ASSUME WorkersAssumption == IsFiniteSet(Workers)
ASSUME NoRequestAssumption == NoRequest \notin Requests
ASSUME LimitAssumption == /\ MaxSize \in Nat \ {0}
                          /\ MaxWorkers \in Nat \ {0}
                          /\ MaxStops \in Nat
                          /\ Overlap \in BOOLEAN

VARIABLES
    queue,      \* entries of the PriorityQueue
    phase,      \* what became of each request
    future,     \* its future
    results,    \* keys of _results
    outcome,    \* what get_result gave each client for each request
    work,       \* what each worker is handling
    worker,     \* where each worker task is
    doomed,     \* workers whose task was cancelled and that do not know yet
    listed,     \* _workers
    running,    \* _running
    active,     \* _active_count
    stopping,   \* the workers a stop() in progress waits for; {} when there is none
    inStop,     \* a stop() is in progress
    stops       \* calls of stop so far

requestVars == <<queue, phase, future, results, outcome>>
workerVars == <<work, worker, doomed, active>>
lifecycle == <<listed, running, stopping, inStop, stops>>
vars == <<requestVars, workerVars, lifecycle>>

-----------------------------------------------------------------------------

Init ==
    /\ queue = {}
    /\ phase = [r \in Requests |-> "new"]
    /\ future = [r \in Requests |-> "none"]
    /\ results = {}
    /\ outcome = [k \in Clients |-> [r \in Requests |-> "none"]]
    /\ work = [w \in Workers |-> NoRequest]
    /\ worker = [w \in Workers |-> "off"]
    /\ doomed = {}
    /\ listed = {}
    /\ running = FALSE
    /\ active = 0
    /\ stopping = {}
    /\ inStop = FALSE
    /\ stops = 0

Full == Cardinality(queue) >= MaxSize

Submit(r) ==
    /\ phase[r] = "new"
    /\ ~Full
    /\ queue' = queue \cup {r}
    /\ phase' = [phase EXCEPT ![r] = "queued"]
    /\ future' = [future EXCEPT ![r] = "pending"]
    /\ results' = results \cup {r}
    /\ UNCHANGED <<outcome, workerVars, lifecycle>>

(* BackpressureError: the request has no id; the caller may try again. *)
Refuse(r) ==
    /\ phase[r] = "new"
    /\ Full
    /\ UNCHANGED vars

CancelledFuture(r) == [future EXCEPT ![r] = IF @ = "pending" THEN "cancelled" ELSE @]

(* cancel(): the entry stays in the queue. *)
Cancel(r) ==
    /\ r \in results
    /\ results' = results \ {r}
    /\ future' = CancelledFuture(r)
    /\ UNCHANGED <<queue, phase, outcome, workerVars, lifecycle>>

(* get_result, up to its await. *)
GetResult(k, r) ==
    /\ phase[r] # "new"
    /\ outcome[k][r] = "none"
    /\ outcome' = [outcome EXCEPT ![k][r] = IF r \in results THEN "waiting" ELSE "missing"]
    /\ UNCHANGED <<queue, phase, future, results, workerVars, lifecycle>>

(* The future is done; a cancelled one raises CancelledError in the client.*)
Deliver(k, r) ==
    /\ outcome[k][r] = "waiting"
    /\ future[r] # "pending"
    /\ outcome' = [outcome EXCEPT ![k][r] = future[r]]
    /\ UNCHANGED <<queue, phase, future, results, workerVars, lifecycle>>

(* wait_for gives up (or the client is cancelled), and cancels the future. *)
TimeOut(k, r) ==
    /\ outcome[k][r] = "waiting"
    /\ future[r] = "pending"
    /\ future' = CancelledFuture(r)
    /\ outcome' = [outcome EXCEPT ![k][r] = "timeout"]
    /\ UNCHANGED <<queue, phase, results, workerVars, lifecycle>>

-----------------------------------------------------------------------------
(* The workers. *)

(* Where a worker goes when it tests self._running. *)
Onward == IF running THEN "getting" ELSE "off"

StillQueued(r) == queue                 \* mutant: the entry is only looked at
Rest(r) == queue \ {r}

NotCounted == active                    \* mutant: the handler is not counted in
OneMore == active + 1

(* PriorityQueue.get: entries of one priority come in the order of the     *)
(* heap, which is not the order of their submission.  A worker may still   *)
(* get an entry after its task was cancelled; wait_for of Python 3.11 then *)
(* forgets the cancellation.                                               *)
Take(w, r) ==
    /\ worker[w] = "getting"
    /\ r \in queue
    /\ \A q \in queue : Priority[r] <= Priority[q]
    /\ queue' = Rest(r)
    /\ phase' = [phase EXCEPT ![r] = "handling"]
    /\ work' = [work EXCEPT ![w] = r]
    /\ worker' = [worker EXCEPT ![w] = "handling"]
    /\ doomed' = doomed \ {w}
    /\ active' = OneMore
    /\ UNCHANGED <<future, results, outcome, lifecycle>>

NothingLeft(w) == worker[w] = "getting" /\ queue = {}   \* mutant: break for continue
StopsPolling(w) == worker[w] = "getting" /\ ~running

(* wait_for times out after a second, and the loop goes on as before... *)
Poll(w) == worker[w] = "getting" /\ running /\ UNCHANGED vars

(* ... or sees that _running is False. *)
Leave(w) ==
    /\ StopsPolling(w)
    /\ worker' = [worker EXCEPT ![w] = "off"]
    /\ doomed' = doomed \ {w}
    /\ UNCHANGED <<requestVars, work, active, lifecycle>>

NothingSet(r, result) ==                \* mutant: errors of the handler are swallowed
    IF future[r] = "pending" /\ result = "result" THEN [future EXCEPT ![r] = result] ELSE future
Answered(r, result) ==
    IF future[r] = "pending" THEN [future EXCEPT ![r] = result] ELSE future

(* The handler returns or raises; a future that is done is left alone. *)
Handled(w, result) ==
    /\ worker[w] = "handling"
    /\ w \notin doomed
    /\ phase' = [phase EXCEPT ![work[w]] = "handled"]
    /\ future' = Answered(work[w], result)
    /\ work' = [work EXCEPT ![w] = NoRequest]
    /\ worker' = [worker EXCEPT ![w] = Onward]
    /\ active' = active - 1
    /\ UNCHANGED <<queue, results, outcome, doomed, lifecycle>>

OneLess == active - 1

(* CancelledError in a worker: while it waits for an entry it breaks; in   *)
(* the handler nothing catches it, the future is left as it is, and the    *)
(* task ends.                                                              *)
EndTask(w) ==
    /\ doomed' = doomed \ {w}
    /\ worker' = [worker EXCEPT ![w] = "off"]
    /\ work' = [work EXCEPT ![w] = NoRequest]
    /\ IF worker[w] = "handling"
       THEN phase' = [phase EXCEPT ![work[w]] = "lost"] /\ active' = OneLess
       ELSE UNCHANGED <<phase, active>>
    /\ UNCHANGED <<queue, future, results, outcome, lifecycle>>

(* stop() has cancelled the task. *)
Interrupt(w) ==
    /\ w \in doomed
    /\ EndTask(w)

(* The handler raises CancelledError by itself, as it does when something  *)
(* it awaits was cancelled: `except Exception' does not catch it.          *)
HandlerCancelled(w) ==
    /\ worker[w] = "handling"
    /\ w \notin doomed
    /\ EndTask(w)

-----------------------------------------------------------------------------
(* start and stop. *)

MayStart == TRUE                        \* mutant: start does not look at _running
NotRunning == ~running

(* max_workers new tasks; which members of Workers stand for them does not *)
(* matter.                                                                 *)
Unused == {w \in Workers \ listed : worker[w] = "off"}
NewWorkers == CHOOSE new \in SUBSET Unused : Cardinality(new) = MaxWorkers

Start ==
    /\ NotRunning
    /\ inStop => Overlap
    /\ Cardinality(Unused) >= MaxWorkers
    /\ listed' = listed \cup NewWorkers
    /\ worker' = [w \in Workers |-> IF w \in NewWorkers THEN "getting" ELSE worker[w]]
    /\ running' = TRUE
    /\ UNCHANGED <<requestVars, work, doomed, active, stopping, inStop, stops>>

(* stop(), up to its await of gather: cancel on a task that has ended does *)
(* nothing.                                                                *)
Stop ==
    /\ stops < MaxStops
    /\ ~inStop
    /\ stops' = stops + 1
    /\ running' = FALSE
    /\ doomed' = doomed \cup {w \in listed : worker[w] # "off"}
    /\ stopping' = listed
    /\ inStop' = TRUE
    /\ UNCHANGED <<requestVars, work, worker, active, listed>>

Gathered == inStop /\ \A w \in stopping : worker[w] = "off"

(* gather is done: _workers.clear(). *)
StopReturns ==
    /\ Gathered
    /\ listed' = {}
    /\ stopping' = {}
    /\ inStop' = FALSE
    /\ UNCHANGED <<requestVars, workerVars, running, stops>>

-----------------------------------------------------------------------------

Serve(w) == \/ \E r \in Requests : Take(w, r)
            \/ \E result \in {"result", "error"} : Handled(w, result)
            \/ HandlerCancelled(w)

Next ==
    \/ \E r \in Requests : Submit(r) \/ Refuse(r) \/ Cancel(r)
    \/ \E k \in Clients, r \in Requests : GetResult(k, r) \/ Deliver(k, r) \/ TimeOut(k, r)
    \/ \E w \in Workers : Serve(w) \/ Poll(w) \/ Leave(w) \/ Interrupt(w)
    \/ Start \/ Stop \/ StopReturns

Spec == Init /\ [][Next]_vars

(* Workers are scheduled, handlers end, the queue is started, and a client *)
(* is woken when its future is done.                                       *)
FairSpec ==
    /\ Spec
    /\ WF_vars(Start)
    /\ \A w \in Workers : WF_vars(Serve(w)) /\ WF_vars(Leave(w)) /\ WF_vars(Interrupt(w))
    /\ WF_vars(StopReturns)
    /\ \A k \in Clients, r \in Requests : WF_vars(Deliver(k, r))

-----------------------------------------------------------------------------

(* The fields of the queue, of its workers and of the futures. *)
TypeOK ==
    /\ queue \subseteq Requests
    /\ phase \in [Requests -> {"new", "queued", "handling", "handled", "lost"}]
    /\ future \in [Requests -> {"none", "pending", "result", "error", "cancelled"}]
    /\ results \subseteq Requests
    /\ outcome \in [Clients -> [Requests ->
         {"none", "waiting", "missing", "timeout", "result", "error", "cancelled"}]]
    /\ work \in [Workers -> Requests \cup {NoRequest}]
    /\ worker \in [Workers -> {"off", "getting", "handling"}]
    /\ doomed \subseteq Workers
    /\ listed \subseteq Workers
    /\ running \in BOOLEAN
    /\ active \in Nat
    /\ stopping \subseteq Workers
    /\ inStop \in BOOLEAN
    /\ stops \in 0..MaxStops

(* An entry is in one place: in the queue, in the hands of one worker, or  *)
(* done with; whatever cancel, time-outs, stop and start do, no request is *)
(* handled twice, none that is queued gets out of sight, and active_count  *)
(* is the number of handlers in progress.                                  *)
EntryInOnePlace ==
    /\ \A r \in Requests : phase[r] = "queued" <=> r \in queue
    /\ \A r \in Requests : phase[r] = "handling" <=> \E w \in Workers : work[w] = r
    /\ \A v, w \in Workers : work[v] = work[w] /\ work[v] # NoRequest => v = w
    /\ active = Cardinality({w \in Workers : work[w] # NoRequest})

(* A client is told what the handler did with its request, a request that  *)
(* was handled leaves nobody waiting, and one is reported as cancelled     *)
(* only if it was cancelled or the wait of another client timed out.       *)
AnswersAreTrue ==
    \A r \in Requests :
        /\ future[r] \in {"result", "error"} => phase[r] = "handled"
        /\ phase[r] = "handled" => future[r] # "pending"
        /\ \A k \in Clients :
             /\ outcome[k][r] \in {"result", "error", "cancelled"} => outcome[k][r] = future[r]
             /\ outcome[k][r] = "cancelled" =>
                  r \notin results \/ \E j \in Clients : outcome[j][r] = "timeout"

(* No more than max_workers workers at a time, however often the queue is  *)
(* started and stopped, and none once stop has returned, as long as start  *)
(* waits for a stop to return.  This is the first half of queue.py:87,     *)
(* "Stop all workers and drain the queue": nothing is drained, the entries *)
(* stay for the workers of the next start.                                 *)
WorkersWithinLimit ==
    /\ Cardinality({w \in Workers : worker[w] # "off"}) <= MaxWorkers
    /\ ~running /\ ~inStop => \A w \in Workers : worker[w] = "off"

(* Handlers that raised CancelledError, each at the cost of its worker. *)
Lost == {r \in Requests : phase[r] = "lost"}

(* A request that was accepted is answered if the queue is not stopped,    *)
(* its own handler does not raise CancelledError, and not every worker has *)
(* died of that: one such handler takes nobody else's answer away.  That   *)
(* urgent requests without end would keep the others waiting is left out,  *)
(* Requests being finite.                                                  *)
AcceptedIsAnswered ==
    \A r \in Requests :
        future[r] = "pending" ~> \/ future[r] \in {"result", "error", "cancelled"}
                                \/ stops > 0
                                \/ r \in Lost
                                \/ Cardinality(Lost) >= MaxWorkers

=============================================================================
