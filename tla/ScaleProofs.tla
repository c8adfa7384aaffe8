----------------------------- MODULE ScaleProofs -----------------------------
(***************************************************************************)
(* Theorems about what src/agent_sdk/scale puts between callers and        *)
(* agents: RequestQueue, for every set of requests and clients, any        *)
(* priorities, limits, stops and restarts; and CircuitBreaker, for every   *)
(* set of callers, finite or not, every threshold, number of slots and     *)
(* number of retries.                                                      *)
(***************************************************************************)
EXTENDS RequestQueue, CircuitBreaker, FiniteSetTheorems, TLAPS

-----------------------------------------------------------------------------
(* The request queue: for any number of requests, clients and workers, any *)
(* limits, and any number of stops and restarts.                           *)

Statuses == {"none", "waiting", "missing", "timeout", "result", "error", "cancelled"}

Busy == {w \in Workers : work[w] # NoRequest}

(* A worker has an entry in its hands exactly when it is at the handler... *)
HandlersFit == \A w \in Workers : worker[w] = "handling" <=> work[w] # NoRequest

(* ... and only a task that is still there can be cancelled. *)
DoomedAreThere == \A w \in doomed : worker[w] # "off"

(* Nobody knows a request before it is submitted. *)
Unknown(r) == future[r] = "none" /\ r \notin results /\ \A k \in Clients : outcome[k][r] = "none"

KnownIsSubmitted == \A r \in Requests : /\ phase[r] = "new" => Unknown(r)
                                        /\ phase[r] # "new" => future[r] # "none"

EntryInv == TypeOK /\ IsFiniteSet(Busy) /\ HandlersFit /\ DoomedAreThere /\ KnownIsSubmitted
              /\ EntryInOnePlace

LEMMA QueueInitEntryInv == Init => EntryInv
<1> SUFFICES ASSUME Init PROVE EntryInv
  OBVIOUS
<1> USE LimitAssumption
<1>1. Busy = {} /\ \A w \in Workers : work[w] = NoRequest
  BY DEF Init, Busy
<1>2. IsFiniteSet(Busy) /\ active = Cardinality(Busy)
  BY <1>1, FS_EmptySet DEF Init
<1>3. TypeOK
  <2>1. /\ outcome \in [Clients -> [Requests -> Statuses]]
        /\ stops \in 0..MaxStops
    BY DEF Init, Statuses
  <2> QED
    BY <2>1 DEF Init, TypeOK, Statuses
<1>4. HandlersFit /\ DoomedAreThere /\ KnownIsSubmitted
  BY DEF Init, HandlersFit, DoomedAreThere, KnownIsSubmitted, Unknown
<1>5. EntryInOnePlace
  BY <1>1, <1>2, NoRequestAssumption DEF Init, EntryInOnePlace, Busy
<1> QED
  BY <1>2, <1>3, <1>4, <1>5 DEF EntryInv

(* What the actions that move no entry leave as it is. *)
LEMMA EntriesUntouched ==
    ASSUME EntryInv, UNCHANGED <<queue, phase, work, active>>
    PROVE  IsFiniteSet(Busy') /\ EntryInOnePlace'
BY DEF EntryInv, Busy, EntryInOnePlace

LEMMA CancelStep ==
    ASSUME EntryInv, NEW r \in Requests, Cancel(r) PROVE EntryInv'
<1>1. /\ r \in results /\ results' = results \ {r} /\ future' = CancelledFuture(r)
      /\ UNCHANGED <<queue, phase, outcome, work, worker, doomed, active, listed, running,
                     stopping, inStop, stops>>
  BY DEF Cancel, workerVars, lifecycle
<1>2. /\ future' \in [Requests -> {"none", "pending", "result", "error", "cancelled"}]
      /\ \A q \in Requests : future'[q] = "none" <=> future[q] = "none"
  BY <1>1 DEF EntryInv, TypeOK, CancelledFuture
<1>3. TypeOK'
  BY <1>1, <1>2 DEF EntryInv, TypeOK
<1>4. KnownIsSubmitted'
  BY <1>1, <1>2 DEF EntryInv, KnownIsSubmitted, Unknown
<1>5. HandlersFit' /\ DoomedAreThere'
  BY <1>1 DEF EntryInv, HandlersFit, DoomedAreThere
<1> QED
  BY <1>1, <1>3, <1>4, <1>5, EntriesUntouched DEF EntryInv

(* A client waits for a request, or gives up. *)
LEMMA ClientStep ==
    ASSUME EntryInv, NEW k \in Clients, NEW r \in Requests,
           GetResult(k, r) \/ Deliver(k, r) \/ TimeOut(k, r)
    PROVE  EntryInv'
<1>1. UNCHANGED <<queue, phase, work, worker, doomed, active, listed, running, stopping, inStop, stops>>
  BY DEF GetResult, Deliver, TimeOut, workerVars, lifecycle
<1>2. phase[r] # "new"
  BY DEF GetResult, Deliver, TimeOut, EntryInv, KnownIsSubmitted, Unknown
<1>3. /\ future' = future \/ future' = CancelledFuture(r)
      /\ results' = results
  BY DEF GetResult, Deliver, TimeOut
<1>4. /\ future' \in [Requests -> {"none", "pending", "result", "error", "cancelled"}]
      /\ \A q \in Requests : future'[q] # "none" <=> future[q] # "none"
  BY <1>3 DEF EntryInv, TypeOK, CancelledFuture
<1>5. outcome' = outcome \/ \E o \in Statuses : outcome' = [outcome EXCEPT ![k][r] = o]
  <2>2. CASE GetResult(k, r)
    BY <2>2 DEF GetResult, Statuses
  <2>3. CASE Deliver(k, r)
    <3>1. future[r] # "none" /\ future[r] # "pending"
      BY <1>2, <2>3 DEF EntryInv, KnownIsSubmitted, Deliver
    <3>2. future[r] \in Statuses
      BY <3>1 DEF EntryInv, TypeOK, Statuses
    <3> QED
      BY <2>3, <3>2 DEF Deliver
  <2>4. CASE TimeOut(k, r)
    BY <2>4 DEF TimeOut, Statuses
  <2> QED
    BY <2>2, <2>3, <2>4
<1>6. /\ outcome' \in [Clients -> [Requests -> Statuses]]
      /\ \A j \in Clients, q \in Requests : q # r => outcome'[j][q] = outcome[j][q]
  <2>1. outcome \in [Clients -> [Requests -> Statuses]]
    BY DEF EntryInv, TypeOK, Statuses
  <2>2. ASSUME NEW o \in Statuses, outcome' = [outcome EXCEPT ![k][r] = o]
        PROVE  /\ outcome' \in [Clients -> [Requests -> Statuses]]
               /\ \A j \in Clients, q \in Requests : q # r => outcome'[j][q] = outcome[j][q]
    BY <2>1, <2>2
  <2> QED
    BY <1>5, <2>1, <2>2
<1>7. TypeOK'
  BY <1>1, <1>3, <1>4, <1>6 DEF EntryInv, TypeOK, Statuses
<1>8. KnownIsSubmitted'
  BY <1>1, <1>2, <1>3, <1>4, <1>6 DEF EntryInv, KnownIsSubmitted, Unknown
<1>9. HandlersFit' /\ DoomedAreThere'
  BY <1>1 DEF EntryInv, HandlersFit, DoomedAreThere
<1> QED
  BY <1>1, <1>7, <1>8, <1>9, EntriesUntouched DEF EntryInv

(* Any set of n elements has a subset of any smaller number of elements:   *)
(* max_workers of the workers that are not used.                           *)
LEMMA SubsetOfSize ==
    ASSUME NEW S, IsFiniteSet(S), NEW m \in Nat, m <= Cardinality(S)
    PROVE  \E T \in SUBSET S : Cardinality(T) = m
<1>1. Cardinality(S) \in Nat /\ ExistsBijection(1..Cardinality(S), S)
  BY FS_CardinalityType
<1>2. PICK f \in Bijection(1..Cardinality(S), S) : TRUE
  BY <1>1 DEF ExistsBijection
<1> DEFINE T == {f[i] : i \in 1..m}
           g == [i \in 1..m |-> f[i]]
<1>3. /\ 1..m \subseteq 1..Cardinality(S) /\ f \in [1..Cardinality(S) -> S]
      /\ \A i, j \in 1..Cardinality(S) : f[i] = f[j] => i = j
  BY <1>1, <1>2 DEF Bijection, Injection, IsInjective
<1>4. g \in Bijection(1..m, T)
  <2>1. g \in [1..m -> T]
    OBVIOUS
  <2>2. \A i, j \in 1..m : g[i] = g[j] => i = j
    BY <1>3
  <2>3. \A t \in T : \E i \in 1..m : g[i] = t
    OBVIOUS
  <2> QED
    BY <2>1, <2>2, <2>3 DEF Bijection, Injection, Surjection, IsInjective
<1>5. IsFiniteSet(1..m) /\ Cardinality(1..m) = m
  BY FS_Interval
<1>6. Cardinality(T) = m
  <2>1. ExistsBijection(1..m, T)
    BY <1>4 DEF ExistsBijection
  <2> QED
    BY <1>5, <2>1, FS_Bijection
<1> QED
  BY <1>3, <1>6

LEMMA FreshWorkers ==
    ASSUME Cardinality(Unused) >= MaxWorkers
    PROVE  NewWorkers \in SUBSET Unused /\ Cardinality(NewWorkers) = MaxWorkers
<1>1. IsFiniteSet(Unused)
  BY WorkersAssumption, FS_Subset DEF Unused
<1>2. Cardinality(Unused) \in Nat
  BY <1>1, FS_CardinalityType
<1>3. \E new \in SUBSET Unused : Cardinality(new) = MaxWorkers
  BY <1>1, <1>2, LimitAssumption, SubsetOfSize
<1> QED
  BY <1>3 DEF NewWorkers

(* A request is accepted. *)
LEMMA SubmitStep ==
    ASSUME EntryInv, NEW r \in Requests, Submit(r) PROVE EntryInv'
<1>1. /\ phase[r] = "new"
      /\ queue' = queue \cup {r} /\ results' = results \cup {r}
      /\ phase' = [phase EXCEPT ![r] = "queued"] /\ future' = [future EXCEPT ![r] = "pending"]
      /\ UNCHANGED <<outcome, work, worker, doomed, active, listed, running, stopping, inStop, stops>>
  BY DEF Submit, workerVars, lifecycle
<1>2. /\ phase'[r] = "queued" /\ future'[r] = "pending"
      /\ \A q \in Requests : q # r => phase'[q] = phase[q] /\ future'[q] = future[q]
  BY <1>1 DEF EntryInv, TypeOK
<1>3. TypeOK'
  BY <1>1 DEF EntryInv, TypeOK
<1>4. KnownIsSubmitted'
  BY <1>1, <1>2 DEF EntryInv, KnownIsSubmitted, Unknown
<1>5. HandlersFit' /\ DoomedAreThere'
  BY <1>1 DEF EntryInv, HandlersFit, DoomedAreThere
<1>6. Busy' = Busy
  BY <1>1 DEF Busy
<1>7. EntryInOnePlace'
  <2>1. \A q \in Requests : phase'[q] = "queued" <=> q \in queue'
    BY <1>1, <1>2 DEF EntryInv, EntryInOnePlace
  <2>2. \A w \in Workers : work[w] # r
    BY <1>1 DEF EntryInv, EntryInOnePlace
  <2>3. \A q \in Requests : phase'[q] = "handling" <=> \E w \in Workers : work'[w] = q
    BY <1>1, <1>2, <2>2 DEF EntryInv, EntryInOnePlace
  <2> QED
    BY <1>1, <2>1, <2>3 DEF EntryInv, EntryInOnePlace
<1> QED
  BY <1>3, <1>4, <1>5, <1>6, <1>7 DEF EntryInv

(* A worker takes an entry out of the queue. *)
LEMMA TakeStep ==
    ASSUME EntryInv, NEW w \in Workers, NEW r \in Requests, Take(w, r) PROVE EntryInv'
<1>1. /\ worker[w] = "getting" /\ r \in queue
      /\ queue' = queue \ {r}
      /\ phase' = [phase EXCEPT ![r] = "handling"] /\ work' = [work EXCEPT ![w] = r]
      /\ worker' = [worker EXCEPT ![w] = "handling"]
      /\ doomed' = doomed \ {w} /\ active' = active + 1
      /\ UNCHANGED <<future, results, outcome, listed, running, stopping, inStop, stops>>
  BY DEF Take, Rest, OneMore, lifecycle
<1>2. phase[r] = "queued" /\ work[w] = NoRequest /\ r # NoRequest
  BY <1>1, NoRequestAssumption DEF EntryInv, EntryInOnePlace, HandlersFit
<1>3. /\ phase'[r] = "handling" /\ work'[w] = r /\ worker'[w] = "handling"
      /\ \A q \in Requests : q # r => phase'[q] = phase[q]
      /\ \A v \in Workers : v # w => work'[v] = work[v] /\ worker'[v] = worker[v]
  BY <1>1 DEF EntryInv, TypeOK
<1>4. TypeOK'
  BY <1>1 DEF EntryInv, TypeOK
<1>5. KnownIsSubmitted'
  BY <1>1, <1>2, <1>3 DEF EntryInv, KnownIsSubmitted, Unknown
<1>6. HandlersFit'
  BY <1>2, <1>3 DEF EntryInv, HandlersFit
<1>7. DoomedAreThere'
  BY <1>1, <1>3 DEF EntryInv, TypeOK, DoomedAreThere
<1>8. Busy' = Busy \cup {w} /\ w \notin Busy
  BY <1>2, <1>3 DEF Busy
<1>9. IsFiniteSet(Busy') /\ active' = Cardinality(Busy')
  <2>1. IsFiniteSet(Busy) /\ active = Cardinality(Busy)
    BY DEF EntryInv, EntryInOnePlace, Busy
  <2> QED
    BY <1>1, <1>8, <2>1, FS_AddElement
<1>10. EntryInOnePlace'
  <2>1. \A q \in Requests : phase'[q] = "queued" <=> q \in queue'
    BY <1>1, <1>3 DEF EntryInv, EntryInOnePlace
  <2>2. \A v \in Workers : work[v] # r
    BY <1>2 DEF EntryInv, EntryInOnePlace
  <2>3. \A q \in Requests : phase'[q] = "handling" <=> \E v \in Workers : work'[v] = q
    <3>1. SUFFICES ASSUME NEW q \in Requests, q # r
                   PROVE  phase'[q] = "handling" <=> \E v \in Workers : work'[v] = q
      BY <1>3
    <3>2. phase'[q] = phase[q]
      BY <1>3, <3>1
    <3>3. \A v \in Workers : work'[v] = q <=> work[v] = q
      BY <1>2, <1>3, <3>1, NoRequestAssumption
    <3> QED
      BY <3>2, <3>3 DEF EntryInv, EntryInOnePlace
  <2>4. ASSUME NEW u \in Workers, NEW v \in Workers, work'[u] = work'[v], work'[u] # NoRequest
        PROVE  u = v
    BY <1>3, <2>2, <2>4 DEF EntryInv, EntryInOnePlace
  <2> QED
    BY <1>9, <2>1, <2>3, <2>4 DEF EntryInOnePlace, Busy
<1> QED
  BY <1>4, <1>5, <1>6, <1>7, <1>9, <1>10 DEF EntryInv

(* A worker lets go of its entry: the handler is done, or was cancelled. *)
LEMMA ReleaseStep ==
    ASSUME EntryInv, NEW w \in Workers, worker[w] = "handling",
           NEW p \in {"handled", "lost"}, phase' = [phase EXCEPT ![work[w]] = p],
           work' = [work EXCEPT ![w] = NoRequest], active' = active - 1, UNCHANGED queue
    PROVE  /\ work[w] \in Requests /\ phase[work[w]] = "handling"
           /\ IsFiniteSet(Busy') /\ active' \in Nat /\ EntryInOnePlace'
<1>1. work[w] \in Requests /\ work[w] # NoRequest
  BY DEF EntryInv, TypeOK, HandlersFit
<1>2. phase[work[w]] = "handling"
  BY <1>1 DEF EntryInv, EntryInOnePlace
<1>3. /\ work'[w] = NoRequest /\ phase'[work[w]] = p
      /\ \A q \in Requests : q # work[w] => phase'[q] = phase[q]
      /\ \A v \in Workers : v # w => work'[v] = work[v]
  BY <1>1 DEF EntryInv, TypeOK
<1>4. Busy' = Busy \ {w} /\ w \in Busy
  BY <1>1, <1>3 DEF Busy
<1>5. IsFiniteSet(Busy') /\ active' = Cardinality(Busy')
  <2>1. IsFiniteSet(Busy) /\ active = Cardinality(Busy)
    BY DEF EntryInv, EntryInOnePlace, Busy
  <2>2. active' = active - 1
    OBVIOUS
  <2> QED
    BY <1>4, <2>1, <2>2, FS_RemoveElement
<1>6. active' \in Nat
  BY <1>5, FS_CardinalityType
<1>7. \A q \in Requests : phase'[q] = "queued" <=> q \in queue'
  BY <1>1, <1>2, <1>3 DEF EntryInv, EntryInOnePlace
<1>8. \A v \in Workers : v # w => work[v] # work[w]
  BY <1>1 DEF EntryInv, EntryInOnePlace
<1>9. \A q \in Requests : phase'[q] = "handling" <=> \E v \in Workers : work'[v] = q
  <2>1. SUFFICES ASSUME NEW q \in Requests
                 PROVE  phase'[q] = "handling" <=> \E v \in Workers : work'[v] = q
    OBVIOUS
  <2>2. CASE q = work[w]
    <3>1. \A v \in Workers : work'[v] # q
      BY <1>1, <1>3, <1>8, <2>2
    <3> QED
      BY <1>3, <2>2, <3>1
  <2>3. CASE q # work[w]
    <3>1. phase'[q] = phase[q] /\ \A v \in Workers : work'[v] = q <=> work[v] = q
      BY <1>3, <2>3, NoRequestAssumption
    <3> QED
      BY <3>1 DEF EntryInv, EntryInOnePlace
  <2> QED
    BY <2>2, <2>3
<1>10. ASSUME NEW u \in Workers, NEW v \in Workers, work'[u] = work'[v], work'[u] # NoRequest
       PROVE  u = v
  BY <1>3, <1>10 DEF EntryInv, EntryInOnePlace
<1>11. EntryInOnePlace'
  BY <1>5, <1>7, <1>9, <1>10 DEF EntryInOnePlace, Busy
<1> QED
  BY <1>1, <1>2, <1>5, <1>6, <1>11

LEMMA HandledStep ==
    ASSUME EntryInv, NEW w \in Workers, NEW result \in {"result", "error"}, Handled(w, result)
    PROVE  EntryInv'
<1>1. /\ worker[w] = "handling" /\ w \notin doomed
      /\ phase' = [phase EXCEPT ![work[w]] = "handled"]
      /\ future' = Answered(work[w], result)
      /\ work' = [work EXCEPT ![w] = NoRequest]
      /\ worker' = [worker EXCEPT ![w] = Onward] /\ Onward \in {"getting", "off"}
      /\ active' = active - 1
      /\ UNCHANGED <<queue, results, outcome, doomed, listed, running, stopping, inStop, stops>>
  BY DEF Handled, lifecycle, Onward
<1>2. /\ work[w] \in Requests /\ phase[work[w]] = "handling"
      /\ IsFiniteSet(Busy') /\ active' \in Nat /\ EntryInOnePlace'
  BY <1>1, ReleaseStep
<1>3. /\ future' \in [Requests -> {"none", "pending", "result", "error", "cancelled"}]
      /\ \A q \in Requests : future'[q] = "none" <=> future[q] = "none"
  BY <1>1, <1>2 DEF EntryInv, TypeOK, Answered
<1>4. TypeOK'
  BY <1>1, <1>2, <1>3 DEF EntryInv, TypeOK
<1>5. \A q \in Requests : phase'[q] = "new" <=> phase[q] = "new"
  BY <1>1, <1>2 DEF EntryInv, TypeOK
<1>6. KnownIsSubmitted'
  BY <1>1, <1>3, <1>5 DEF EntryInv, KnownIsSubmitted, Unknown
<1>7. HandlersFit'
  BY <1>1 DEF EntryInv, TypeOK, HandlersFit
<1>8. DoomedAreThere'
  BY <1>1 DEF EntryInv, TypeOK, DoomedAreThere
<1> QED
  BY <1>2, <1>4, <1>6, <1>7, <1>8 DEF EntryInv

LEMMA EndTaskStep ==
    ASSUME EntryInv, NEW w \in Workers, EndTask(w) PROVE EntryInv'
<1>1. /\ doomed' = doomed \ {w}
      /\ worker' = [worker EXCEPT ![w] = "off"] /\ work' = [work EXCEPT ![w] = NoRequest]
      /\ UNCHANGED <<queue, future, results, outcome, listed, running, stopping, inStop, stops>>
  BY DEF EndTask, lifecycle
<1>2. HandlersFit' /\ DoomedAreThere'
  BY <1>1 DEF EntryInv, TypeOK, HandlersFit, DoomedAreThere
<1>3. CASE worker[w] = "handling"
  <2>1. phase' = [phase EXCEPT ![work[w]] = "lost"] /\ active' = active - 1
    BY <1>3 DEF EndTask, OneLess
  <2>2. /\ work[w] \in Requests /\ phase[work[w]] = "handling"
        /\ IsFiniteSet(Busy') /\ active' \in Nat /\ EntryInOnePlace'
    BY <1>1, <1>3, <2>1, ReleaseStep
  <2>3. TypeOK'
    BY <1>1, <2>1, <2>2 DEF EntryInv, TypeOK
  <2>4. \A q \in Requests : phase'[q] = "new" <=> phase[q] = "new"
    BY <2>1, <2>2 DEF EntryInv, TypeOK
  <2>5. KnownIsSubmitted'
    BY <1>1, <2>4 DEF EntryInv, KnownIsSubmitted, Unknown
  <2> QED
    BY <1>2, <2>2, <2>3, <2>5 DEF EntryInv
<1>4. CASE worker[w] # "handling"
  <2>1. UNCHANGED <<phase, active>>
    BY <1>4 DEF EndTask
  <2>2. work' = work
    BY <1>1, <1>4 DEF EntryInv, TypeOK, HandlersFit
  <2>3. TypeOK'
    BY <1>1, <2>1, <2>2 DEF EntryInv, TypeOK
  <2>4. KnownIsSubmitted'
    BY <1>1, <2>1 DEF EntryInv, KnownIsSubmitted, Unknown
  <2> QED
    BY <1>1, <1>2, <2>1, <2>2, <2>3, <2>4, EntriesUntouched DEF EntryInv
<1> QED
  BY <1>3, <1>4

(* Workers come and go without an entry. *)
LEMMA LifecycleStep ==
    ASSUME EntryInv, (\E w \in Workers : Leave(w)) \/ Start \/ Stop \/ StopReturns PROVE EntryInv'
<1>1. UNCHANGED <<queue, phase, future, results, outcome, work, active>>
  BY DEF Leave, Start, Stop, StopReturns, requestVars, workerVars
<1>2. KnownIsSubmitted'
  BY <1>1 DEF EntryInv, KnownIsSubmitted, Unknown
<1>3. TypeOK' /\ HandlersFit' /\ DoomedAreThere'
  <2>1. ASSUME NEW w \in Workers, Leave(w) PROVE TypeOK' /\ HandlersFit' /\ DoomedAreThere'
    <3>1. /\ worker[w] = "getting" /\ worker' = [worker EXCEPT ![w] = "off"]
          /\ doomed' = doomed \ {w} /\ UNCHANGED <<listed, running, stopping, inStop, stops>>
      BY <2>1 DEF Leave, StopsPolling, lifecycle
    <3> QED
      BY <1>1, <3>1 DEF EntryInv, TypeOK, HandlersFit, DoomedAreThere
  <2>2. CASE Start
    <3>1. /\ worker' = [v \in Workers |-> IF v \in NewWorkers THEN "getting" ELSE worker[v]]
          /\ listed' = listed \cup NewWorkers /\ running' = TRUE
          /\ UNCHANGED <<doomed, stopping, inStop, stops>>
      BY <2>2 DEF Start
    <3>2. NewWorkers \in SUBSET Unused
      BY <2>2, FreshWorkers DEF Start
    <3>3. \A v \in NewWorkers : v \in Workers /\ worker[v] = "off" /\ work[v] = NoRequest
      BY <3>2 DEF Unused, EntryInv, HandlersFit
    <3>4. TypeOK'
      BY <1>1, <3>1, <3>3 DEF EntryInv, TypeOK
    <3>5. HandlersFit' /\ DoomedAreThere'
      BY <1>1, <3>1, <3>3 DEF EntryInv, TypeOK, HandlersFit, DoomedAreThere
    <3> QED
      BY <3>4, <3>5
  <2>3. CASE Stop
    <3>1. /\ stops < MaxStops /\ stops' = stops + 1 /\ running' = FALSE /\ inStop' = TRUE
          /\ doomed' = doomed \cup {v \in listed : worker[v] # "off"} /\ stopping' = listed
          /\ UNCHANGED <<worker, listed>>
      BY <2>3 DEF Stop
    <3>2. stops' \in 0..MaxStops
      BY <3>1, LimitAssumption DEF EntryInv, TypeOK
    <3>3. TypeOK'
      BY <1>1, <3>1, <3>2 DEF EntryInv, TypeOK
    <3>4. HandlersFit' /\ DoomedAreThere'
      BY <1>1, <3>1 DEF EntryInv, TypeOK, HandlersFit, DoomedAreThere
    <3> QED
      BY <3>3, <3>4
  <2>4. CASE StopReturns
    BY <1>1, <2>4 DEF StopReturns, workerVars, EntryInv, TypeOK, HandlersFit, DoomedAreThere
  <2> QED
    BY <2>1, <2>2, <2>3, <2>4
<1> QED
  BY <1>1, <1>2, <1>3, EntriesUntouched DEF EntryInv

LEMMA QueueNextEntryInv == EntryInv /\ [Next]_vars => EntryInv'
<1> SUFFICES ASSUME EntryInv, [Next]_vars PROVE EntryInv'
  OBVIOUS
<1>1. CASE UNCHANGED vars
  BY <1>1 DEF vars, requestVars, workerVars, lifecycle, EntryInv, TypeOK, Busy, HandlersFit,
      DoomedAreThere, KnownIsSubmitted, Unknown, EntryInOnePlace
<1>2. ASSUME NEW r \in Requests, Submit(r) \/ Refuse(r) PROVE EntryInv'
  BY <1>1, <1>2, SubmitStep DEF Refuse
<1>3. ASSUME NEW r \in Requests, Cancel(r) PROVE EntryInv'
  BY <1>3, CancelStep
<1>4. ASSUME NEW k \in Clients, NEW r \in Requests, GetResult(k, r) \/ Deliver(k, r) \/ TimeOut(k, r)
      PROVE  EntryInv'
  BY <1>4, ClientStep
<1>5. ASSUME NEW w \in Workers, Serve(w) \/ Poll(w) \/ Leave(w) \/ Interrupt(w) PROVE EntryInv'
  BY <1>1, <1>5, TakeStep, HandledStep, EndTaskStep, LifecycleStep
     DEF Serve, Poll, Interrupt, HandlerCancelled
<1>6. CASE Start \/ Stop \/ StopReturns
  BY <1>6, LifecycleStep
<1> QED
  BY <1>1, <1>2, <1>3, <1>4, <1>5, <1>6 DEF Next

LEMMA EntryInvariant == Spec => []EntryInv
<1> QED
  BY QueueInitEntryInv, QueueNextEntryInv, PTL DEF Spec

(* The fields of the queue, of its workers and of the futures keep their   *)
(* types; active_count never goes below zero.                              *)
THEOREM QueueTypeCorrect == Spec => []TypeOK
<1> QED
  BY EntryInvariant, PTL DEF EntryInv

(* An entry is in the queue, with one worker, or done with, and            *)
(* active_count counts the handlers in progress.                           *)
THEOREM EntriesStayInOnePlace == Spec => []EntryInOnePlace
<1> QED
  BY EntryInvariant, PTL DEF EntryInv

-----------------------------------------------------------------------------
(* What clients are told. *)

(* A future that is cancelled was cancelled by somebody. *)
CancelsExplained ==
    \A r \in Requests :
        future[r] = "cancelled" => r \notin results \/ \E k \in Clients : outcome[k][r] = "timeout"

AnswerInv == AnswersAreTrue /\ CancelsExplained

(* A future that is done stays as it is. *)
DoneStays ==
    \A r \in Requests : future[r] \in {"result", "error", "cancelled"} => future'[r] = future[r]

LEMMA FuturesMove ==
    ASSUME EntryInv, NEW r \in Requests, NEW f \in {"cancelled", "result", "error"},
           future' = [future EXCEPT ![r] = IF @ = "pending" THEN f ELSE @]
    PROVE  /\ DoneStays
           /\ \A q \in Requests : q # r => future'[q] = future[q]
           /\ future[r] = "pending" => future'[r] = f
           /\ future[r] # "pending" => future'[r] = future[r]
BY DEF EntryInv, TypeOK, DoneStays

(* A step that ends no handler, and lets no client know, keeps what was    *)
(* said true if it explains the futures it cancels.                        *)
LEMMA AnswersKept ==
    ASSUME EntryInv, AnswerInv, DoneStays,
           \A r \in Requests : future'[r] \in {"result", "error"} => phase'[r] = "handled",
           \A r \in Requests : phase'[r] = "handled" => future'[r] # "pending",
           \A k \in Clients, r \in Requests :
               \/ outcome'[k][r] = outcome[k][r]
               \/ outcome'[k][r] = future'[r] /\ outcome[k][r] # "timeout"
               \/ outcome'[k][r] \in {"waiting", "missing", "timeout"} /\ outcome[k][r] # "timeout",
           CancelsExplained'
    PROVE  AnswerInv'
<1>1. ASSUME NEW r \in Requests, NEW k \in Clients,
             outcome'[k][r] \in {"result", "error", "cancelled"}
      PROVE  outcome'[k][r] = future'[r]
  BY <1>1 DEF AnswerInv, AnswersAreTrue, DoneStays
<1>2. ASSUME NEW r \in Requests, NEW k \in Clients, outcome'[k][r] = "cancelled"
      PROVE  r \notin results' \/ \E j \in Clients : outcome'[j][r] = "timeout"
  BY <1>1, <1>2 DEF CancelsExplained
<1> QED
  BY <1>1, <1>2 DEF AnswerInv, AnswersAreTrue

LEMMA QueueNextAnswerInv == EntryInv /\ AnswerInv /\ [Next]_vars => AnswerInv'
<1> SUFFICES ASSUME EntryInv, AnswerInv, [Next]_vars PROVE AnswerInv'
  OBVIOUS
<1>1. ASSUME UNCHANGED <<phase, future, results, outcome>> PROVE AnswerInv'
  BY <1>1 DEF AnswerInv, AnswersAreTrue, CancelsExplained
<1>2. ASSUME NEW r \in Requests, Submit(r) PROVE AnswerInv'
  <2>1. /\ phase[r] = "new" /\ phase' = [phase EXCEPT ![r] = "queued"]
        /\ future' = [future EXCEPT ![r] = "pending"] /\ results' = results \cup {r}
        /\ UNCHANGED outcome
    BY <1>2 DEF Submit
  <2>2. future[r] = "none"
    BY <2>1 DEF EntryInv, KnownIsSubmitted, Unknown
  <2>3. /\ phase'[r] = "queued" /\ future'[r] = "pending"
        /\ \A q \in Requests : q # r => phase'[q] = phase[q] /\ future'[q] = future[q]
    BY <2>1 DEF EntryInv, TypeOK
  <2>4. DoneStays
    BY <2>2, <2>3 DEF DoneStays
  <2>5. CancelsExplained'
    BY <2>1, <2>3 DEF AnswerInv, CancelsExplained
  <2> QED
    BY <2>1, <2>3, <2>4, <2>5, AnswersKept DEF AnswerInv, AnswersAreTrue
<1>3. ASSUME NEW r \in Requests, Cancel(r) PROVE AnswerInv'
  <2>1. /\ r \in results /\ results' = results \ {r}
        /\ future' = [future EXCEPT ![r] = IF @ = "pending" THEN "cancelled" ELSE @]
        /\ UNCHANGED <<phase, outcome>>
    BY <1>3 DEF Cancel, CancelledFuture
  <2>2. /\ DoneStays
        /\ \A q \in Requests : q # r => future'[q] = future[q]
        /\ future[r] = "pending" => future'[r] = "cancelled"
        /\ future[r] # "pending" => future'[r] = future[r]
    BY <2>1, FuturesMove
  <2>3. CancelsExplained'
    BY <2>1, <2>2 DEF AnswerInv, CancelsExplained
  <2> QED
    BY <2>1, <2>2, <2>3, AnswersKept DEF AnswerInv, AnswersAreTrue
<1>4. ASSUME NEW k \in Clients, NEW r \in Requests, GetResult(k, r) PROVE AnswerInv'
  <2>1. /\ outcome[k][r] = "none" /\ UNCHANGED <<phase, future, results>>
        /\ outcome' = [outcome EXCEPT ![k][r] = IF r \in results THEN "waiting" ELSE "missing"]
    BY <1>4 DEF GetResult
  <2>2. /\ outcome'[k][r] \in {"waiting", "missing"}
        /\ \A j \in Clients, q \in Requests : j # k \/ q # r => outcome'[j][q] = outcome[j][q]
    BY <2>1 DEF EntryInv, TypeOK
  <2>3. DoneStays /\ CancelsExplained'
    BY <2>1, <2>2 DEF DoneStays, AnswerInv, CancelsExplained
  <2> QED
    BY <2>1, <2>2, <2>3, AnswersKept DEF AnswerInv, AnswersAreTrue
<1>5. ASSUME NEW k \in Clients, NEW r \in Requests, Deliver(k, r) PROVE AnswerInv'
  <2>1. /\ outcome[k][r] = "waiting" /\ UNCHANGED <<phase, future, results>>
        /\ outcome' = [outcome EXCEPT ![k][r] = future[r]]
    BY <1>5 DEF Deliver
  <2>2. /\ outcome'[k][r] = future'[r]
        /\ \A j \in Clients, q \in Requests : j # k \/ q # r => outcome'[j][q] = outcome[j][q]
    BY <2>1 DEF EntryInv, TypeOK
  <2>3. DoneStays /\ CancelsExplained'
    BY <2>1, <2>2 DEF DoneStays, AnswerInv, CancelsExplained
  <2> QED
    BY <2>1, <2>2, <2>3, AnswersKept DEF AnswerInv, AnswersAreTrue
<1>6. ASSUME NEW k \in Clients, NEW r \in Requests, TimeOut(k, r) PROVE AnswerInv'
  <2>1. /\ outcome[k][r] = "waiting" /\ UNCHANGED <<phase, results>>
        /\ future' = [future EXCEPT ![r] = IF @ = "pending" THEN "cancelled" ELSE @]
        /\ outcome' = [outcome EXCEPT ![k][r] = "timeout"]
    BY <1>6 DEF TimeOut, CancelledFuture
  <2>2. /\ outcome'[k][r] = "timeout"
        /\ \A j \in Clients, q \in Requests : j # k \/ q # r => outcome'[j][q] = outcome[j][q]
    BY <2>1 DEF EntryInv, TypeOK
  <2>3. /\ DoneStays
        /\ \A q \in Requests : q # r => future'[q] = future[q]
        /\ future[r] = "pending" => future'[r] = "cancelled"
        /\ future[r] # "pending" => future'[r] = future[r]
    BY <2>1, FuturesMove
  <2>4. CancelsExplained'
    BY <2>1, <2>2, <2>3 DEF AnswerInv, CancelsExplained
  <2> QED
    BY <2>1, <2>2, <2>3, <2>4, AnswersKept DEF AnswerInv, AnswersAreTrue
<1>7. ASSUME NEW w \in Workers, NEW r \in Requests, Take(w, r) PROVE AnswerInv'
  <2>1. /\ r \in queue /\ phase' = [phase EXCEPT ![r] = "handling"]
        /\ UNCHANGED <<future, results, outcome>>
    BY <1>7 DEF Take
  <2>2. phase[r] = "queued"
    BY <2>1 DEF EntryInv, EntryInOnePlace
  <2>3. \A q \in Requests : phase'[q] = "handled" <=> phase[q] = "handled"
    BY <2>1, <2>2 DEF EntryInv, TypeOK
  <2> QED
    BY <2>1, <2>3 DEF AnswerInv, AnswersAreTrue, CancelsExplained
<1>8. ASSUME NEW w \in Workers, NEW result \in {"result", "error"}, Handled(w, result)
      PROVE  AnswerInv'
  <2> DEFINE r == work[w]
  <2>1. /\ worker[w] = "handling" /\ phase' = [phase EXCEPT ![r] = "handled"]
        /\ future' = Answered(r, result) /\ UNCHANGED <<results, outcome>>
    BY <1>8 DEF Handled
  <2>2. r \in Requests
    BY <2>1 DEF EntryInv, TypeOK, HandlersFit
  <2> HIDE DEF r
  <2>3. future' = [future EXCEPT ![r] = IF @ = "pending" THEN result ELSE @]
    BY <2>1, <2>2 DEF Answered, EntryInv, TypeOK
  <2>4. /\ DoneStays
        /\ \A q \in Requests : q # r => future'[q] = future[q]
        /\ future[r] = "pending" => future'[r] = result
        /\ future[r] # "pending" => future'[r] = future[r]
    BY <2>2, <2>3, FuturesMove
  <2>5. phase'[r] = "handled" /\ \A q \in Requests : q # r => phase'[q] = phase[q]
    BY <2>1, <2>2 DEF EntryInv, TypeOK
  <2>6. CancelsExplained'
    BY <2>1, <2>4 DEF AnswerInv, CancelsExplained
  <2> QED
    BY <2>1, <2>4, <2>5, <2>6, AnswersKept DEF AnswerInv, AnswersAreTrue
<1>9. ASSUME NEW w \in Workers, EndTask(w) PROVE AnswerInv'
  <2>1. UNCHANGED <<future, results, outcome>>
    BY <1>9 DEF EndTask
  <2>2. CASE worker[w] = "handling"
    <3>1. phase' = [phase EXCEPT ![work[w]] = "lost"]
      BY <1>9, <2>2 DEF EndTask
    <3>2. work[w] \in Requests /\ phase[work[w]] = "handling"
      BY <2>2 DEF EntryInv, TypeOK, HandlersFit, EntryInOnePlace
    <3>3. \A q \in Requests : phase'[q] = "handled" <=> phase[q] = "handled"
      BY <3>1, <3>2 DEF EntryInv, TypeOK
    <3> QED
      BY <2>1, <3>3 DEF AnswerInv, AnswersAreTrue, CancelsExplained
  <2>3. CASE worker[w] # "handling"
    <3>1. UNCHANGED phase
      BY <1>9, <2>3 DEF EndTask
    <3> QED
      BY <1>1, <2>1, <3>1
  <2> QED
    BY <2>2, <2>3
<1>10. CASE Start \/ Stop \/ StopReturns \/ UNCHANGED vars
  BY <1>1, <1>10 DEF Start, Stop, StopReturns, vars, requestVars
<1>11. ASSUME NEW w \in Workers, Poll(w) \/ Leave(w) PROVE AnswerInv'
  BY <1>1, <1>11 DEF Poll, Leave, vars, requestVars
<1>12. ASSUME NEW r \in Requests, Refuse(r) PROVE AnswerInv'
  BY <1>1, <1>12 DEF Refuse, vars, requestVars
<1>13. ASSUME NEW w \in Workers, Serve(w) PROVE AnswerInv'
  BY <1>7, <1>8, <1>9, <1>13 DEF Serve, HandlerCancelled
<1> QED
  BY <1>2, <1>3, <1>4, <1>5, <1>6, <1>9, <1>10, <1>11, <1>12, <1>13 DEF Next, Interrupt

(* What a client is told is what the handler did, a handled request leaves *)
(* nobody waiting, and a cancellation was asked for.                       *)
THEOREM AnswersStayTrue == Spec => []AnswersAreTrue
<1>1. Init => AnswerInv
  BY DEF Init, AnswerInv, AnswersAreTrue, CancelsExplained
<1>2. AnswerInv => AnswersAreTrue
  BY DEF AnswerInv
<1> QED
  BY <1>1, <1>2, EntryInvariant, QueueNextAnswerInv, PTL DEF Spec

-----------------------------------------------------------------------------
(* How many workers there are, as long as start waits for stop. *)

Present == {w \in Workers : worker[w] # "off"}

(* stop knows all the workers there are, and waits for them. *)
WorkersInv ==
    /\ Present \subseteq listed
    /\ inStop => ~running /\ stopping = listed
    /\ ~running /\ ~inStop => Present = {}
    /\ Cardinality(Present) <= MaxWorkers

LEMMA FewerWorkers ==
    ASSUME WorkersInv, Present' \subseteq Present
    PROVE  (Cardinality(Present) <= MaxWorkers)'
<1>1. IsFiniteSet(Present)
  BY WorkersAssumption, FS_Subset DEF Present
<1>2. Cardinality(Present') <= Cardinality(Present)
  BY <1>1, FS_Subset
<1>3. Cardinality(Present') \in Nat /\ Cardinality(Present) \in Nat
  BY <1>1, FS_Subset, FS_CardinalityType
<1> QED
  BY <1>2, <1>3, LimitAssumption DEF WorkersInv

LEMMA QueueNextWorkersInv ==
    ASSUME ~Overlap, EntryInv, WorkersInv, [Next]_vars PROVE WorkersInv'
<1>1. ASSUME UNCHANGED <<listed, running, stopping, inStop>>, Present' \subseteq Present
      PROVE  WorkersInv'
  BY <1>1, FewerWorkers DEF WorkersInv
<1>2. ASSUME UNCHANGED <<worker, lifecycle>> PROVE WorkersInv'
  BY <1>1, <1>2 DEF lifecycle, Present
<1>3. ASSUME NEW w \in Workers, UNCHANGED lifecycle, NEW p, worker' = [worker EXCEPT ![w] = p],
             worker[w] # "off"
      PROVE  WorkersInv'
  <2>1. Present' \subseteq Present
    BY <1>3 DEF EntryInv, TypeOK, Present
  <2> QED
    BY <1>1, <1>3, <2>1 DEF lifecycle
<1>4. ASSUME NEW w \in Workers, Serve(w) \/ Leave(w) \/ Interrupt(w) PROVE WorkersInv'
  <2>1. worker[w] # "off"
    BY <1>4 DEF Serve, Take, Handled, HandlerCancelled, Leave, StopsPolling, Interrupt, EntryInv,
        DoomedAreThere
  <2>2. UNCHANGED lifecycle /\ \E p : worker' = [worker EXCEPT ![w] = p]
    BY <1>4 DEF Serve, Take, Handled, HandlerCancelled, Leave, Interrupt, EndTask
  <2> QED
    BY <1>3, <2>1, <2>2
<1>5. CASE Start
  <2>1. /\ ~running /\ ~inStop /\ Cardinality(Unused) >= MaxWorkers
        /\ listed' = listed \cup NewWorkers
        /\ worker' = [w \in Workers |-> IF w \in NewWorkers THEN "getting" ELSE worker[w]]
        /\ running' = TRUE /\ UNCHANGED <<stopping, inStop>>
    BY <1>5 DEF Start, NotRunning
  <2>2. NewWorkers \in SUBSET Unused /\ Cardinality(NewWorkers) = MaxWorkers
    BY <2>1, FreshWorkers
  <2>3. Present = {}
    BY <2>1 DEF WorkersInv
  <2>4. Present' = NewWorkers
    BY <2>1, <2>2, <2>3 DEF Present, Unused
  <2>5. Cardinality(Present') <= MaxWorkers
    BY <2>2, <2>4, LimitAssumption
  <2> QED
    BY <2>1, <2>4, <2>5 DEF WorkersInv
<1>6. CASE Stop
  <2>1. Present' = Present /\ running' = FALSE /\ inStop' /\ stopping' = listed /\ listed' = listed
    BY <1>6 DEF Stop, Present
  <2> QED
    BY <2>1 DEF WorkersInv
<1>7. CASE StopReturns
  <2>1. /\ inStop /\ \A w \in stopping : worker[w] = "off"
        /\ worker' = worker /\ running' = running /\ listed' = {} /\ ~inStop'
    BY <1>7 DEF StopReturns, Gathered, workerVars
  <2>2. Present' = {} /\ Present' \subseteq Present
    BY <2>1 DEF WorkersInv, Present
  <2> QED
    BY <2>1, <2>2, FewerWorkers DEF WorkersInv
<1>8. ASSUME NEW r \in Requests, Submit(r) \/ Refuse(r) \/ Cancel(r) PROVE WorkersInv'
  BY <1>2, <1>8 DEF Submit, Refuse, Cancel, workerVars, lifecycle, vars
<1>9. ASSUME NEW k \in Clients, NEW r \in Requests, GetResult(k, r) \/ Deliver(k, r) \/ TimeOut(k, r)
      PROVE  WorkersInv'
  BY <1>2, <1>9 DEF GetResult, Deliver, TimeOut, workerVars, lifecycle
<1>10. ASSUME NEW w \in Workers, Poll(w) PROVE WorkersInv'
  BY <1>2, <1>10 DEF Poll, vars, workerVars
<1>11. CASE UNCHANGED vars
  BY <1>2, <1>11 DEF vars, workerVars
<1> QED
  BY <1>4, <1>5, <1>6, <1>7, <1>8, <1>9, <1>10, <1>11 DEF Next

(* If start waits for a stop that is in progress, there are never more     *)
(* than max_workers workers, and none once stop has returned.              *)
THEOREM WorkersStayWithinLimit == ASSUME ~Overlap PROVE Spec => []WorkersWithinLimit
<1>1. Init => WorkersInv
  <2> SUFFICES ASSUME Init PROVE WorkersInv
    OBVIOUS
  <2>1. Present = {}
    BY DEF Init, Present
  <2> QED
    BY <2>1, FS_EmptySet, LimitAssumption DEF Init, WorkersInv
<1>2. EntryInv /\ WorkersInv /\ [Next]_vars => WorkersInv'
  BY QueueNextWorkersInv
<1>3. WorkersInv => WorkersWithinLimit
  BY DEF WorkersInv, WorkersWithinLimit, Present
<1> QED
  BY <1>1, <1>2, <1>3, EntryInvariant, PTL DEF Spec

-----------------------------------------------------------------------------
(* The circuit breaker and the retries under it. *)

(* Slots are counted no lower than there are probes in progress; a slot    *)
(* may be taken and its probe gone (cancelled), but not the reverse.       *)
SlotsCoverProbes == state = "half_open" => Cardinality(probes) <= halfOpenCalls

(* with_retry only sleeps when there is an attempt left. *)
AttemptLeft == \A c \in Calls : pc[c] = "backoff" => attempt[c] < MaxRetries

BreakerInv ==
    /\ BreakerTypeOK
    /\ IsFiniteSet(probes)
    /\ SlotsCoverProbes
    /\ ClosedIsBelowThreshold
    /\ AttemptLeft
    /\ RetriesAreUsedUp

RetryOK == AttemptLeft /\ RetriesAreUsedUp

-----------------------------------------------------------------------------

LEMMA BreakerInitInv == BreakerInit => BreakerInv
<1> SUFFICES ASSUME BreakerInit PROVE BreakerInv
  OBVIOUS
<1> USE ThresholdAssumption, FaultAssumption
<1>1. BreakerTypeOK
  <2>1. /\ failures \in 0..FailureThreshold /\ halfOpenCalls \in 0..HalfOpenMax
        /\ cancels \in 0..MaxCancels /\ resets \in 0..MaxResets
    BY DEF BreakerInit
  <2>2. attempt \in [Calls -> 0..MaxRetries]
    BY DEF BreakerInit
  <2>3. pc \in [Calls -> Ended \cup {"attempt", "backoff"}]
    BY DEF BreakerInit, Ended
  <2>4. expired \in BOOLEAN
    BY DEF BreakerInit
  <2> QED
    BY <2>1, <2>2, <2>3, <2>4 DEF BreakerInit, BreakerTypeOK
<1>2. IsFiniteSet(probes)
  BY FS_EmptySet DEF BreakerInit
<1>3. SlotsCoverProbes /\ ClosedIsBelowThreshold
  BY DEF BreakerInit, SlotsCoverProbes, ClosedIsBelowThreshold
<1>4. RetryOK
  BY DEF BreakerInit, RetryOK, AttemptLeft, RetriesAreUsedUp
<1> QED
  BY <1>1, <1>2, <1>3, <1>4 DEF BreakerInv, RetryOK

-----------------------------------------------------------------------------
(* A call that ends, or is cancelled, takes at most itself off the probes. *)

LEMMA FewerProbes ==
    ASSUME IsFiniteSet(probes), NEW c, probes' = probes \ {c}
    PROVE  IsFiniteSet(probes') /\ Cardinality(probes') <= Cardinality(probes)
BY FS_Subset

(* Somebody looks at the state, and a call may be admitted on what is seen:*)
(* the numbers on both sides of the look.                                  *)
LEMMA Look ==
    ASSUME BreakerInv
    PROVE  /\ CurrentState \in {"closed", "open", "half_open"}
           /\ SlotsInUse \in 0..HalfOpenMax
           /\ ProbesNow \subseteq Calls
           /\ IsFiniteSet(ProbesNow)
           /\ CurrentState = "half_open" => Cardinality(ProbesNow) <= SlotsInUse
           /\ CurrentState = "closed" <=> state = "closed"
<1> USE ThresholdAssumption
<1>1. CASE state = "open" /\ expired
  <2>1. IsFiniteSet({}) /\ Cardinality({}) = 0
    BY FS_EmptySet
  <2> QED
    BY <1>1, <2>1 DEF CurrentState, SlotsInUse, ProbesNow
<1>2. CASE ~(state = "open" /\ expired)
  <2>1. CurrentState = state /\ SlotsInUse = halfOpenCalls /\ ProbesNow = probes
    BY <1>2 DEF CurrentState, SlotsInUse, ProbesNow
  <2> QED
    BY <2>1 DEF BreakerInv, BreakerTypeOK, SlotsCoverProbes
<1> QED
  BY <1>1, <1>2

LEMMA BreakerNextInv == BreakerInv /\ [BreakerNext]_breakerVars => BreakerInv'
<1> SUFFICES ASSUME BreakerInv, [BreakerNext]_breakerVars PROVE BreakerInv'
  OBVIOUS
<1> USE ThresholdAssumption, FaultAssumption
<1>1. ASSUME NEW c \in Calls, Admit(c) PROVE BreakerInv'
  <2>1. /\ state' = CurrentState
        /\ pc' = [pc EXCEPT ![c] = "attempt"]
        /\ attempt' = [attempt EXCEPT ![c] = 0]
        /\ UNCHANGED <<failures, expired, cancels, resets>>
    BY <1>1 DEF Admit
  <2>2. RetryOK'
    BY <2>1 DEF BreakerInv, BreakerTypeOK, RetryOK, AttemptLeft, RetriesAreUsedUp
  <2>3. ClosedIsBelowThreshold'
    BY <2>1, Look DEF BreakerInv, ClosedIsBelowThreshold
  <2>4. CASE CurrentState = "half_open"
    <3>1. /\ SlotsInUse < HalfOpenMax
          /\ halfOpenCalls' = SlotsInUse + 1
          /\ probes' = ProbesNow \cup {c}
      BY <1>1, <2>4 DEF Admit, SlotFree
    <3>2. IsFiniteSet(probes') /\ Cardinality(probes') <= Cardinality(ProbesNow) + 1
      <4>1. IsFiniteSet(ProbesNow) /\ Cardinality(ProbesNow) \in Nat
        BY Look, FS_CardinalityType
      <4> QED
        BY <3>1, <4>1, FS_AddElement
    <3>3. SlotsCoverProbes'
      <4>1. Cardinality(ProbesNow) \in Nat /\ Cardinality(probes') \in Nat
        BY <3>2, Look, FS_CardinalityType
      <4> QED
        BY <2>4, <3>1, <3>2, <4>1, Look DEF SlotsCoverProbes
    <3>4. halfOpenCalls' \in 0..HalfOpenMax /\ probes' \subseteq Calls
      BY <3>1, Look
    <3>5. BreakerTypeOK'
      BY <2>1, <2>4, <3>4 DEF BreakerInv, BreakerTypeOK, Ended
    <3> QED
      BY <2>2, <2>3, <3>2, <3>3, <3>5 DEF BreakerInv, RetryOK
  <2>5. CASE CurrentState # "half_open"
    <3>1. UNCHANGED <<halfOpenCalls, probes>>
      BY <1>1, <2>5 DEF Admit
    <3>2. BreakerTypeOK'
      BY <2>1, <3>1, Look DEF BreakerInv, BreakerTypeOK, Ended
    <3>3. IsFiniteSet(probes') /\ SlotsCoverProbes'
      BY <2>1, <2>5, <3>1 DEF BreakerInv, SlotsCoverProbes
    <3> QED
      BY <2>2, <2>3, <3>2, <3>3 DEF BreakerInv, RetryOK
  <2> QED
    BY <2>4, <2>5
<1>2. ASSUME /\ state' = CurrentState
             /\ halfOpenCalls' = SlotsInUse
             /\ probes' = ProbesNow
             /\ UNCHANGED <<failures, expired, attempt, cancels, resets>>,
             pc' = pc \/ \E c \in Calls : pc' = [pc EXCEPT ![c] = "rejected"]
      PROVE  BreakerInv'
  <2>1. pc' \in [Calls -> Ended \cup {"attempt", "backoff"}]
    BY <1>2 DEF BreakerInv, BreakerTypeOK, Ended
  <2>2. BreakerTypeOK'
    BY <1>2, <2>1, Look DEF BreakerInv, BreakerTypeOK
  <2>3. IsFiniteSet(probes') /\ SlotsCoverProbes' /\ ClosedIsBelowThreshold'
    BY <1>2, Look DEF BreakerInv, SlotsCoverProbes, ClosedIsBelowThreshold
  <2>4. \A c \in Calls : pc'[c] \in {"backoff", "raised"} => pc'[c] = pc[c]
    BY <1>2 DEF BreakerInv, BreakerTypeOK
  <2>5. RetryOK'
    BY <1>2, <2>4 DEF BreakerInv, RetryOK, AttemptLeft, RetriesAreUsedUp
  <2> QED
    BY <2>2, <2>3, <2>5 DEF BreakerInv, RetryOK
<1>3. ASSUME NEW c \in Calls, Reject(c) PROVE BreakerInv'
  BY <1>2, <1>3 DEF Reject
<1>4. ASSUME Observe PROVE BreakerInv'
  BY <1>2, <1>4 DEF Observe
<1>5. ASSUME NEW c \in Calls, Succeed(c) PROVE BreakerInv'
  <2>1. /\ pc' = [pc EXCEPT ![c] = "returned"]
        /\ state' = (IF state = "half_open" THEN "closed" ELSE state)
        /\ failures' = 0
        /\ probes' = probes \ {c}
        /\ UNCHANGED <<halfOpenCalls, expired, attempt, cancels, resets>>
    BY <1>5 DEF Succeed, StateOnSuccess, ClearedCount
  <2>2. BreakerTypeOK'
    BY <2>1 DEF BreakerInv, BreakerTypeOK, Ended
  <2>3. IsFiniteSet(probes')
    BY <2>1, FewerProbes DEF BreakerInv
  <2>4. SlotsCoverProbes' /\ ClosedIsBelowThreshold'
    BY <2>1 DEF SlotsCoverProbes, ClosedIsBelowThreshold
  <2>5. RetryOK'
    BY <2>1 DEF BreakerInv, BreakerTypeOK, RetryOK, AttemptLeft, RetriesAreUsedUp
  <2> QED
    BY <2>2, <2>3, <2>4, <2>5 DEF BreakerInv, RetryOK
<1>6. ASSUME NEW c \in Calls, Fail(c) PROVE BreakerInv'
  <2>1. /\ pc' = [pc EXCEPT ![c] = "raised"]
        /\ attempt[c] = MaxRetries \/ Fatal
        /\ failures' = (IF failures < FailureThreshold THEN failures + 1 ELSE failures)
        /\ expired' = FALSE
        /\ state' = (IF state = "half_open" \/ failures' >= FailureThreshold THEN "open" ELSE state)
        /\ probes' = probes \ {c}
        /\ UNCHANGED <<halfOpenCalls, attempt, cancels, resets>>
    BY <1>6 DEF Fail, RecordFailure, NextCount, Exhausted
  <2>2. BreakerTypeOK'
    <3>1. failures' \in 0..FailureThreshold
      BY <2>1 DEF BreakerInv, BreakerTypeOK
    <3>2. expired' \in BOOLEAN
      BY <2>1
    <3> QED
      BY <2>1, <3>1, <3>2 DEF BreakerInv, BreakerTypeOK, Ended
  <2>3. IsFiniteSet(probes')
    BY <2>1, FewerProbes DEF BreakerInv
  <2>4. SlotsCoverProbes' /\ ClosedIsBelowThreshold'
    BY <2>1 DEF BreakerInv, BreakerTypeOK, SlotsCoverProbes, ClosedIsBelowThreshold
  <2>5. RetryOK'
    BY <2>1 DEF BreakerInv, BreakerTypeOK, RetryOK, AttemptLeft, RetriesAreUsedUp
  <2> QED
    BY <2>2, <2>3, <2>4, <2>5 DEF BreakerInv, RetryOK
<1>7. ASSUME NEW c \in Calls, BackOff(c) PROVE BreakerInv'
  <2>1. /\ attempt[c] # MaxRetries
        /\ pc' = [pc EXCEPT ![c] = "backoff"]
        /\ UNCHANGED <<state, failures, halfOpenCalls, expired, probes, attempt, cancels, resets>>
    BY <1>7 DEF BackOff, Exhausted, breaker
  <2>2. BreakerTypeOK'
    BY <2>1 DEF BreakerInv, BreakerTypeOK, Ended
  <2>3. IsFiniteSet(probes') /\ SlotsCoverProbes' /\ ClosedIsBelowThreshold'
    BY <2>1 DEF BreakerInv, SlotsCoverProbes, ClosedIsBelowThreshold
  <2>4. RetryOK'
    BY <2>1 DEF BreakerInv, BreakerTypeOK, RetryOK, AttemptLeft, RetriesAreUsedUp
  <2> QED
    BY <2>2, <2>3, <2>4 DEF BreakerInv, RetryOK
<1>8. ASSUME NEW c \in Calls, TryAgain(c) PROVE BreakerInv'
  <2>1. /\ pc[c] = "backoff"
        /\ pc' = [pc EXCEPT ![c] = "attempt"]
        /\ attempt' = [attempt EXCEPT ![c] = attempt[c] + 1]
        /\ UNCHANGED <<state, failures, halfOpenCalls, expired, probes, cancels, resets>>
    BY <1>8 DEF TryAgain, NextAttempt, breaker
  <2>2. attempt[c] < MaxRetries
    BY <2>1 DEF BreakerInv, AttemptLeft
  <2>3. attempt' \in [Calls -> 0..MaxRetries]
    BY <2>1, <2>2 DEF BreakerInv, BreakerTypeOK
  <2>4. BreakerTypeOK'
    BY <2>1, <2>3 DEF BreakerInv, BreakerTypeOK, Ended
  <2>5. IsFiniteSet(probes') /\ SlotsCoverProbes' /\ ClosedIsBelowThreshold'
    BY <2>1 DEF BreakerInv, SlotsCoverProbes, ClosedIsBelowThreshold
  <2>6. RetryOK'
    BY <2>1 DEF BreakerInv, BreakerTypeOK, RetryOK, AttemptLeft, RetriesAreUsedUp
  <2> QED
    BY <2>4, <2>5, <2>6 DEF BreakerInv, RetryOK
<1>9. ASSUME NEW c \in Calls, CancelCall(c) PROVE BreakerInv'
  <2>1. /\ cancels < MaxCancels /\ cancels' = cancels + 1
        /\ pc' = [pc EXCEPT ![c] = "cancelled"]
        /\ probes' = probes \ {c}
        /\ UNCHANGED <<state, failures, halfOpenCalls, expired, attempt, resets>>
    BY <1>9 DEF CancelCall
  <2>2. BreakerTypeOK'
    <3>1. cancels' \in 0..MaxCancels
      BY <2>1 DEF BreakerInv, BreakerTypeOK
    <3> QED
      BY <2>1, <3>1 DEF BreakerInv, BreakerTypeOK, Ended
  <2>3. IsFiniteSet(probes') /\ Cardinality(probes') <= Cardinality(probes)
    BY <2>1, FewerProbes DEF BreakerInv
  <2>4. SlotsCoverProbes'
    <3>1. Cardinality(probes) \in Nat /\ Cardinality(probes') \in Nat
      BY <2>3, FS_CardinalityType DEF BreakerInv
    <3> QED
      BY <2>1, <2>3, <3>1 DEF BreakerInv, BreakerTypeOK, SlotsCoverProbes
  <2>5. ClosedIsBelowThreshold'
    BY <2>1 DEF BreakerInv, ClosedIsBelowThreshold
  <2>6. RetryOK'
    BY <2>1 DEF BreakerInv, BreakerTypeOK, RetryOK, AttemptLeft, RetriesAreUsedUp
  <2> QED
    BY <2>2, <2>3, <2>4, <2>5, <2>6 DEF BreakerInv, RetryOK
<1>10. ASSUME TimePasses PROVE BreakerInv'
  <2>1. BreakerTypeOK'
    <3>1. expired' \in BOOLEAN
      BY <1>10 DEF TimePasses
    <3> QED
      BY <1>10, <3>1 DEF TimePasses, BreakerInv, BreakerTypeOK
  <2> QED
    BY <1>10, <2>1 DEF TimePasses, BreakerInv, SlotsCoverProbes, ClosedIsBelowThreshold,
        AttemptLeft, RetriesAreUsedUp
<1>11. ASSUME Reset PROVE BreakerInv'
  <2>1. resets' \in 0..MaxResets
    BY <1>11 DEF Reset, BreakerInv, BreakerTypeOK
  <2>2. BreakerTypeOK'
    BY <1>11, <2>1 DEF Reset, BreakerInv, BreakerTypeOK
  <2>3. IsFiniteSet(probes')
    BY <1>11, FS_EmptySet DEF Reset
  <2>4. SlotsCoverProbes' /\ ClosedIsBelowThreshold'
    BY <1>11 DEF Reset, SlotsCoverProbes, ClosedIsBelowThreshold
  <2>5. RetryOK'
    BY <1>11 DEF Reset, BreakerInv, RetryOK, AttemptLeft, RetriesAreUsedUp
  <2> QED
    BY <2>2, <2>3, <2>4, <2>5 DEF BreakerInv, RetryOK
<1>12. ASSUME UNCHANGED breakerVars PROVE BreakerInv'
  BY <1>12 DEF breakerVars, BreakerInv, BreakerTypeOK, SlotsCoverProbes, ClosedIsBelowThreshold,
      AttemptLeft, RetriesAreUsedUp
<1>13. ASSUME NEW c \in Calls, Finish(c) PROVE BreakerInv'
  BY <1>5, <1>6, <1>7, <1>8, <1>13 DEF Finish
<1> QED
  BY <1>1, <1>3, <1>4, <1>9, <1>10, <1>11, <1>12, <1>13 DEF BreakerNext

-----------------------------------------------------------------------------

LEMMA BreakerInvariant == BreakerSpec => []BreakerInv
<1> QED
  BY BreakerInitInv, BreakerNextInv, PTL DEF BreakerSpec

(* The fields of the breaker stay in their ranges, and no call makes more  *)
(* than MaxRetries + 1 attempts.                                           *)
THEOREM BreakerTypeCorrect == BreakerSpec => []BreakerTypeOK
<1> QED
  BY BreakerInvariant, PTL DEF BreakerInv

(* A closed circuit has not seen FailureThreshold failures in a row. *)
THEOREM OpensInTime == BreakerSpec => []ClosedIsBelowThreshold
<1> QED
  BY BreakerInvariant, PTL DEF BreakerInv

(* with_retry gives up on retryable exceptions only after all attempts. *)
THEOREM AllAttemptsAreMade == BreakerSpec => []RetriesAreUsedUp
<1> QED
  BY BreakerInvariant, PTL DEF BreakerInv

(* No more than HalfOpenMax probes in one half-open period. *)
THEOREM ProbesAreLimited == BreakerSpec => []ProbesWithinLimit
<1>1. BreakerInv => ProbesWithinLimit
  <2> SUFFICES ASSUME BreakerInv, state = "half_open" PROVE Cardinality(probes) <= HalfOpenMax
    BY DEF ProbesWithinLimit
  <2>1. Cardinality(probes) \in Nat /\ Cardinality(probes) <= halfOpenCalls
    BY FS_CardinalityType DEF BreakerInv, SlotsCoverProbes
  <2> QED
    BY <2>1, ThresholdAssumption DEF BreakerInv, BreakerTypeOK
<1> QED
  BY <1>1, BreakerInvariant, PTL

(* Whatever results come in late, an open circuit is left only when its    *)
(* timeout has passed, or by a reset.                                      *)
THEOREM LateResultsDoNotClose == BreakerSpec => OpenIsLeftByTimeout
<1> DEFINE Leaves == state = "open" /\ state' # "open"
                     => (state' = "half_open" /\ expired) \/ resets' = resets + 1
<1>1. BreakerNext => Leaves
  <2>1. ASSUME state' = CurrentState PROVE Leaves
    BY <2>1 DEF CurrentState
  <2>2. ASSUME NEW c \in Calls, Admit(c) \/ Reject(c) PROVE Leaves
    BY <2>1, <2>2 DEF Admit, Reject
  <2>3. ASSUME NEW c \in Calls, Finish(c) \/ CancelCall(c) PROVE Leaves
    BY <2>3 DEF Finish, Succeed, StateOnSuccess, Fail, RecordFailure, BackOff, TryAgain,
        CancelCall, breaker
  <2>4. ASSUME TimePasses \/ Observe \/ Reset PROVE Leaves
    BY <2>1, <2>4 DEF TimePasses, Observe, Reset
  <2> QED
    BY <2>2, <2>3, <2>4 DEF BreakerNext
<1>2. [BreakerNext]_breakerVars => [Leaves]_breakerVars
  BY <1>1
<1> QED
  BY <1>2, PTL DEF BreakerSpec, OpenIsLeftByTimeout

=============================================================================
