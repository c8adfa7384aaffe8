----------------------------- MODULE Admission -----------------------------
(***************************************************************************)
(* src/agent_sdk/scale: RateLimiter (rate_limiter.py) and ConcurrencyPool  *)
(* (pool.py), in the order a caller combines them: a task takes its tokens *)
(* from the limiter and then runs in a slot of the pool.  Each task is a   *)
(* coroutine; it can be cancelled at each of its awaits.  Time passes in   *)
(* ticks, of which asyncio may notice any number too late.                 *)
(***************************************************************************)
EXTENDS Integers, Sequences, FiniteSets

CONSTANTS
    Tasks,          \* coroutines
    Amounts,        \* numbers of tokens tasks ask for
    Rate,           \* tokens per tick
    Burst,          \* size of the bucket
    MaxConcurrent,  \* slots of the pool
    MaxRequests,    \* bound: calls of acquire and try_acquire
    Horizon         \* bound: elapsed ticks that are told apart

ASSUME TaskAssumption    == IsFiniteSet(Tasks)
ASSUME AmountAssumption  == Amounts \subseteq Nat \ {0}
ASSUME RateAssumption    == Rate \in Nat \ {0} /\ Burst \in Nat \ {0}
ASSUME PoolAssumption    == MaxConcurrent \in Nat \ {0} /\ MaxRequests \in Nat
ASSUME HorizonAssumption == Horizon \in Nat /\ Rate * Horizon >= Burst  \* by then the bucket is full

VARIABLES
    tokens,     \* _tokens
    stamped,    \* _last_refill is not 0.0 any more
    elapsed,    \* ticks since _last_refill
    pc,         \* where each task is
    need,       \* the tokens it asks for
    left,       \* ticks its sleep still takes
    value,      \* _value of the semaphore
    waiters,    \* _waiters of the semaphore: tasks whose future is in it
    future,     \* the state of that future
    active,     \* _active
    requests,   \* calls so far
    backlog     \* history: the tokens granted that the rate has not paid for

limiter == <<tokens, stamped, elapsed, backlog>>
pool    == <<value, waiters, future, active>>
vars    == <<tokens, stamped, elapsed, pc, need, left, value, waiters, future, active,
             requests, backlog>>

-----------------------------------------------------------------------------

Least(a, b)    == IF a <= b THEN a ELSE b
AtLeastZero(a) == IF a < 0 THEN 0 ELSE a

Init ==
    /\ tokens = Burst
    /\ stamped = FALSE
    /\ elapsed = 0
    /\ pc = [t \in Tasks |-> "idle"]
    /\ need = [t \in Tasks |-> 0]
    /\ left = [t \in Tasks |-> 0]
    /\ value = MaxConcurrent
    /\ waiters = <<>>
    /\ future = [t \in Tasks |-> "none"]
    /\ active = 0
    /\ requests = 0
    /\ backlog = 0

Goto(t, p) == pc' = [pc EXCEPT ![t] = p]

-----------------------------------------------------------------------------
(* RateLimiter *)

Uncapped == tokens + Rate * elapsed         \* mutant: the bucket has no size
Smaller  == Least(Burst - 1, tokens + Rate * elapsed)   \* mutant: off by one
Refilled == Least(Burst, tokens + Rate * elapsed)

(* _refill: the first call only stamps the time. *)
Level == IF stamped THEN Refilled ELSE tokens

Refill(taken) ==
    /\ tokens' = Level - taken
    /\ stamped' = TRUE
    /\ elapsed' = 0
    /\ backlog' = backlog + taken

(* One round of the loop in acquire: the tokens are taken, or the task     *)
(* sleeps for (tokens - _tokens) / rate.                                   *)
Round(t, n) ==
    IF Level >= n
    THEN /\ Refill(n)
         /\ Goto(t, "slot")
         /\ UNCHANGED left
    ELSE /\ Refill(0)
         /\ Goto(t, "sleep")
         /\ left' = [left EXCEPT ![t] = (n - Level + Rate - 1) \div Rate]

Acquire(t, n) ==
    /\ pc[t] = "idle" /\ requests < MaxRequests
    /\ requests' = requests + 1
    /\ need' = [need EXCEPT ![t] = n]
    /\ Round(t, n)
    /\ UNCHANGED pool

WakeUp(t) ==
    /\ pc[t] = "sleep" /\ left[t] = 0
    /\ Round(t, need[t])
    /\ UNCHANGED <<pool, need, requests>>

(* try_acquire: the caller goes on to the pool or gives up. *)
TryAcquire(t, n) ==
    /\ pc[t] = "idle" /\ requests < MaxRequests
    /\ requests' = requests + 1
    /\ IF Level >= n
       THEN /\ Refill(n)
            /\ Goto(t, "slot")
            /\ need' = [need EXCEPT ![t] = n]
       ELSE Refill(0) /\ UNCHANGED <<pc, need>>
    /\ UNCHANGED <<pool, left>>

(* available_tokens is a property, but it refills. *)
AvailableTokens ==
    /\ elapsed > 0 \/ ~stamped
    /\ Refill(0)
    /\ UNCHANGED <<pool, pc, need, left, requests>>

(* A tick of the clock.  The backlog is what is owed at the rate.  *)
Tick ==
    /\ elapsed' = Least(Horizon, elapsed + 1)
    /\ left' = [t \in Tasks |-> AtLeastZero(left[t] - 1)]
    /\ backlog' = AtLeastZero(backlog - Rate)
    /\ UNCHANGED <<tokens, stamped, pc, need, pool, requests>>

-----------------------------------------------------------------------------
(* asyncio.Semaphore *)

(* deque.remove of the future of t, which is in the queue once. *)
PlaceOf(t) == CHOOSE k \in DOMAIN waiters : waiters[k] = t
Without(t) == [k \in 1..(Len(waiters) - 1) |->
                 waiters[IF k < PlaceOf(t) THEN k ELSE k + 1]]

Locked == value = 0 \/ \E k \in DOMAIN waiters : future[waiters[k]] # "cancelled"

(* _wake_up_next over the futures fs of the queue q with v slots to give:  *)
(* the first future that is not done gets one.                             *)
Pending(q, fs) == {k \in DOMAIN q : fs[q[k]] = "pending"}

GiveSlots(q, fs, v) ==
    IF Pending(q, fs) = {}
    THEN future' = fs /\ value' = v
    ELSE LET k == CHOOSE k \in Pending(q, fs) : \A j \in Pending(q, fs) : k <= j IN
         /\ future' = [fs EXCEPT ![q[k]] = "granted"]
         /\ value' = v - 1

(* ConcurrencyPool.acquire: Semaphore.acquire, and then _active += 1. *)
EnterPool(t) ==
    /\ pc[t] = "slot"
    /\ IF ~Locked
       THEN /\ value' = value - 1
            /\ active' = active + 1
            /\ Goto(t, "running")
            /\ UNCHANGED <<waiters, future>>
       ELSE /\ waiters' = Append(waiters, t)
            /\ future' = [future EXCEPT ![t] = "pending"]
            /\ Goto(t, "waiting")
            /\ UNCHANGED <<value, active>>
    /\ UNCHANGED <<limiter, need, left, requests>>

(* The task whose future has a result runs again; if there are more slots  *)
(* it wakes the next one.                                                  *)
EnterAfterWait(t) ==
    /\ pc[t] = "waiting" /\ future[t] = "granted"
    /\ waiters' = Without(t)
    /\ LET fs == [future EXCEPT ![t] = "none"] IN
       IF value > 0 THEN GiveSlots(Without(t), fs, value) ELSE future' = fs /\ UNCHANGED value
    /\ active' = active + 1
    /\ Goto(t, "running")
    /\ UNCHANGED <<limiter, need, left, requests>>

(* Mutant of LeavePool: acquire without its finally. *)
LeaveUnreleased(t) ==
    /\ pc[t] = "running"
    /\ active' = active - 1
    /\ Goto(t, "idle")
    /\ UNCHANGED <<limiter, need, left, requests, waiters, future, value>>

(* The body returns, raises or is cancelled: the finally of acquire. A     *)
(* failure in gather goes to its caller, and the other tasks run on.       *)
LeavePool(t) ==
    /\ pc[t] = "running"
    /\ active' = active - 1
    /\ GiveSlots(waiters, future, value + 1)
    /\ Goto(t, "idle")
    /\ UNCHANGED <<limiter, need, left, requests, waiters>>

-----------------------------------------------------------------------------
(* Cancellation of a task at an await before it has its slot. *)

CancelSleep(t) ==
    /\ pc[t] = "sleep"
    /\ left' = [left EXCEPT ![t] = 0]
    /\ Goto(t, "idle")
    /\ UNCHANGED <<limiter, pool, need, requests>>

(* Task.cancel cancels a pending future at once; a granted one keeps its   *)
(* result, and the task gets the CancelledError when it runs.              *)
CancelWait(t) ==
    /\ pc[t] = "waiting"
    /\ future' = [future EXCEPT ![t] = IF @ = "pending" THEN "cancelled" ELSE @]
    /\ Goto(t, "raising")
    /\ UNCHANGED <<limiter, need, left, requests, value, waiters, active>>

RaiseCancelled(t) ==
    /\ pc[t] = "raising"
    /\ waiters' = Without(t)
    /\ LET fs == [future EXCEPT ![t] = "none"] IN
       IF future[t] = "granted" THEN GiveSlots(Without(t), fs, value + 1)
       ELSE future' = fs /\ UNCHANGED value
    /\ Goto(t, "idle")
    /\ UNCHANGED <<limiter, need, left, requests, active>>

-----------------------------------------------------------------------------

Proceed(t) ==
    \/ WakeUp(t) \/ EnterPool(t) \/ EnterAfterWait(t) \/ LeavePool(t) \/ RaiseCancelled(t)

Next ==
    \/ \E t \in Tasks :
         \/ \E n \in Amounts : Acquire(t, n) \/ TryAcquire(t, n)
         \/ Proceed(t) \/ CancelSleep(t) \/ CancelWait(t)
    \/ AvailableTokens
    \/ Tick

(* Time passes, and the event loop runs every task that is ready; what     *)
(* runs in a slot ends.                                                    *)
Spec == Init /\ [][Next]_vars /\ WF_vars(Tick) /\ \A t \in Tasks : WF_vars(Proceed(t))

-----------------------------------------------------------------------------

Places == {"idle", "sleep", "slot", "waiting", "raising", "running"}

(* Counters, queue and futures have their types; the bucket never has more *)
(* than its size; the queue holds the tasks that wait, each once.          *)
TypeOK ==
    /\ tokens \in 0..Burst
    /\ stamped \in BOOLEAN
    /\ elapsed \in 0..Horizon
    /\ pc \in [Tasks -> Places]
    /\ need \in [Tasks -> Amounts \cup {0}]
    /\ left \in [Tasks -> Nat]
    /\ value \in 0..MaxConcurrent
    /\ waiters \in Seq(Tasks)
    /\ future \in [Tasks -> {"none", "pending", "granted", "cancelled"}]
    /\ active \in 0..MaxConcurrent
    /\ requests \in 0..MaxRequests
    /\ backlog \in Nat
    /\ \A t \in Tasks : pc[t] = "sleep" => need[t] \in Amounts

Holders == {t \in Tasks : pc[t] = "running"}
Granted == {t \in Tasks : future[t] = "granted"}

(* No slot is lost or used twice: what the semaphore has left, the tasks   *)
(* in the pool and the slots given to tasks that have not run yet are      *)
(* always all the slots, wherever tasks are cancelled, and _active is the  *)
(* number of tasks inside.  No slot is left while a task waits for one,    *)
(* unless a task that was given one has still to run, and wakes the next.  *)
SlotsAreConserved ==
    /\ active = Cardinality(Holders)
    /\ value + active + Cardinality(Granted) = MaxConcurrent
    /\ value > 0 /\ (\E t \in Tasks : future[t] = "pending") => Granted # {}

(* No window of any length lets through more than the burst and what the   *)
(* rate earns in it: the backlog is the largest excess of the tokens       *)
(* granted over the rate in the windows that end now.  Concurrent rounds,  *)
(* late wake-ups, the first refill, which earns nothing, and readers of    *)
(* available_tokens cannot raise it.                                       *)
RateIsRespected == backlog <= Burst

(* A request of at most the burst gets its tokens and its slot, or its     *)
(* caller gives up; one of more sleeps for ever.  That newcomers without   *)
(* end could take the tokens before it is left out, requests being finite. *)
FittingRequestsAreServed ==
    \A t \in Tasks :
        pc[t] \in {"sleep", "slot", "waiting"} /\ need[t] <= Burst
            ~> pc[t] \in {"running", "idle", "raising"}

=============================================================================
