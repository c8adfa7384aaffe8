--------------------------- MODULE CircuitBreaker ---------------------------
(***************************************************************************)
(* CircuitBreaker.call around with_retry, the way ARCHITECTURE.md (D10)    *)
(* composes them: circuit_breaker.call(with_retry(fn, policy)).  With      *)
(* MaxRetries = 0 it is the plain breaker.  A member of Calls is a caller  *)
(* that makes one call after the other; several are in progress at once,   *)
(* so that results come in long after the circuit has changed its state.   *)
(* Source: src/agent_sdk/scale/circuit_breaker.py and retry.py.            *)
(***************************************************************************)
EXTENDS Integers, FiniteSets

CONSTANTS
    Calls,              \* callers
    FailureThreshold,   \* failure_threshold
    HalfOpenMax,        \* half_open_max
    MaxRetries,         \* RetryPolicy.max_retries
    Fatal,              \* fn raises what is not in retryable_exceptions, too
    MaxCancels,         \* bound: calls whose task is cancelled
    MaxResets           \* bound: manual resets

ASSUME ThresholdAssumption == /\ FailureThreshold \in Nat \ {0}
                              /\ HalfOpenMax \in Nat \ {0}
                              /\ MaxRetries \in Nat
                              /\ Fatal \in BOOLEAN
ASSUME FaultAssumption == MaxCancels \in Nat /\ MaxResets \in Nat

VARIABLES
    state,          \* _state
    failures,       \* _failure_count, as far as FailureThreshold tells it apart
    halfOpenCalls,  \* _half_open_calls
    expired,        \* recovery_timeout has passed since _last_failure_time
    pc,             \* what each caller is doing, or how its last call ended
    attempt,        \* the attempt of with_retry each call is at, from 0
    probes,         \* history: calls admitted in this half-open period, in progress
    cancels, resets \* how many there were

breakerVars == <<state, failures, halfOpenCalls, expired, pc, attempt, probes, cancels, resets>>

breaker == <<state, failures, halfOpenCalls, expired, probes>>

-----------------------------------------------------------------------------

Ended == {"idle", "returned", "raised", "rejected", "cancelled"}

Live(c) == pc[c] \in {"attempt", "backoff"}

BreakerInit ==
    /\ state = "closed"
    /\ failures = 0
    /\ halfOpenCalls = 0
    /\ expired = FALSE
    /\ pc = [c \in Calls |-> "idle"]
    /\ attempt = [c \in Calls |-> 0]
    /\ probes = {}
    /\ cancels = 0
    /\ resets = 0

(* The state property: an OPEN circuit whose timeout has passed becomes    *)
(* HALF_OPEN when somebody looks, with all its slots for probes free.      *)
CurrentState == IF state = "open" /\ expired THEN "half_open" ELSE state

KeptSlots == halfOpenCalls              \* mutant: the slots are not given back
SlotsInUse == IF state = "open" /\ expired THEN 0 ELSE halfOpenCalls

ProbesNow == IF state = "open" /\ expired THEN {} ELSE probes

Observe ==
    /\ state' = CurrentState
    /\ halfOpenCalls' = SlotsInUse
    /\ probes' = ProbesNow
    /\ UNCHANGED <<failures, expired, pc, attempt, cancels, resets>>

(* time.monotonic() reaches _last_failure_time + recovery_timeout. *)
TimePasses ==
    /\ state = "open"
    /\ expired' = TRUE
    /\ UNCHANGED <<state, failures, halfOpenCalls, pc, attempt, probes, cancels, resets>>

MoreProbes == TRUE                      \* mutant: the limit is not checked
SlotFree == SlotsInUse < HalfOpenMax

(* call, up to the first await of fn. *)
Admit(c) ==
    /\ ~Live(c)
    /\ CurrentState = "half_open" => SlotFree
    /\ CurrentState # "open"
    /\ state' = CurrentState
    /\ IF CurrentState = "half_open"
       THEN halfOpenCalls' = SlotsInUse + 1 /\ probes' = ProbesNow \cup {c}
       ELSE UNCHANGED <<halfOpenCalls, probes>>
    /\ pc' = [pc EXCEPT ![c] = "attempt"]
    /\ attempt' = [attempt EXCEPT ![c] = 0]
    /\ UNCHANGED <<failures, expired, cancels, resets>>

(* CircuitOpenError: the circuit is open, or all the slots are taken. *)
Reject(c) ==
    /\ ~Live(c)
    /\ CurrentState = "open" \/ (CurrentState = "half_open" /\ ~SlotFree)
    /\ state' = CurrentState
    /\ halfOpenCalls' = SlotsInUse
    /\ probes' = ProbesNow
    /\ pc' = [pc EXCEPT ![c] = "rejected"]
    /\ UNCHANGED <<failures, expired, attempt, cancels, resets>>

-----------------------------------------------------------------------------
(* The results; the circuit may be in any state by then. *)

KeptCount == failures                   \* mutant: the count survives a success
ClearedCount == 0

StateOnSuccess == IF state = "half_open" THEN "closed" ELSE state

(* fn returns: record_success. *)
Succeed(c) ==
    /\ pc[c] = "attempt"
    /\ pc' = [pc EXCEPT ![c] = "returned"]
    /\ state' = StateOnSuccess
    /\ failures' = ClearedCount
    /\ probes' = probes \ {c}
    /\ UNCHANGED <<halfOpenCalls, expired, attempt, cancels, resets>>

(* The count only matters up to the threshold. *)
NextCount == IF failures < FailureThreshold THEN failures + 1 ELSE failures

(* record_failure, at the end of a call that raises. *)
RecordFailure(c) ==
    /\ failures' = NextCount
    /\ expired' = FALSE
    /\ state' = IF state = "half_open" \/ NextCount >= FailureThreshold THEN "open" ELSE state
    /\ probes' = probes \ {c}
    /\ UNCHANGED halfOpenCalls

Exhausted(c) == attempt[c] = MaxRetries

(* with_retry gives up: fn raised in the last attempt, or something that   *)
(* is not in retryable_exceptions.                                         *)
Fail(c) ==
    /\ pc[c] = "attempt"
    /\ Exhausted(c) \/ Fatal
    /\ pc' = [pc EXCEPT ![c] = "raised"]
    /\ RecordFailure(c)
    /\ UNCHANGED <<attempt, cancels, resets>>

(* A retryable exception in an attempt that is not the last one. *)
BackOff(c) ==
    /\ pc[c] = "attempt"
    /\ ~Exhausted(c)
    /\ pc' = [pc EXCEPT ![c] = "backoff"]
    /\ UNCHANGED <<breaker, attempt, cancels, resets>>

NextAttempt(c) == attempt[c] + 1

(* asyncio.sleep(delay) is over. *)
TryAgain(c) ==
    /\ pc[c] = "backoff"
    /\ pc' = [pc EXCEPT ![c] = "attempt"]
    /\ attempt' = [attempt EXCEPT ![c] = NextAttempt(c)]
    /\ UNCHANGED <<breaker, cancels, resets>>

(* The task is cancelled: CancelledError is no Exception, so neither       *)
(* with_retry nor call catches it and nothing is recorded.                 *)
CancelCall(c) ==
    /\ Live(c)
    /\ cancels < MaxCancels
    /\ cancels' = cancels + 1
    /\ pc' = [pc EXCEPT ![c] = "cancelled"]
    /\ probes' = probes \ {c}
    /\ UNCHANGED <<state, failures, halfOpenCalls, expired, attempt, resets>>

(* reset(). *)
Reset ==
    /\ resets < MaxResets
    /\ resets' = resets + 1
    /\ state' = "closed"
    /\ failures' = 0
    /\ halfOpenCalls' = 0
    /\ probes' = {}
    /\ UNCHANGED <<expired, pc, attempt, cancels>>

-----------------------------------------------------------------------------

Finish(c) == Succeed(c) \/ Fail(c) \/ BackOff(c) \/ TryAgain(c)

BreakerNext ==
    \/ \E c \in Calls : Admit(c) \/ Reject(c) \/ Finish(c) \/ CancelCall(c)
    \/ TimePasses \/ Observe \/ Reset

BreakerSpec == BreakerInit /\ [][BreakerNext]_breakerVars

(* fn and the sleeps of with_retry end sooner or later, and the callers    *)
(* call again and again.                                                   *)
FairBreaker == /\ BreakerSpec
               /\ \A c \in Calls : WF_breakerVars(Finish(c))
               /\ \A c \in Calls : WF_breakerVars(Admit(c))

-----------------------------------------------------------------------------

(* The fields of the breaker and of the policy stay in their ranges; no    *)
(* call makes more than MaxRetries + 1 attempts.                           *)
BreakerTypeOK ==
    /\ state \in {"closed", "open", "half_open"}
    /\ failures \in 0..FailureThreshold
    /\ halfOpenCalls \in 0..HalfOpenMax
    /\ expired \in BOOLEAN
    /\ pc \in [Calls -> Ended \cup {"attempt", "backoff"}]
    /\ attempt \in [Calls -> 0..MaxRetries]
    /\ probes \subseteq Calls
    /\ cancels \in 0..MaxCancels
    /\ resets \in 0..MaxResets

(* A closed circuit has not seen FailureThreshold failures in a row: no    *)
(* order in which late results of calls admitted in other states come in   *)
(* leaves it closed with the count at the limit, or closes it with the     *)
(* count of the time before.                                               *)
ClosedIsBelowThreshold == state = "closed" => failures < FailureThreshold

(* In one half-open period no more than HalfOpenMax probes are in progress *)
(* at a time, although slots are taken and given back by calls of earlier  *)
(* periods.  (A probe that is cancelled counts no more, and its slot is    *)
(* not given back, so that cancellations can only lower the number.)       *)
ProbesWithinLimit == state = "half_open" => Cardinality(probes) <= HalfOpenMax

(* An open circuit ends only by its timeout or by reset(): a success that  *)
(* comes in late, from a call admitted before it opened, does not close it.*)
OpenIsLeftByTimeout ==
    [][state = "open" /\ state' # "open"
         => (state' = "half_open" /\ expired) \/ resets' = resets + 1]_breakerVars

(* with_retry reports a failure only after all its attempts, when all that *)
(* fn raises is retryable.                                                 *)
RetriesAreUsedUp == \A c \in Calls : pc[c] = "raised" /\ ~Fatal => attempt[c] = MaxRetries

(* A half-open period is decided as long as callers keep calling and none *)
(* of their tasks is cancelled: no order of results, of other periods too, *)
(* leaves its slots taken by nobody.                                       *)
HalfOpenEnds == state = "half_open" ~> state # "half_open" \/ cancels > 0

=============================================================================
