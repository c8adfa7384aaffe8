--------------------------- MODULE AdmissionProofs ---------------------------
(***************************************************************************)
(* Theorems about Admission, for every finite number of tasks, every rate, *)
(* burst and number of slots.                                              *)
(***************************************************************************)
EXTENDS Admission, FiniteSetTheorems, SequenceTheorems, WellFoundedInduction, TLAPS

Futures == {"none", "pending", "granted", "cancelled"}

(* A task has a future in the queue exactly while it waits for a slot or   *)
(* for the CancelledError of its wait.                                     *)
FuturesFit ==
    \A t \in Tasks :
        /\ pc[t] = "waiting" => future[t] \in {"pending", "granted"}
        /\ pc[t] = "raising" => future[t] \in {"granted", "cancelled"}
        /\ pc[t] \notin {"waiting", "raising"} => future[t] = "none"

QueueFits ==
    /\ \A j, k \in DOMAIN waiters : waiters[j] = waiters[k] => j = k
    /\ \A t \in Tasks : pc[t] \in {"waiting", "raising"} <=> \E k \in DOMAIN waiters : waiters[k] = t

PoolInv == FuturesFit /\ QueueFits /\ SlotsAreConserved

(* What is owed and what can be taken at once is at most the burst; before *)
(* the first refill nothing was taken.                                     *)
RateInv ==
    /\ stamped => backlog + Refilled <= Burst
    /\ ~stamped => tokens = Burst /\ backlog = 0

IInv == TypeOK /\ PoolInv /\ RateInv

USE TaskAssumption, AmountAssumption, RateAssumption, PoolAssumption, HorizonAssumption

-----------------------------------------------------------------------------
(* Finite sets of numbers, and what the semaphore does to its queue.       *)

(* A finite set of integers has a smallest element: the set of what is     *)
(* smaller shrinks from each element to a smaller one.                     *)
LEMMA SmallestExists ==
    ASSUME NEW S \in SUBSET Int, IsFiniteSet(S), S # {}
    PROVE  \E k \in S : \A j \in S : k <= j
<1> DEFINE Below(x) == {y \in S : y < x}
           Family == {Below(x) : x \in S}
<1>1. Family \subseteq FiniteSubsetsOf(S)
  <2>1. ASSUME NEW x \in S PROVE Below(x) \in SUBSET S /\ IsFiniteSet(Below(x))
    BY FS_Subset
  <2> QED
    BY <2>1 DEF FiniteSubsetsOf
<1>2. Family # {}
  OBVIOUS
<1>3. IsWellFoundedOn(StrictSubsetOrdering(S), FiniteSubsetsOf(S))
  BY FS_StrictSubsetOrderingWellFounded
<1> HIDE DEF Family
<1>4. PICK D \in Family : \A E \in Family : ~ (<<E, D>> \in StrictSubsetOrdering(S))
  BY <1>1, <1>2, <1>3, WFMin
<1>5. PICK k \in S : D = Below(k)
  BY <1>4 DEF Family
<1>6. ASSUME NEW j \in S, j < k PROVE FALSE
  <2>1. Below(j) \in Family
    BY DEF Family
  <2>2. Below(j) \subseteq D /\ j \in D /\ j \notin Below(j)
    <3>1. j \in Int /\ k \in Int /\ j < k
      BY <1>6
    <3>2. ASSUME NEW y \in S, y < j PROVE y < k
      <4>1. y \in Int
        OBVIOUS
      <4> QED
        BY <3>1, <3>2, <4>1
    <3>3. ~(j < j)
      BY <3>1
    <3> QED
      BY <1>5, <3>1, <3>2, <3>3
  <2>3. <<Below(j), D>> \in StrictSubsetOrdering(S)
    BY <2>2, <1>5 DEF StrictSubsetOrdering
  <2> QED
    BY <1>4, <2>1, <2>3
<1> QED
  BY <1>6

(* _wake_up_next with a slot to give: the slot goes to a pending future,   *)
(* or stays if there is none.                                              *)
LEMMA SlotIsGiven ==
    ASSUME NEW q \in Seq(Tasks), NEW fs \in [Tasks -> Futures], NEW v \in Nat, v > 0,
           GiveSlots(q, fs, v),
           \A t \in Tasks : fs[t] = "pending" => \E k \in DOMAIN q : q[k] = t
    PROVE  \/ /\ future' = fs /\ value' = v
              /\ \A t \in Tasks : fs[t] # "pending"
           \/ \E u \in Tasks : /\ fs[u] = "pending"
                               /\ future' = [fs EXCEPT ![u] = "granted"]
                               /\ value' = v - 1
<1>1. CASE Pending(q, fs) = {}
  BY <1>1 DEF GiveSlots, Pending
<1>2. CASE Pending(q, fs) # {}
  <2> DEFINE k == CHOOSE k \in Pending(q, fs) : \A j \in Pending(q, fs) : k <= j
  <2>1. DOMAIN q = 1..Len(q) /\ Len(q) \in Nat
    OBVIOUS
  <2>2. Pending(q, fs) \in SUBSET (1..Len(q))
    BY <2>1 DEF Pending
  <2>3. IsFiniteSet(1..Len(q))
    BY <2>1, FS_Interval
  <2>4. IsFiniteSet(Pending(q, fs)) /\ Pending(q, fs) \in SUBSET Int
    BY <2>2, <2>3, FS_Subset
  <2>5. \E i \in Pending(q, fs) : \A j \in Pending(q, fs) : i <= j
    BY <1>2, <2>4, SmallestExists
  <2>6. k \in Pending(q, fs)
    BY <2>5
  <2>7. future' = [fs EXCEPT ![q[k]] = "granted"] /\ value' = v - 1
    BY <1>2 DEF GiveSlots
  <2> HIDE DEF k
  <2>8. q[k] \in Tasks /\ fs[q[k]] = "pending"
    BY <2>6 DEF Pending
  <2> QED
    BY <2>7, <2>8
<1> QED
  BY <1>1, <1>2

GrantedIn(fs) == {t \in Tasks : fs[t] = "granted"}

(* A slot is given to at most one future, and none is lost by giving it. *)
LEMMA SlotsCount ==
    ASSUME NEW q \in Seq(Tasks), NEW fs \in [Tasks -> Futures], NEW v \in Nat, v > 0,
           GiveSlots(q, fs, v),
           \A t \in Tasks : fs[t] = "pending" => \E k \in DOMAIN q : q[k] = t
    PROVE  /\ future' \in [Tasks -> Futures] /\ value' \in Nat
           /\ value' + Cardinality(GrantedIn(future')) = v + Cardinality(GrantedIn(fs))
           /\ GrantedIn(future') # {} \/ \A t \in Tasks : future'[t] # "pending"
           /\ \A t \in Tasks : \/ future'[t] = fs[t]
                               \/ fs[t] = "pending" /\ future'[t] = "granted"
<1>1. CASE future' = fs /\ value' = v /\ \A t \in Tasks : fs[t] # "pending"
  <2>1. GrantedIn(future') = GrantedIn(fs)
    BY <1>1
  <2> QED
    BY <1>1, <2>1
<1>2. ASSUME NEW u \in Tasks, fs[u] = "pending", future' = [fs EXCEPT ![u] = "granted"], value' = v - 1
      PROVE  /\ future' \in [Tasks -> Futures] /\ value' \in Nat
             /\ value' + Cardinality(GrantedIn(future')) = v + Cardinality(GrantedIn(fs))
             /\ GrantedIn(future') # {}
             /\ \A t \in Tasks : \/ future'[t] = fs[t]
                                 \/ fs[t] = "pending" /\ future'[t] = "granted"
  <2>1. future' \in [Tasks -> Futures] /\ future'[u] = "granted" /\ \A t \in Tasks \ {u} : future'[t] = fs[t]
    BY <1>2 DEF Futures
  <2>2. GrantedIn(future') = GrantedIn(fs) \cup {u} /\ u \notin GrantedIn(fs)
    BY <1>2, <2>1 DEF GrantedIn
  <2>3. IsFiniteSet(GrantedIn(fs)) /\ Cardinality(GrantedIn(fs)) \in Nat
    BY FS_Subset, FS_CardinalityType DEF GrantedIn
  <2>4. Cardinality(GrantedIn(future')) = Cardinality(GrantedIn(fs)) + 1
    BY <2>2, <2>3, FS_AddElement
  <2>5. value' \in Nat /\ v \in Nat /\ value' = v - 1
    BY <1>2
  <2>6. value' + Cardinality(GrantedIn(future')) = v + Cardinality(GrantedIn(fs))
    <3> DEFINE c == Cardinality(GrantedIn(fs))
               d == Cardinality(GrantedIn(future'))
    <3>1. c \in Nat /\ d = c + 1
      BY <2>3, <2>4
    <3> HIDE DEF c, d
    <3>2. value' + d = v + c
      BY ONLY <2>5, <3>1
    <3> QED
      BY <3>2 DEF c, d
  <2> QED
    BY <1>2, <2>1, <2>2, <2>5, <2>6
<1> QED
  BY <1>1, <1>2, SlotIsGiven

(* Removing a future from the queue leaves the others in their order. *)
LEMMA WithoutIsShorter ==
    ASSUME waiters \in Seq(Tasks), NEW t \in Tasks,
           \A j, k \in DOMAIN waiters : waiters[j] = waiters[k] => j = k,
           \E k \in DOMAIN waiters : waiters[k] = t
    PROVE  /\ Without(t) \in Seq(Tasks)
           /\ \A j, k \in DOMAIN Without(t) : Without(t)[j] = Without(t)[k] => j = k
           /\ \A u \in Tasks : (\E k \in DOMAIN Without(t) : Without(t)[k] = u)
                 <=> u # t /\ \E k \in DOMAIN waiters : waiters[k] = u
<1> DEFINE p == PlaceOf(t)
           n == Len(waiters)
           Old(k) == IF k < p THEN k ELSE k + 1
<1>1. DOMAIN waiters = 1..n /\ n \in Nat /\ \A k \in 1..n : waiters[k] \in Tasks
  OBVIOUS
<1>2. p \in 1..n /\ waiters[p] = t
  BY <1>1 DEF PlaceOf
<1>3. Without(t) = [k \in 1..(n - 1) |-> waiters[Old(k)]]
  BY DEF Without
<1> HIDE DEF p, n
<1>4. n - 1 \in Nat
  BY <1>1, <1>2
<1>5. \A k \in 1..(n - 1) : Old(k) \in 1..n /\ Old(k) # p
  BY <1>1, <1>2
<1>6. \A j, k \in 1..(n - 1) : Old(j) = Old(k) => j = k
  BY <1>2
<1>7. \A k \in 1..n : k # p => \E j \in 1..(n - 1) : Old(j) = k
  <2>1. ASSUME NEW k \in 1..n, k < p PROVE k \in 1..(n - 1) /\ Old(k) = k
    BY <1>1, <1>2, <2>1
  <2>2. ASSUME NEW k \in 1..n, k > p PROVE k - 1 \in 1..(n - 1) /\ Old(k - 1) = k
    BY <1>1, <1>2, <2>2
  <2> QED
    BY <1>2, <2>1, <2>2
<1> HIDE DEF Old
<1>8. DOMAIN Without(t) = 1..(n - 1) /\ \A k \in 1..(n - 1) : Without(t)[k] = waiters[Old(k)]
  BY <1>3
<1>9. Without(t) \in Seq(Tasks)
  <2>1. \A k \in 1..(n - 1) : waiters[Old(k)] \in Tasks
    BY <1>1, <1>5
  <2>2. Without(t) \in [1..(n - 1) -> Tasks]
    BY <1>3, <2>1
  <2> QED
    BY <1>4, <2>2, SeqDef
<1>10. \A j, k \in DOMAIN Without(t) : Without(t)[j] = Without(t)[k] => j = k
  <2> SUFFICES ASSUME NEW j \in 1..(n - 1), NEW k \in 1..(n - 1), waiters[Old(j)] = waiters[Old(k)]
               PROVE  j = k
    BY <1>8
  <2>1. Old(j) = Old(k)
    BY <1>1, <1>5
  <2> QED
    BY <1>6, <2>1
<1>11. ASSUME NEW u \in Tasks
       PROVE  (\E k \in DOMAIN Without(t) : Without(t)[k] = u)
                 <=> u # t /\ \E k \in DOMAIN waiters : waiters[k] = u
  <2>1. ASSUME NEW k \in 1..(n - 1), waiters[Old(k)] = u PROVE u # t /\ \E j \in DOMAIN waiters : waiters[j] = u
    BY <1>1, <1>2, <1>5, <2>1
  <2>2. ASSUME u # t, NEW k \in 1..n, waiters[k] = u PROVE \E j \in 1..(n - 1) : waiters[Old(j)] = u
    BY <1>2, <1>7, <2>2
  <2> QED
    BY <1>1, <1>8, <2>1, <2>2
<1> QED
  BY <1>9, <1>10, <1>11

-----------------------------------------------------------------------------

LEMMA InitIInv == Init => IInv
<1> SUFFICES ASSUME Init PROVE IInv
  OBVIOUS
<1>1. TypeOK
  <2>1. tokens \in 0..Burst /\ stamped \in BOOLEAN /\ elapsed \in 0..Horizon
    <3>1. Burst \in Nat /\ Horizon \in Nat
      OBVIOUS
    <3>2. tokens = Burst /\ elapsed = 0
      BY DEF Init
    <3>3. tokens \in 0..Burst /\ elapsed \in 0..Horizon
      BY <3>1, <3>2
    <3>4. stamped \in BOOLEAN
      BY DEF Init
    <3> QED
      BY <3>3, <3>4
  <2>2. value \in 0..MaxConcurrent /\ active \in 0..MaxConcurrent
    BY DEF Init
  <2>3. requests \in 0..MaxRequests /\ backlog \in Nat /\ waiters \in Seq(Tasks)
    BY DEF Init
  <2>4. /\ pc \in [Tasks -> Places] /\ need \in [Tasks -> Amounts \cup {0}]
        /\ left \in [Tasks -> Nat] /\ future \in [Tasks -> {"none", "pending", "granted", "cancelled"}]
        /\ \A t \in Tasks : pc[t] # "sleep"
    BY DEF Init, Places
  <2> QED
    BY <2>1, <2>2, <2>3, <2>4 DEF TypeOK
<1>2. FuturesFit /\ QueueFits
  BY DEF Init, FuturesFit, QueueFits
<1>3. Holders = {} /\ Granted = {}
  BY DEF Init, Holders, Granted
<1>4. SlotsAreConserved
  BY <1>3, FS_EmptySet DEF Init, SlotsAreConserved
<1>5. RateInv
  BY DEF Init, RateInv
<1> QED
  BY <1>1, <1>2, <1>4, <1>5 DEF IInv, PoolInv

-----------------------------------------------------------------------------
(* The limiter.                                                            *)

LEMMA ProductType == ASSUME NEW a \in Nat, NEW b \in Nat PROVE a * b \in Nat
OBVIOUS

LEMMA ProductStep ==
    ASSUME NEW a \in Nat, NEW b \in Nat PROVE a * (b + 1) = a * b + a
OBVIOUS

(* The level of the bucket after a refill. *)
LEMMA LevelType ==
    ASSUME IInv
    PROVE  Rate * elapsed \in Nat /\ Refilled \in 0..Burst /\ Level \in 0..Burst
<1>1. tokens \in 0..Burst /\ elapsed \in Nat /\ Rate \in Nat /\ Burst \in Nat /\ stamped \in BOOLEAN
  BY DEF IInv, TypeOK
<1>2. Rate * elapsed \in Nat
  BY <1>1
<1>3. Refilled \in 0..Burst
  <2> DEFINE earned == Rate * elapsed
  <2>1. earned \in Nat /\ Refilled = Least(Burst, tokens + earned)
    BY <1>2 DEF Refilled
  <2> HIDE DEF earned
  <2> QED
    BY <1>1, <2>1 DEF Least
<1> QED
  BY <1>1, <1>2, <1>3 DEF Level

(* Taking at most the level keeps what is owed and what is left together   *)
(* within the burst.                                                       *)
LEMMA RefillKeeps ==
    ASSUME IInv, NEW taken \in Nat, taken <= Level, Refill(taken)
    PROVE  /\ tokens' \in 0..Burst /\ stamped' \in BOOLEAN /\ elapsed' \in 0..Horizon
           /\ backlog' \in Nat /\ RateInv'
<1>1. /\ tokens' = Level - taken /\ stamped' = TRUE /\ elapsed' = 0 /\ backlog' = backlog + taken
  BY DEF Refill
<1>2. Level \in 0..Burst /\ Refilled \in 0..Burst
  BY LevelType
<1>3. backlog \in Nat /\ Burst \in Nat /\ Rate \in Nat
  BY DEF IInv, TypeOK
<1>4. backlog + Level <= Burst
  <2>1. CASE stamped
    BY <2>1 DEF IInv, RateInv, Level
  <2>2. CASE ~stamped
    BY <1>3, <2>2 DEF IInv, RateInv, Level
  <2> QED
    BY <2>1, <2>2
<1>5. tokens' \in 0..Burst /\ backlog' \in Nat
  BY <1>1, <1>2, <1>3
<1>6. Refilled' = Least(Burst, tokens' + Rate * elapsed')
  BY DEF Refilled
<1>7. Rate * elapsed' = 0
  BY <1>1, <1>3
<1>8. Refilled' = tokens'
  BY <1>3, <1>5, <1>6, <1>7 DEF Least
<1>9. backlog' + tokens' <= Burst
  BY <1>1, <1>2, <1>3, <1>4
<1>10. RateInv'
  BY <1>1, <1>8, <1>9 DEF RateInv
<1> QED
  BY <1>1, <1>5, <1>10

LEMMA TickKeepsRate ==
    ASSUME IInv, Tick PROVE RateInv' /\ backlog' \in Nat /\ elapsed' \in 0..Horizon
<1>1. /\ elapsed' = Least(Horizon, elapsed + 1) /\ backlog' = AtLeastZero(backlog - Rate)
      /\ UNCHANGED <<tokens, stamped>>
  BY DEF Tick
<1>2. /\ tokens \in 0..Burst /\ elapsed \in 0..Horizon /\ backlog \in Nat /\ Rate \in Nat
      /\ Burst \in Nat /\ Horizon \in Nat /\ Rate * Horizon >= Burst /\ stamped \in BOOLEAN
  BY DEF IInv, TypeOK
<1>3. backlog' \in Nat /\ elapsed' \in 0..Horizon
  BY <1>1, <1>2 DEF AtLeastZero, Least
<1>4. CASE ~stamped
  <2>1. tokens = Burst /\ backlog = 0
    BY <1>4 DEF IInv, RateInv
  <2>2. backlog' = 0
    BY <1>1, <1>2, <2>1 DEF AtLeastZero
  <2>3. ~stamped' /\ tokens' = Burst
    BY <1>1, <1>4, <2>1
  <2> QED
    BY <1>3, <2>2, <2>3 DEF RateInv
<1>5. CASE stamped
  <2> DEFINE earned == Rate * elapsed
             later  == Rate * elapsed'
  <2>1. earned \in Nat /\ later \in Nat
    <3>1. elapsed' \in Nat /\ elapsed \in Nat
      BY <1>2, <1>3
    <3> QED
      BY ONLY <1>2, <3>1, ProductType
  <2>2. backlog + Least(Burst, tokens + earned) <= Burst
    BY <1>5 DEF IInv, RateInv, Refilled
  <2>3. later = earned + Rate \/ (later >= Burst /\ earned >= Burst)
    <3>1. CASE elapsed + 1 <= Horizon
      <4>1. elapsed' = elapsed + 1
        BY <1>1, <1>2, <3>1 DEF Least
      <4>2. Rate * (elapsed + 1) = Rate * elapsed + Rate
        BY <1>2, ProductStep
      <4> QED
        BY <4>1, <4>2
    <3>2. CASE ~(elapsed + 1 <= Horizon)
      <4>1. elapsed = Horizon /\ elapsed' = Horizon
        BY <1>1, <1>2, <3>2 DEF Least
      <4> QED
        BY <1>2, <4>1
    <3> QED
      BY <3>1, <3>2
  <2>4. Refilled' = Least(Burst, tokens' + later)
    BY DEF Refilled
  <2> HIDE DEF earned, later
  <2>5. backlog' + Least(Burst, tokens + later) <= Burst
    BY <1>1, <1>2, <2>1, <2>2, <2>3 DEF Least, AtLeastZero
  <2>6. backlog' + Refilled' <= Burst /\ stamped'
    BY <1>1, <1>5, <2>4, <2>5
  <2> QED
    BY <1>3, <2>6 DEF RateInv
<1> QED
  BY <1>2, <1>4, <1>5

-----------------------------------------------------------------------------
(* The steps.                                                              *)

(* A step that leaves the pool alone and moves a task between places       *)
(* without a slot and without a future.                                    *)
LEMMA PoolStays ==
    ASSUME IInv, UNCHANGED pool,
           \A t \in Tasks : \/ pc'[t] = pc[t]
                            \/ /\ pc[t] \notin {"waiting", "raising", "running"}
                               /\ pc'[t] \notin {"waiting", "raising", "running"}
    PROVE  PoolInv'
<1>1. UNCHANGED <<value, waiters, future, active>>
  BY DEF pool
<1>2. FuturesFit'
  BY <1>1 DEF IInv, PoolInv, FuturesFit
<1>3. QueueFits'
  BY <1>1 DEF IInv, PoolInv, QueueFits
<1>4. Holders' = Holders /\ Granted' = Granted
  BY <1>1 DEF Holders, Granted
<1>5. SlotsAreConserved'
  BY <1>1, <1>4 DEF IInv, PoolInv, SlotsAreConserved
<1> QED
  BY <1>2, <1>3, <1>5 DEF PoolInv

(* A sleep takes a natural number of ticks. *)
LEMMA SleepType ==
    ASSUME NEW n \in Nat, NEW level \in Nat, n > level
    PROVE  (n - level + Rate - 1) \div Rate \in Nat
<1> DEFINE a == n - level + Rate - 1
<1>1. a \in Nat /\ Rate \in Nat /\ Rate > 0
  OBVIOUS
<1> HIDE DEF a
<1>2. a \div Rate \in Nat
  BY <1>1
<1> QED
  BY <1>2 DEF a

(* One round of acquire by a task that is not in the pool. *)
LEMMA RoundIInv ==
    ASSUME IInv, NEW t \in Tasks, NEW n \in Amounts, pc[t] \in {"idle", "sleep"}, Round(t, n),
           UNCHANGED pool, need' \in [Tasks -> Amounts \cup {0}], need'[t] = n,
           \A u \in Tasks \ {t} : need'[u] = need[u],
           requests' \in 0..MaxRequests
    PROVE  IInv'
<1>1. n \in Nat /\ Level \in 0..Burst /\ Level \in Nat
  BY LevelType
<1>2. pc \in [Tasks -> Places] /\ left \in [Tasks -> Nat]
  BY DEF IInv, TypeOK
<1>3. /\ pc' \in [Tasks -> Places] /\ pc'[t] \in {"slot", "sleep"}
      /\ \A u \in Tasks \ {t} : pc'[u] = pc[u]
  BY <1>2 DEF Round, Goto, Places
<1>4. left' \in [Tasks -> Nat]
  <2>1. CASE Level >= n
    BY <1>2, <2>1 DEF Round
  <2>2. CASE ~(Level >= n)
    <3>1. n > Level
      BY <1>1, <2>2
    <3>2. (n - Level + Rate - 1) \div Rate \in Nat
      BY <1>1, <3>1, SleepType
    <3>3. left' = [left EXCEPT ![t] = (n - Level + Rate - 1) \div Rate]
      BY <2>2 DEF Round
    <3> QED
      BY <1>2, <3>2, <3>3
  <2> QED
    BY <2>1, <2>2
<1>5. /\ tokens' \in 0..Burst /\ stamped' \in BOOLEAN /\ elapsed' \in 0..Horizon
      /\ backlog' \in Nat /\ RateInv'
  <2>1. CASE Level >= n
    BY <1>1, <2>1, RefillKeeps DEF Round
  <2>2. CASE ~(Level >= n)
    <3>1. 0 \in Nat /\ 0 <= Level /\ Refill(0)
      BY <1>1, <2>2 DEF Round
    <3> QED
      BY <3>1, RefillKeeps
  <2> QED
    BY <2>1, <2>2
<1>6. PoolInv'
  BY <1>3, PoolStays
<1>7. \A u \in Tasks : pc'[u] = "sleep" => need'[u] \in Amounts
  BY <1>3 DEF IInv, TypeOK
<1>8. UNCHANGED <<value, waiters, future, active>>
  BY DEF pool
<1>9. TypeOK'
  BY <1>3, <1>4, <1>5, <1>7, <1>8 DEF IInv, TypeOK
<1> QED
  BY <1>5, <1>6, <1>9 DEF IInv

LEMMA AcquireIInv ==
    ASSUME IInv, NEW t \in Tasks, NEW n \in Amounts, Acquire(t, n) PROVE IInv'
<1>1. /\ pc[t] = "idle" /\ requests < MaxRequests /\ requests' = requests + 1
      /\ need' = [need EXCEPT ![t] = n] /\ Round(t, n) /\ UNCHANGED pool
  BY DEF Acquire
<1>2. requests' \in 0..MaxRequests
  BY <1>1 DEF IInv, TypeOK
<1>3. /\ need' \in [Tasks -> Amounts \cup {0}] /\ need'[t] = n
      /\ \A u \in Tasks \ {t} : need'[u] = need[u]
  BY <1>1 DEF IInv, TypeOK
<1> QED
  BY <1>1, <1>2, <1>3, RoundIInv

LEMMA WakeUpIInv == ASSUME IInv, NEW t \in Tasks, WakeUp(t) PROVE IInv'
<1>1. pc[t] = "sleep" /\ Round(t, need[t]) /\ UNCHANGED <<need, requests>> /\ UNCHANGED pool
  BY DEF WakeUp, pool
<1>2. need[t] \in Amounts
  BY <1>1 DEF IInv, TypeOK
<1>3. /\ need' \in [Tasks -> Amounts \cup {0}] /\ need'[t] = need[t]
      /\ \A u \in Tasks \ {t} : need'[u] = need[u] /\ requests' \in 0..MaxRequests
      /\ requests' \in 0..MaxRequests
  BY <1>1 DEF IInv, TypeOK
<1> QED
  BY <1>1, <1>2, <1>3, RoundIInv

LEMMA TryAcquireIInv ==
    ASSUME IInv, NEW t \in Tasks, NEW n \in Amounts, TryAcquire(t, n) PROVE IInv'
<1>1. /\ pc[t] = "idle" /\ requests < MaxRequests /\ requests' = requests + 1
      /\ UNCHANGED pool /\ UNCHANGED left
  BY DEF TryAcquire, pool
<1>2. n \in Nat /\ Level \in 0..Burst /\ Level \in Nat
  BY LevelType
<1>3. /\ pc' \in [Tasks -> Places] /\ pc'[t] \in {"slot", "idle"}
      /\ \A u \in Tasks \ {t} : pc'[u] = pc[u]
  BY <1>1 DEF TryAcquire, Goto, Places, IInv, TypeOK
<1>4. need' \in [Tasks -> Amounts \cup {0}] /\ \A u \in Tasks \ {t} : need'[u] = need[u]
  BY DEF TryAcquire, IInv, TypeOK
<1>5. /\ tokens' \in 0..Burst /\ stamped' \in BOOLEAN /\ elapsed' \in 0..Horizon
      /\ backlog' \in Nat /\ RateInv'
  <2>1. CASE Level >= n
    BY <1>2, <2>1, RefillKeeps DEF TryAcquire
  <2>2. CASE ~(Level >= n)
    <3>1. 0 \in Nat /\ 0 <= Level /\ Refill(0)
      BY <1>2, <2>2 DEF TryAcquire
    <3> QED
      BY <3>1, RefillKeeps
  <2> QED
    BY <2>1, <2>2
<1>6. PoolInv'
  BY <1>1, <1>3, PoolStays
<1>7. requests' \in 0..MaxRequests
  BY <1>1 DEF IInv, TypeOK
<1>8. \A u \in Tasks : pc'[u] = "sleep" => need'[u] \in Amounts
  BY <1>3, <1>4 DEF IInv, TypeOK
<1>9. TypeOK'
  BY <1>1, <1>3, <1>4, <1>5, <1>7, <1>8 DEF IInv, TypeOK, pool
<1> QED
  BY <1>5, <1>6, <1>9 DEF IInv

LEMMA AvailableTokensIInv == ASSUME IInv, AvailableTokens PROVE IInv'
<1>1. Refill(0) /\ UNCHANGED <<pc, need, left, requests>> /\ UNCHANGED pool
  BY DEF AvailableTokens, pool
<1>2. 0 \in Nat /\ 0 <= Level
  BY LevelType
<1>3. /\ tokens' \in 0..Burst /\ stamped' \in BOOLEAN /\ elapsed' \in 0..Horizon
      /\ backlog' \in Nat /\ RateInv'
  BY <1>1, <1>2, RefillKeeps
<1>4. PoolInv'
  BY <1>1, PoolStays
<1>5. TypeOK'
  BY <1>1, <1>3 DEF IInv, TypeOK, pool
<1> QED
  BY <1>3, <1>4, <1>5 DEF IInv

LEMMA TickIInv == ASSUME IInv, Tick PROVE IInv'
<1>1. /\ left' = [t \in Tasks |-> AtLeastZero(left[t] - 1)]
      /\ UNCHANGED <<tokens, stamped, pc, need, requests>> /\ UNCHANGED pool
  BY DEF Tick, pool
<1>2. left' \in [Tasks -> Nat]
  BY <1>1 DEF IInv, TypeOK, AtLeastZero
<1>3. RateInv' /\ backlog' \in Nat /\ elapsed' \in 0..Horizon
  BY TickKeepsRate
<1>4. PoolInv'
  BY <1>1, PoolStays
<1>5. TypeOK'
  BY <1>1, <1>2, <1>3 DEF IInv, TypeOK, pool
<1> QED
  BY <1>3, <1>4, <1>5 DEF IInv

LEMMA CancelSleepIInv == ASSUME IInv, NEW t \in Tasks, CancelSleep(t) PROVE IInv'
<1>1. /\ pc[t] = "sleep" /\ left' = [left EXCEPT ![t] = 0] /\ Goto(t, "idle")
      /\ UNCHANGED <<tokens, stamped, elapsed, backlog, need, requests>> /\ UNCHANGED pool
  BY DEF CancelSleep, limiter, pool
<1>2. /\ pc' \in [Tasks -> Places] /\ pc'[t] = "idle" /\ left' \in [Tasks -> Nat]
      /\ \A u \in Tasks \ {t} : pc'[u] = pc[u]
  BY <1>1 DEF Goto, Places, IInv, TypeOK
<1>3. PoolInv'
  BY <1>1, <1>2, PoolStays
<1>4. TypeOK'
  BY <1>1, <1>2 DEF IInv, TypeOK, pool
<1>5. RateInv'
  BY <1>1 DEF IInv, RateInv, Refilled
<1> QED
  BY <1>3, <1>4, <1>5 DEF IInv

-----------------------------------------------------------------------------
(* The steps of the pool.                                                  *)

LEMMA SlotBounds ==
    ASSUME NEW a \in Nat, NEW b \in Nat, NEW c \in Nat, NEW m, a + b + c = m
    PROVE  a \in 0..m /\ b \in 0..m
OBVIOUS

LEMMA SlotLeft ==
    ASSUME NEW v \in Nat, NEW a \in Nat, NEW g \in Nat, NEW w \in Nat, NEW h \in Nat,
           v + a + g = MaxConcurrent, w + h = v + 1 + g
    PROVE  w + (a - 1) + h = MaxConcurrent
OBVIOUS

LEMMA SlotEntered ==
    ASSUME NEW v \in Nat, NEW a \in Nat, NEW g \in Nat, NEW w \in Nat, NEW h \in Nat,
           v + a + g = MaxConcurrent, w + h + 1 = v + g
    PROVE  w + (a + 1) + h = MaxConcurrent
OBVIOUS

LEMMA SlotPassed ==
    ASSUME NEW v \in Nat, NEW a \in Nat, NEW g \in Nat, NEW w \in Nat, NEW h \in Nat,
           v + a + g = MaxConcurrent, w + h = v + g
    PROVE  w + a + h = MaxConcurrent
OBVIOUS

(* A step of the pool by a task that goes to p. *)
LEMMA PoolStepIInv ==
    ASSUME IInv, NEW t \in Tasks, NEW p \in Places \ {"sleep"}, Goto(t, p),
           UNCHANGED <<tokens, stamped, elapsed, backlog, need, left, requests>>,
           value' \in Nat, active' \in Nat, waiters' \in Seq(Tasks), future' \in [Tasks -> Futures],
           PoolInv'
    PROVE  IInv'
<1>1. pc' \in [Tasks -> Places] /\ pc'[t] = p /\ \A u \in Tasks \ {t} : pc'[u] = pc[u]
  BY DEF Goto, IInv, TypeOK
<1>2. Cardinality(Granted)' \in Nat
  <2>1. IsFiniteSet(Granted')
    BY FS_Subset DEF Granted
  <2> QED
    BY <2>1, FS_CardinalityType
<1>3. value' + active' + Cardinality(Granted)' = MaxConcurrent
  BY DEF PoolInv, SlotsAreConserved
<1>4. value' \in Nat /\ active' \in Nat
  OBVIOUS
<1>5. value' \in 0..MaxConcurrent /\ active' \in 0..MaxConcurrent
  BY ONLY <1>2, <1>3, <1>4, SlotBounds
<1>6. \A u \in Tasks : pc'[u] = "sleep" => need'[u] \in Amounts
  BY <1>1 DEF IInv, TypeOK
<1>7. TypeOK'
  BY <1>1, <1>5, <1>6 DEF IInv, TypeOK, Futures
<1>8. RateInv'
  BY DEF IInv, RateInv, Refilled
<1> QED
  BY <1>7, <1>8 DEF IInv

(* Who is in the pool after a move of t. *)
LEMMA Moves ==
    ASSUME IInv, NEW t \in Tasks, NEW p \in Places, Goto(t, p)
    PROVE  /\ pc'[t] = p /\ \A u \in Tasks \ {t} : pc'[u] = pc[u]
           /\ Cardinality(Holders) \in Nat
           /\ pc[t] # "running" /\ p = "running" => Cardinality(Holders)' = Cardinality(Holders) + 1
           /\ pc[t] = "running" /\ p # "running" =>
                Cardinality(Holders)' = Cardinality(Holders) - 1 /\ Cardinality(Holders) > 0
           /\ pc[t] # "running" /\ p # "running" => Holders' = Holders
<1>1. pc'[t] = p /\ \A u \in Tasks \ {t} : pc'[u] = pc[u]
  BY DEF Goto, IInv, TypeOK
<1>2. IsFiniteSet(Holders) /\ Cardinality(Holders) \in Nat
  BY FS_Subset, FS_CardinalityType DEF Holders
<1>3. ASSUME pc[t] # "running", p = "running"
      PROVE  Cardinality(Holders)' = Cardinality(Holders) + 1
  <2>1. Holders' = Holders \cup {t} /\ t \notin Holders
    BY <1>1, <1>3 DEF Holders
  <2> QED
    BY <1>2, <2>1, FS_AddElement
<1>4. ASSUME pc[t] = "running", p # "running"
      PROVE  Cardinality(Holders)' = Cardinality(Holders) - 1 /\ Cardinality(Holders) > 0
  <2>1. Holders' = Holders \ {t} /\ t \in Holders
    BY <1>1, <1>4 DEF Holders
  <2>2. Cardinality(Holders) # 0
    BY <1>2, <2>1, FS_EmptySet
  <2>3. Cardinality(Holders \ {t}) = Cardinality(Holders) - 1
    BY <1>2, <2>1, FS_RemoveElement
  <2>4. Cardinality(Holders)' = Cardinality(Holders \ {t})
    BY <2>1
  <2>5. Cardinality(Holders) > 0
    BY <1>2, <2>2
  <2> QED
    BY <2>3, <2>4, <2>5
<1>5. ASSUME pc[t] # "running", p # "running" PROVE Holders' = Holders
  BY <1>1, <1>5 DEF Holders
<1> QED
  BY <1>1, <1>2, <1>3, <1>4, <1>5

(* What the counters say of the slots. *)
LEMMA Counted ==
    ASSUME IInv
    PROVE  /\ value \in Nat /\ active \in Nat /\ Cardinality(Granted) \in Nat /\ IsFiniteSet(Granted)
           /\ active = Cardinality(Holders)
           /\ value + active + Cardinality(Granted) = MaxConcurrent
           /\ waiters \in Seq(Tasks) /\ future \in [Tasks -> Futures]
           /\ FuturesFit /\ QueueFits
BY FS_Subset, FS_CardinalityType DEF IInv, TypeOK, PoolInv, SlotsAreConserved, Granted, Futures

(* A pending future is in the queue. *)
LEMMA PendingQueued ==
    ASSUME IInv, NEW t \in Tasks, future[t] # "none"
    PROVE  \E k \in DOMAIN waiters : waiters[k] = t
BY DEF IInv, PoolInv, FuturesFit, QueueFits

LEMMA CancelWaitIInv == ASSUME IInv, NEW t \in Tasks, CancelWait(t) PROVE IInv'
<1>1. /\ pc[t] = "waiting" /\ Goto(t, "raising")
      /\ future' = [future EXCEPT ![t] = IF @ = "pending" THEN "cancelled" ELSE @]
      /\ UNCHANGED <<tokens, stamped, elapsed, backlog, need, left, requests, value, waiters, active>>
  BY DEF CancelWait, limiter
<1>2. /\ value \in Nat /\ active \in Nat /\ waiters \in Seq(Tasks) /\ future \in [Tasks -> Futures]
      /\ FuturesFit /\ QueueFits
  BY Counted
<1>3. "raising" \in Places \ {"sleep"} /\ "raising" \in Places
  BY DEF Places
<1>4. pc'[t] = "raising" /\ \A u \in Tasks \ {t} : pc'[u] = pc[u]
  BY <1>1, <1>3, Moves
<1>5. Holders' = Holders
  BY <1>1, <1>3, Moves
<1>6. /\ future' \in [Tasks -> Futures] /\ \A u \in Tasks \ {t} : future'[u] = future[u]
      /\ future[t] = "pending" => future'[t] = "cancelled"
      /\ future[t] = "granted" => future'[t] = "granted"
  BY <1>1, <1>2 DEF Futures
<1>7. future[t] \in {"pending", "granted"}
  BY <1>1, <1>2 DEF FuturesFit
<1>8. FuturesFit'
  BY <1>2, <1>4, <1>6, <1>7 DEF FuturesFit
<1>9. QueueFits'
  BY <1>1, <1>2, <1>4 DEF QueueFits
<1>10. Granted' = Granted
  BY <1>6, <1>7 DEF Granted
<1>11. \A u \in Tasks : future'[u] = "pending" => future[u] = "pending"
  BY <1>6, <1>7
<1>12. SlotsAreConserved'
  BY <1>1, <1>5, <1>10, <1>11 DEF IInv, PoolInv, SlotsAreConserved
<1>13. PoolInv'
  BY <1>8, <1>9, <1>12 DEF PoolInv
<1> QED
  BY <1>1, <1>2, <1>3, <1>6, <1>13, PoolStepIInv

LEMMA LeavePoolIInv == ASSUME IInv, NEW t \in Tasks, LeavePool(t) PROVE IInv'
<1>1. /\ pc[t] = "running" /\ Goto(t, "idle") /\ active' = active - 1
      /\ GiveSlots(waiters, future, value + 1)
      /\ UNCHANGED <<tokens, stamped, elapsed, backlog, need, left, requests, waiters>>
  BY DEF LeavePool, limiter
<1>2. /\ value \in Nat /\ active \in Nat /\ Cardinality(Granted) \in Nat
      /\ active = Cardinality(Holders) /\ value + active + Cardinality(Granted) = MaxConcurrent
      /\ waiters \in Seq(Tasks) /\ future \in [Tasks -> Futures]
      /\ FuturesFit /\ QueueFits
  BY Counted
<1>3. "idle" \in Places \ {"sleep"} /\ "idle" \in Places
  BY DEF Places
<1>4. pc'[t] = "idle" /\ \A u \in Tasks \ {t} : pc'[u] = pc[u]
  BY <1>1, <1>3, Moves
<1>5. Cardinality(Holders)' = Cardinality(Holders) - 1 /\ Cardinality(Holders) > 0
  BY <1>1, <1>3, Moves
<1>6. value + 1 \in Nat /\ value + 1 > 0
  BY <1>2
<1>7. \A u \in Tasks : future[u] = "pending" => \E k \in DOMAIN waiters : waiters[k] = u
  BY PendingQueued
<1>8. /\ future' \in [Tasks -> Futures] /\ value' \in Nat
      /\ value' + Cardinality(GrantedIn(future')) = value + 1 + Cardinality(GrantedIn(future))
      /\ GrantedIn(future') # {} \/ \A u \in Tasks : future'[u] # "pending"
      /\ \A u \in Tasks : future'[u] = future[u] \/ (future[u] = "pending" /\ future'[u] = "granted")
  BY <1>1, <1>2, <1>6, <1>7, SlotsCount
<1>9. Granted' = GrantedIn(future') /\ Granted = GrantedIn(future)
  BY DEF Granted, GrantedIn
<1>10. FuturesFit'
  BY <1>1, <1>2, <1>4, <1>8 DEF FuturesFit
<1>11. QueueFits'
  BY <1>1, <1>2, <1>4 DEF QueueFits
<1>12. active' = Cardinality(Holders)' /\ active' \in Nat
  BY <1>1, <1>2, <1>5
<1>13. value' + active' + Cardinality(Granted)' = MaxConcurrent
  <2>1. Cardinality(GrantedIn(future')) \in Nat /\ Cardinality(GrantedIn(future)) \in Nat
    BY FS_Subset, FS_CardinalityType DEF GrantedIn
  <2>2. value + active + Cardinality(GrantedIn(future)) = MaxConcurrent
    BY <1>2, <1>9
  <2>3. value' + Cardinality(GrantedIn(future')) = value + 1 + Cardinality(GrantedIn(future))
    BY <1>8
  <2>4. value \in Nat /\ active \in Nat /\ value' \in Nat
    BY <1>2, <1>8
  <2>6. PICK w \in Nat, h \in Nat : w = value' /\ h = Cardinality(GrantedIn(future'))
    BY <2>1, <2>4
  <2>7. w + h = value + 1 + Cardinality(GrantedIn(future))
    BY <2>3, <2>6
  <2>8. w + (active - 1) + h = MaxConcurrent
    BY <2>1, <2>2, <2>4, <2>6, <2>7, SlotLeft
  <2>5. value' + (active - 1) + Cardinality(GrantedIn(future')) = MaxConcurrent
    BY <2>6, <2>8
  <2> QED
    BY <1>1, <1>9, <2>5
<1>14. SlotsAreConserved'
  BY <1>8, <1>9, <1>12, <1>13 DEF SlotsAreConserved
<1>15. PoolInv'
  BY <1>10, <1>11, <1>14 DEF PoolInv
<1>16. waiters' \in Seq(Tasks)
  BY <1>1, <1>2
<1> QED
  BY <1>1, <1>3, <1>8, <1>12, <1>15, <1>16, PoolStepIInv

LEMMA EnterPoolIInv == ASSUME IInv, NEW t \in Tasks, EnterPool(t) PROVE IInv'
<1>1. /\ pc[t] = "slot"
      /\ UNCHANGED <<tokens, stamped, elapsed, backlog, need, left, requests>>
  BY DEF EnterPool, limiter
<1>2. /\ value \in Nat /\ active \in Nat /\ Cardinality(Granted) \in Nat
      /\ active = Cardinality(Holders) /\ value + active + Cardinality(Granted) = MaxConcurrent
      /\ waiters \in Seq(Tasks) /\ future \in [Tasks -> Futures]
      /\ FuturesFit /\ QueueFits
  BY Counted
<1>3. {"running", "waiting"} \subseteq Places \ {"sleep"} /\ {"running", "waiting"} \subseteq Places
  BY DEF Places
<1>4. future[t] = "none" /\ \A k \in DOMAIN waiters : waiters[k] # t
  BY <1>1, <1>2 DEF FuturesFit, QueueFits
<1>5. CASE ~Locked
  <2>1. /\ value' = value - 1 /\ active' = active + 1 /\ Goto(t, "running")
        /\ UNCHANGED <<waiters, future>>
    BY <1>5 DEF EnterPool
  <2>2. value > 0 /\ \A u \in Tasks : future[u] # "pending"
    BY <1>2, <1>5, PendingQueued DEF Locked
  <2>3. pc'[t] = "running" /\ \A u \in Tasks \ {t} : pc'[u] = pc[u]
    BY <1>3, <2>1, Moves
  <2>4. Cardinality(Holders)' = Cardinality(Holders) + 1
    BY <1>1, <1>3, <2>1, Moves
  <2>5. Granted' = Granted
    BY <2>1 DEF Granted
  <2>6. FuturesFit' /\ QueueFits'
    <3>1. future' = future /\ waiters' = waiters
      BY <2>1
    <3>2. \A u \in Tasks \ {t} :
              /\ pc'[u] = "waiting" => future'[u] \in {"pending", "granted"}
              /\ pc'[u] = "raising" => future'[u] \in {"granted", "cancelled"}
              /\ pc'[u] \notin {"waiting", "raising"} => future'[u] = "none"
      <4> TAKE u \in Tasks \ {t}
      <4>1. pc'[u] = pc[u] /\ future'[u] = future[u]
        BY <2>3, <3>1
      <4> QED
        BY <1>2, <4>1 DEF FuturesFit
    <3>3. FuturesFit'
      <4>1. pc'[t] = "running" /\ future'[t] = "none"
        BY <1>4, <2>3, <3>1
      <4>2. ASSUME NEW u \in Tasks
            PROVE /\ pc'[u] = "waiting" => future'[u] \in {"pending", "granted"}
                  /\ pc'[u] = "raising" => future'[u] \in {"granted", "cancelled"}
                  /\ pc'[u] \notin {"waiting", "raising"} => future'[u] = "none"
        <5>1. CASE u = t
          BY <4>1, <5>1
        <5>2. CASE u # t
          BY <3>2, <5>2
        <5> QED
          BY <5>1, <5>2
      <4> QED
        BY <4>2 DEF FuturesFit
    <3>4. \A u \in Tasks \ {t} :
              pc'[u] \in {"waiting", "raising"} <=> \E k \in DOMAIN waiters' : waiters'[k] = u
      <4> TAKE u \in Tasks \ {t}
      <4>1. pc'[u] = pc[u]
        BY <2>3
      <4> QED
        BY <1>2, <3>1, <4>1 DEF QueueFits
    <3>5. pc'[t] \in {"waiting", "raising"} <=> \E k \in DOMAIN waiters' : waiters'[k] = t
      BY <1>4, <2>3, <3>1
    <3>6. \A j, k \in DOMAIN waiters' : waiters'[j] = waiters'[k] => j = k
      BY <1>2, <3>1 DEF QueueFits
    <3>7. QueueFits'
      BY <3>4, <3>5, <3>6 DEF QueueFits
    <3> QED
      BY <3>3, <3>7
  <2>7. active' = Cardinality(Holders)' /\ active' \in Nat /\ value' \in Nat
    BY <1>2, <2>1, <2>2, <2>4
  <2>8. value' + active' + Cardinality(Granted)' = MaxConcurrent
    BY <1>2, <2>1, <2>2, <2>5
  <2>9. PoolInv'
    BY <2>1, <2>2, <2>6, <2>7, <2>8 DEF PoolInv, SlotsAreConserved
  <2> QED
    BY <1>1, <1>2, <1>3, <2>1, <2>7, <2>9, PoolStepIInv
<1>6. CASE Locked
  <2>1. /\ waiters' = Append(waiters, t) /\ future' = [future EXCEPT ![t] = "pending"]
        /\ Goto(t, "waiting") /\ UNCHANGED <<value, active>>
    BY <1>6 DEF EnterPool
  <2>2. pc'[t] = "waiting" /\ \A u \in Tasks \ {t} : pc'[u] = pc[u]
    BY <1>3, <2>1, Moves
  <2>3. Holders' = Holders
    BY <1>1, <1>3, <2>1, Moves
  <2>4. /\ future' \in [Tasks -> Futures] /\ future'[t] = "pending"
        /\ \A u \in Tasks \ {t} : future'[u] = future[u]
    BY <1>2, <2>1 DEF Futures
  <2>5. Granted' = Granted
    BY <1>4, <2>4 DEF Granted
  <2>6. FuturesFit'
    BY <1>2, <2>2, <2>4 DEF FuturesFit
  <2>7. /\ waiters' \in Seq(Tasks) /\ DOMAIN waiters' = DOMAIN waiters \cup {Len(waiters) + 1}
        /\ waiters'[Len(waiters) + 1] = t /\ \A k \in DOMAIN waiters : waiters'[k] = waiters[k]
    BY <1>2, <2>1
  <2>8. QueueFits'
    <3>1. \A u \in Tasks \ {t} :
              pc'[u] \in {"waiting", "raising"} <=> \E k \in DOMAIN waiters' : waiters'[k] = u
      <4> TAKE u \in Tasks \ {t}
      <4>1. pc'[u] = pc[u] /\ u # t
        BY <2>2
      <4>2. (\E k \in DOMAIN waiters' : waiters'[k] = u) <=> \E k \in DOMAIN waiters : waiters[k] = u
        BY <2>7, <4>1
      <4> QED
        BY <1>2, <4>1, <4>2 DEF QueueFits
    <3>2. pc'[t] \in {"waiting", "raising"} <=> \E k \in DOMAIN waiters' : waiters'[k] = t
      BY <2>2, <2>7
    <3>3. ASSUME NEW j \in DOMAIN waiters', NEW k \in DOMAIN waiters', waiters'[j] = waiters'[k]
          PROVE j = k
      <4>1. \A i \in DOMAIN waiters : waiters'[i] # t
        BY <1>4, <2>7
      <4> QED
        BY <1>2, <2>7, <3>3, <4>1 DEF QueueFits
    <3> QED
      BY <3>1, <3>2, <3>3 DEF QueueFits
  <2>9. value > 0 => Granted # {}
    <3>1. SUFFICES ASSUME value > 0 PROVE Granted # {}
      OBVIOUS
    <3>2. PICK k \in DOMAIN waiters : future[waiters[k]] # "cancelled"
      BY <1>2, <1>6, <3>1 DEF Locked
    <3>3. waiters[k] \in Tasks /\ pc[waiters[k]] \in {"waiting", "raising"}
      BY <1>2, <3>2 DEF QueueFits
    <3>4. future[waiters[k]] \in {"pending", "granted"}
      BY <1>2, <3>2, <3>3 DEF FuturesFit
    <3> QED
      BY <3>1, <3>3, <3>4 DEF IInv, PoolInv, SlotsAreConserved, Granted
  <2>10. SlotsAreConserved'
    BY <1>2, <2>1, <2>3, <2>5, <2>9 DEF SlotsAreConserved
  <2>11. PoolInv'
    BY <2>6, <2>8, <2>10 DEF PoolInv
  <2> QED
    BY <1>1, <1>2, <1>3, <2>1, <2>4, <2>7, <2>11, PoolStepIInv
<1> QED
  BY <1>5, <1>6

(* A task takes its future out of the queue and goes on to p. *)
LEMMA Dropped ==
    ASSUME IInv, NEW t \in Tasks, NEW p \in Places, pc[t] \in {"waiting", "raising"},
           waiters' = Without(t), Goto(t, p), p \notin {"waiting", "raising"}
    PROVE  /\ Without(t) \in Seq(Tasks) /\ QueueFits'
           /\ [future EXCEPT ![t] = "none"] \in [Tasks -> Futures]
           /\ GrantedIn([future EXCEPT ![t] = "none"]) = Granted \ {t}
           /\ \A u \in Tasks : [future EXCEPT ![t] = "none"][u] = IF u = t THEN "none" ELSE future[u]
           /\ \A u \in Tasks : [future EXCEPT ![t] = "none"][u] = "pending" =>
                                  \E k \in DOMAIN Without(t) : Without(t)[k] = u
<1>1. waiters \in Seq(Tasks) /\ future \in [Tasks -> Futures] /\ FuturesFit /\ QueueFits
  BY Counted
<1>2. /\ Without(t) \in Seq(Tasks)
      /\ \A j, k \in DOMAIN Without(t) : Without(t)[j] = Without(t)[k] => j = k
      /\ \A u \in Tasks : (\E k \in DOMAIN Without(t) : Without(t)[k] = u)
            <=> u # t /\ \E k \in DOMAIN waiters : waiters[k] = u
  BY <1>1, WithoutIsShorter DEF QueueFits
<1>3. pc'[t] = p /\ \A u \in Tasks \ {t} : pc'[u] = pc[u]
  BY Moves
<1>4. QueueFits'
  <2>1. \A u \in Tasks : pc'[u] \in {"waiting", "raising"}
            <=> u # t /\ \E k \in DOMAIN waiters : waiters[k] = u
    BY <1>1, <1>3 DEF QueueFits
  <2>2. /\ \A j, k \in DOMAIN waiters' : waiters'[j] = waiters'[k] => j = k
        /\ \A u \in Tasks : (\E k \in DOMAIN waiters' : waiters'[k] = u)
              <=> u # t /\ \E k \in DOMAIN waiters : waiters[k] = u
    BY <1>2
  <2> QED
    BY <2>1, <2>2 DEF QueueFits
<1>5. /\ [future EXCEPT ![t] = "none"] \in [Tasks -> Futures]
      /\ \A u \in Tasks : [future EXCEPT ![t] = "none"][u] = IF u = t THEN "none" ELSE future[u]
  BY <1>1 DEF Futures
<1>6. GrantedIn([future EXCEPT ![t] = "none"]) = Granted \ {t}
  BY <1>5 DEF GrantedIn, Granted
<1>7. \A u \in Tasks : [future EXCEPT ![t] = "none"][u] = "pending" =>
                          \E k \in DOMAIN Without(t) : Without(t)[k] = u
  BY <1>2, <1>5, PendingQueued
<1> QED
  BY <1>2, <1>4, <1>5, <1>6, <1>7

(* ... and v slots are left to be given to the others. *)
LEMMA Passed ==
    ASSUME IInv, NEW t \in Tasks, NEW p \in Places, pc[t] \in {"waiting", "raising"},
           waiters' = Without(t), Goto(t, p), p \notin {"waiting", "raising"}, NEW v \in Nat,
           \/ v > 0 /\ GiveSlots(Without(t), [future EXCEPT ![t] = "none"], v)
           \/ /\ future' = [future EXCEPT ![t] = "none"] /\ value' = v
              /\ v > 0 /\ (\E u \in Tasks : future[u] = "pending") => Granted \ {t} # {}
    PROVE  /\ future' \in [Tasks -> Futures] /\ value' \in Nat /\ waiters' \in Seq(Tasks)
           /\ value' + Cardinality(GrantedIn(future')) = v + Cardinality(Granted \ {t})
           /\ value' > 0 /\ (\E u \in Tasks : future'[u] = "pending") => GrantedIn(future') # {}
           /\ FuturesFit' /\ QueueFits'
<1> DEFINE fs == [future EXCEPT ![t] = "none"]
<1>1. /\ Without(t) \in Seq(Tasks) /\ QueueFits' /\ fs \in [Tasks -> Futures]
      /\ GrantedIn(fs) = Granted \ {t}
      /\ \A u \in Tasks : fs[u] = IF u = t THEN "none" ELSE future[u]
      /\ \A u \in Tasks : fs[u] = "pending" => \E k \in DOMAIN Without(t) : Without(t)[k] = u
  BY Dropped
<1>2. pc'[t] = p /\ \A u \in Tasks \ {t} : pc'[u] = pc[u]
  BY Moves
<1>3. \/ v > 0 /\ GiveSlots(Without(t), fs, v)
      \/ /\ future' = fs /\ value' = v
         /\ v > 0 /\ (\E u \in Tasks : future[u] = "pending") => Granted \ {t} # {}
  OBVIOUS
<1> HIDE DEF fs
<1>4. /\ future' \in [Tasks -> Futures] /\ value' \in Nat
      /\ value' + Cardinality(GrantedIn(future')) = v + Cardinality(Granted \ {t})
      /\ value' > 0 /\ (\E u \in Tasks : future'[u] = "pending") => GrantedIn(future') # {}
      /\ \A u \in Tasks : future'[u] = fs[u] \/ (fs[u] = "pending" /\ future'[u] = "granted")
  <2>1. CASE v > 0 /\ GiveSlots(Without(t), fs, v)
    <3>1. /\ future' \in [Tasks -> Futures] /\ value' \in Nat
          /\ value' + Cardinality(GrantedIn(future')) = v + Cardinality(GrantedIn(fs))
          /\ GrantedIn(future') # {} \/ \A u \in Tasks : future'[u] # "pending"
          /\ \A u \in Tasks : future'[u] = fs[u] \/ (fs[u] = "pending" /\ future'[u] = "granted")
      BY <1>1, <2>1, SlotsCount
    <3> QED
      BY <1>1, <3>1
  <2>2. CASE /\ future' = fs /\ value' = v
             /\ v > 0 /\ (\E u \in Tasks : future[u] = "pending") => Granted \ {t} # {}
    <3>1. (\E u \in Tasks : future'[u] = "pending") => \E u \in Tasks : future[u] = "pending"
      BY <1>1, <2>2
    <3>2. GrantedIn(future') = Granted \ {t}
      BY <1>1, <2>2
    <3> QED
      BY <1>1, <2>2, <3>1, <3>2
  <2> QED
    BY <1>3, <2>1, <2>2
<1>5. FuturesFit'
  <2>1. FuturesFit
    BY Counted
  <2>2. ASSUME NEW u \in Tasks
        PROVE  /\ pc'[u] = "waiting" => future'[u] \in {"pending", "granted"}
               /\ pc'[u] = "raising" => future'[u] \in {"granted", "cancelled"}
               /\ pc'[u] \notin {"waiting", "raising"} => future'[u] = "none"
    <3>1. CASE u = t
      BY <1>1, <1>2, <1>4, <3>1
    <3>2. CASE u # t
      <4>1. pc'[u] = pc[u] /\ (future'[u] = future[u] \/ (future[u] = "pending" /\ future'[u] = "granted"))
        BY <1>1, <1>2, <1>4, <3>2
      <4> QED
        BY <2>1, <4>1 DEF FuturesFit
    <3> QED
      BY <3>1, <3>2
  <2> QED
    BY <2>2 DEF FuturesFit
<1> QED
  BY <1>1, <1>4, <1>5

LEMMA GrantedGone ==
    ASSUME IInv, NEW t \in Tasks
    PROVE  /\ Cardinality(Granted \ {t}) \in Nat
           /\ t \in Granted => Cardinality(Granted \ {t}) + 1 = Cardinality(Granted)
           /\ t \notin Granted => Cardinality(Granted \ {t}) = Cardinality(Granted)
<1>1. IsFiniteSet(Granted) /\ Cardinality(Granted) \in Nat
  BY Counted
<1>2. IsFiniteSet(Granted \ {t}) /\ Cardinality(Granted \ {t}) \in Nat
  BY <1>1, FS_RemoveElement, FS_CardinalityType
<1>3. Cardinality(Granted \ {t}) = IF t \in Granted THEN Cardinality(Granted) - 1 ELSE Cardinality(Granted)
  BY <1>1, FS_RemoveElement
<1> QED
  BY <1>1, <1>2, <1>3

LEMMA EnterAfterWaitIInv == ASSUME IInv, NEW t \in Tasks, EnterAfterWait(t) PROVE IInv'
<1>1. /\ pc[t] = "waiting" /\ future[t] = "granted" /\ waiters' = Without(t)
      /\ active' = active + 1 /\ Goto(t, "running")
      /\ UNCHANGED <<tokens, stamped, elapsed, backlog, need, left, requests>>
  BY DEF EnterAfterWait, limiter
<1>2. /\ value \in Nat /\ active \in Nat /\ Cardinality(Granted) \in Nat
      /\ active = Cardinality(Holders) /\ value + active + Cardinality(Granted) = MaxConcurrent
  BY Counted
<1>3. "running" \in Places \ {"sleep"} /\ "running" \in Places /\ "running" \notin {"waiting", "raising"}
  BY DEF Places
<1>4. \/ value > 0 /\ GiveSlots(Without(t), [future EXCEPT ![t] = "none"], value)
      \/ future' = [future EXCEPT ![t] = "none"] /\ value' = value /\ ~(value > 0)
  BY DEF EnterAfterWait
<1>5. /\ future' \in [Tasks -> Futures] /\ value' \in Nat /\ waiters' \in Seq(Tasks)
      /\ value' + Cardinality(GrantedIn(future')) = value + Cardinality(Granted \ {t})
      /\ value' > 0 /\ (\E u \in Tasks : future'[u] = "pending") => GrantedIn(future') # {}
      /\ FuturesFit' /\ QueueFits'
  BY <1>1, <1>2, <1>3, <1>4, Passed
<1>6. Cardinality(Granted \ {t}) \in Nat /\ Cardinality(Granted \ {t}) + 1 = Cardinality(Granted)
  BY <1>1, GrantedGone DEF Granted
<1>7. Cardinality(Holders)' = Cardinality(Holders) + 1
  BY <1>1, <1>3, Moves
<1>8. Granted' = GrantedIn(future')
  BY DEF Granted, GrantedIn
<1>9. active' = Cardinality(Holders)' /\ active' \in Nat
  BY <1>1, <1>2, <1>7
<1>10. value' + active' + Cardinality(Granted)' = MaxConcurrent
  <2>1. Cardinality(GrantedIn(future')) \in Nat
    BY FS_Subset, FS_CardinalityType DEF GrantedIn
  <2>2. PICK w \in Nat, h \in Nat : w = value' /\ h = Cardinality(GrantedIn(future'))
    BY <1>5, <2>1
  <2>3. w + h + 1 = value + Cardinality(Granted)
    <3>1. w + h = value + Cardinality(Granted \ {t})
      BY <1>5, <2>2
    <3> QED
      BY <1>2, <1>6, <3>1
  <2>4. w + (active + 1) + h = MaxConcurrent
    BY <1>2, <2>2, <2>3, SlotEntered
  <2> QED
    BY <1>1, <1>8, <2>2, <2>4
<1>11. PoolInv'
  BY <1>5, <1>8, <1>9, <1>10 DEF PoolInv, SlotsAreConserved
<1> QED
  BY <1>1, <1>3, <1>5, <1>9, <1>11, PoolStepIInv

LEMMA RaiseCancelledIInv == ASSUME IInv, NEW t \in Tasks, RaiseCancelled(t) PROVE IInv'
<1>1. /\ pc[t] = "raising" /\ waiters' = Without(t) /\ Goto(t, "idle")
      /\ UNCHANGED <<tokens, stamped, elapsed, backlog, need, left, requests, active>>
  BY DEF RaiseCancelled, limiter
<1>2. /\ value \in Nat /\ active \in Nat /\ Cardinality(Granted) \in Nat /\ FuturesFit
      /\ active = Cardinality(Holders) /\ value + active + Cardinality(Granted) = MaxConcurrent
  BY Counted
<1>3. "idle" \in Places \ {"sleep"} /\ "idle" \in Places /\ "idle" \notin {"waiting", "raising"}
  BY DEF Places
<1>4. Holders' = Holders
  BY <1>1, <1>3, Moves
<1>5. Cardinality(Granted \ {t}) \in Nat
  BY GrantedGone
<1>6. PICK v \in Nat :
        /\ v + Cardinality(Granted \ {t}) = value + Cardinality(Granted)
        /\ \/ v > 0 /\ GiveSlots(Without(t), [future EXCEPT ![t] = "none"], v)
           \/ /\ future' = [future EXCEPT ![t] = "none"] /\ value' = v
              /\ v > 0 /\ (\E u \in Tasks : future[u] = "pending") => Granted \ {t} # {}
  <2>1. CASE future[t] = "granted"
    <3>1. GiveSlots(Without(t), [future EXCEPT ![t] = "none"], value + 1)
      BY <2>1 DEF RaiseCancelled
    <3>2. Cardinality(Granted \ {t}) + 1 = Cardinality(Granted)
      BY <2>1, GrantedGone DEF Granted
    <3>3. /\ value + 1 \in Nat /\ value + 1 > 0
          /\ (value + 1) + Cardinality(Granted \ {t}) = value + Cardinality(Granted)
      BY <1>2, <1>5, <3>2
    <3> QED
      BY <3>1, <3>3
  <2>2. CASE future[t] # "granted"
    <3>1. future' = [future EXCEPT ![t] = "none"] /\ value' = value
      BY <2>2 DEF RaiseCancelled
    <3>2. Granted \ {t} = Granted
      BY <2>2 DEF Granted
    <3>3. value > 0 /\ (\E u \in Tasks : future[u] = "pending") => Granted \ {t} # {}
      BY <3>2 DEF IInv, PoolInv, SlotsAreConserved
    <3> QED
      BY <1>2, <3>1, <3>2, <3>3
  <2> QED
    BY <2>1, <2>2
<1>7. /\ future' \in [Tasks -> Futures] /\ value' \in Nat /\ waiters' \in Seq(Tasks)
      /\ value' + Cardinality(GrantedIn(future')) = v + Cardinality(Granted \ {t})
      /\ value' > 0 /\ (\E u \in Tasks : future'[u] = "pending") => GrantedIn(future') # {}
      /\ FuturesFit' /\ QueueFits'
  BY <1>1, <1>3, <1>6, Passed
<1>8. Granted' = GrantedIn(future')
  BY DEF Granted, GrantedIn
<1>9. active' = Cardinality(Holders)' /\ active' \in Nat
  BY <1>1, <1>2, <1>4
<1>10. value' + active' + Cardinality(Granted)' = MaxConcurrent
  <2>1. Cardinality(GrantedIn(future')) \in Nat
    BY FS_Subset, FS_CardinalityType DEF GrantedIn
  <2>2. PICK w \in Nat, h \in Nat : w = value' /\ h = Cardinality(GrantedIn(future'))
    BY <1>7, <2>1
  <2>3. w + h = value + Cardinality(Granted)
    BY <1>6, <1>7, <2>2
  <2>4. w + active + h = MaxConcurrent
    BY <1>2, <2>2, <2>3, SlotPassed
  <2> QED
    BY <1>1, <1>8, <2>2, <2>4
<1>11. PoolInv'
  BY <1>7, <1>8, <1>9, <1>10 DEF PoolInv, SlotsAreConserved
<1> QED
  BY <1>1, <1>3, <1>7, <1>9, <1>11, PoolStepIInv

-----------------------------------------------------------------------------

LEMMA NextIInv == IInv /\ [Next]_vars => IInv'
<1> SUFFICES ASSUME IInv, [Next]_vars PROVE IInv'
  OBVIOUS
<1>1. ASSUME NEW t \in Tasks, NEW n \in Amounts, Acquire(t, n) PROVE IInv'
  BY <1>1, AcquireIInv
<1>2. ASSUME NEW t \in Tasks, NEW n \in Amounts, TryAcquire(t, n) PROVE IInv'
  BY <1>2, TryAcquireIInv
<1>3. ASSUME NEW t \in Tasks, Proceed(t) PROVE IInv'
  BY <1>3, WakeUpIInv, EnterPoolIInv, EnterAfterWaitIInv, LeavePoolIInv, RaiseCancelledIInv DEF Proceed
<1>4. ASSUME NEW t \in Tasks, CancelSleep(t) PROVE IInv'
  BY <1>4, CancelSleepIInv
<1>5. ASSUME NEW t \in Tasks, CancelWait(t) PROVE IInv'
  BY <1>5, CancelWaitIInv
<1>6. CASE AvailableTokens
  BY <1>6, AvailableTokensIInv
<1>7. CASE Tick
  BY <1>7, TickIInv
<1>8. CASE UNCHANGED vars
  BY <1>8
  DEF IInv, TypeOK, PoolInv, FuturesFit, QueueFits, SlotsAreConserved, Holders, Granted,
      RateInv, Refilled, vars
<1> QED
  BY <1>1, <1>2, <1>3, <1>4, <1>5, <1>6, <1>7, <1>8 DEF Next

(* The bucket never holds more than its size, the counters of the pool     *)
(* stay between nothing and all its slots, and the queue of the semaphore  *)
(* and its futures have their types (RateLimiter, ConcurrencyPool).        *)
THEOREM TypeCorrect == Spec => []TypeOK
<1>1. IInv => TypeOK
  BY DEF IInv
<1> QED
  BY InitIInv, NextIInv, <1>1, PTL DEF Spec

(* However tasks enter, leave, fail and are cancelled, no slot of the pool *)
(* is lost or given twice, _active counts the tasks inside, and no slot    *)
(* lies idle beside a task that waits for one (ConcurrencyPool.acquire).   *)
THEOREM SlotsStayConserved == Spec => []SlotsAreConserved
<1>1. IInv => SlotsAreConserved
  BY DEF IInv, PoolInv
<1> QED
  BY InitIInv, NextIInv, <1>1, PTL DEF Spec

(* Whoever refills the bucket and however late, no window of any length    *)
(* lets through more than the burst and what the rate earns in it          *)
(* (RateLimiter._refill).                                                  *)
THEOREM RateStaysRespected == Spec => []RateIsRespected
<1>1. IInv => RateIsRespected
  <2> SUFFICES ASSUME IInv PROVE backlog <= Burst
    BY DEF RateIsRespected
  <2>1. Refilled \in 0..Burst /\ backlog \in Nat /\ Burst \in Nat
    BY LevelType DEF IInv, TypeOK
  <2>2. CASE stamped
    BY <2>1, <2>2 DEF IInv, RateInv
  <2>3. CASE ~stamped
    BY <2>1, <2>3 DEF IInv, RateInv
  <2> QED
    BY <2>2, <2>3
<1> QED
  BY InitIInv, NextIInv, <1>1, PTL DEF Spec

=============================================================================
