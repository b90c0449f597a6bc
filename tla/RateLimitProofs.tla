---------------------------- MODULE RateLimitProofs ----------------------------
(***************************************************************************)
(* Proofs about RateLimit, for every list of policies, every set of clients *)
(* and workers and every resolution of the clock.                           *)
(***************************************************************************)
EXTENDS RateLimit, SequenceTheorems, TLAPS

(***************************************************************************)
(* The inductive invariant.  A counter never says more than was counted,    *)
(* and it says at least what was admitted until its window closes: the      *)
(* retention process only deletes what was closed at a time that is past.   *)
(***************************************************************************)
CountsAreBacked == \A k \in Keys : counters[RowOf(k)] <= counted[k]
AdmissionsAreCounted == \A k \in Keys : Open(k) => admitted[k] <= counters[RowOf(k)]

IInv ==
    /\ TypeOK
    /\ cleaner.now <= clock
    /\ CountsAreBacked
    /\ AdmissionsAreCounted
    /\ LimitHolds
    /\ DenialIsEarned

-----------------------------------------------------------------------------
(* Policies and windows.                                                    *)

LEMMA PolicyFacts ==
    ASSUME NEW i \in PolicyIds
    PROVE  /\ Policies[i].seconds \in Nat \ {0}
           /\ Policies[i].limit \in Nat
           /\ i \in Nat
<1> DEFINE P == [limit : Nat, seconds : Nat \ {0}, covers : SUBSET Routes]
<1>1. Policies \in Seq(P)
  BY PoliciesAssumption
<1>2. i \in 1 .. Len(Policies) /\ Len(Policies) \in Nat
  BY <1>1, LenProperties DEF PolicyIds
<1>3. Policies[i] \in P
  BY <1>1, <1>2, ElementOfSeq
<1> QED BY <1>2, <1>3

LEMMA LengthIsPositive ==
    ASSUME NEW i \in PolicyIds
    PROVE  Length(i) \in Nat /\ Limit(i) \in Nat
<1> DEFINE s == Policies[i].seconds
<1>1. s \in Nat /\ Second \in Nat
  BY PolicyFacts, BoundsAssumption
<1>2. s * Second \in Nat
  BY <1>1
<1> QED BY <1>2, PolicyFacts DEF Length, Limit

LEMMA FloorIsBelow ==
    ASSUME NEW n \in Nat, NEW d \in Nat \ {0}
    PROVE  n - (n % d) \in Nat /\ n - (n % d) <= n
  OBVIOUS

LEMMA WholeIsBelow ==
    ASSUME NEW n \in Nat, NEW d \in Nat \ {0}, NEW m \in Nat, m <= n \div d
    PROVE  m * d \in Nat /\ m * d <= n
<1>1. n = d * (n \div d) + (n % d) /\ n % d \in 0 .. (d - 1) /\ n \div d \in Nat
  OBVIOUS
<1>2. m * d <= (n \div d) * d
  BY <1>1, Z3
<1> QED BY <1>1, <1>2, Z3

LEMMA WindowStartIsPast ==
    ASSUME NEW now \in 0 .. MaxClock, NEW i \in PolicyIds
    PROVE  WindowStart(now, i) \in 0 .. MaxClock
<1> DEFINE s == now \div Second
           m == s - (s % Policies[i].seconds)
<1>1. now \in Nat /\ Second \in Nat \ {0} /\ MaxClock \in Nat
  BY BoundsAssumption
<1>2. s \in Nat
  BY <1>1
<1>3. m \in Nat /\ m <= s
  BY <1>2, PolicyFacts, FloorIsBelow
<1>4. m * Second \in Nat /\ m * Second <= now
  BY <1>1, <1>3, WholeIsBelow
<1> QED BY <1>1, <1>4 DEF WindowStart

-----------------------------------------------------------------------------
(* Keys, rows and request states.                                           *)

LEMMA KeyFacts ==
    ASSUME NEW k \in Keys
    PROVE  /\ RowOf(k) \in Rows
           /\ k.policy \in PolicyIds
           /\ Limit(k.policy) \in Nat
           /\ Length(k.policy) \in Nat
           /\ WindowEnd(k) \in Nat
           /\ WindowEnd(k) = RowOf(k)[2] + Length(RowOf(k)[1][1])
<1>1. k.policy \in PolicyIds /\ k.client \in Clients /\ k.start \in 0 .. MaxClock
  BY DEF Keys
<1>2. Limit(k.policy) \in Nat /\ Length(k.policy) \in Nat
  BY <1>1, LengthIsPositive
<1>3. k.start \in Nat
  BY <1>1, BoundsAssumption
<1> QED BY <1>1, <1>2, <1>3 DEF RowOf, Rows, Bucket, WindowEnd

\* Two keys share a row only if they are the same: no request is counted
\* against another client, policy or window.
LEMMA RowsAreSeparate ==
    ASSUME NEW j \in Keys, NEW k \in Keys, RowOf(j) = RowOf(k)
    PROVE  j = k
<1>1. j.policy = k.policy /\ j.client = k.client /\ j.start = k.start
  BY DEF RowOf, Bucket
<1> QED BY <1>1 DEF Keys

LEMMA CountingIsTyped ==
    ASSUME clock \in 0 .. MaxClock, NEW i \in PolicyIds, NEW c \in Clients
    PROVE  Counting(i, c) \in RequestState
<1>1. WindowStart(clock, i) \in 0 .. MaxClock
  BY WindowStartIsPast
<1>2. [policy |-> i, client |-> c, start |-> WindowStart(clock, i)] \in Keys
  BY <1>1 DEF Keys
<1> QED BY <1>2 DEF Counting, RequestState

LEMMA DeniedIsTyped ==
    ASSUME clock \in 0 .. MaxClock, NEW q \in RequestState, q.pc = "counting"
    PROVE  Denied(q) \in RequestState
<1>1. q.key \in Keys /\ q.now \in 0 .. MaxClock
  BY DEF RequestState, Idle
<1>2. clock \in Nat /\ q.now \in Int /\ Second \in Nat \ {0}
  BY <1>1, BoundsAssumption
<1>3. WindowEnd(q.key) - q.now \in Int
  BY <1>1, <1>2, KeyFacts
<1>4. (WindowEnd(q.key) - q.now) \div Second \in Int
  BY <1>2, <1>3
<1>5. RetryAfter(q) \in Nat
  BY <1>4 DEF RetryAfter
<1>6. clock + RetryAfter(q) * Second \in Nat
  BY <1>2, <1>5
<1> QED BY <1>1, <1>6 DEF Denied, RequestState

-----------------------------------------------------------------------------
(* One lemma per kind of step.                                               *)

\* Steps that change nothing but the requests.
LEMMA RequestStepKeeps ==
    ASSUME IInv, req' \in [Requests -> RequestState],
           UNCHANGED <<clock, counters, cleaner, counted, admitted, denied>>
    PROVE  IInv'
  BY DEF IInv, TypeOK, CountsAreBacked, AdmissionsAreCounted, LimitHolds, DenialIsEarned,
         Open, WindowEnd

LEMMA ArriveKeeps ==
    ASSUME IInv, NEW r \in Requests, Arrive(r)
    PROVE  IInv'
<1>0. PICK route \in Routes, c \in Clients :
        \E i \in PolicyFor(route) : Become(r, Counting(i, c))
  BY DEF Arrive
<1>1. PICK i \in PolicyFor(route) : Become(r, Counting(i, c))
  BY <1>0
<1>2. i \in PolicyIds
  BY DEF PolicyFor
<1>3. Counting(i, c) \in RequestState
  BY <1>2, CountingIsTyped DEF IInv, TypeOK
<1>4. req' \in [Requests -> RequestState]
  BY <1>1, <1>3 DEF Become, IInv, TypeOK
<1> QED BY <1>4, RequestStepKeeps DEF Arrive

LEMMA BecomeIdle ==
    ASSUME IInv, NEW r \in Requests, Become(r, Idle)
    PROVE  req' \in [Requests -> RequestState]
  BY DEF Become, IInv, TypeOK, RequestState

LEMMA RetryKeeps ==
    ASSUME IInv, NEW r \in Requests, Retry(r)
    PROVE  IInv'
<1> DEFINE k == req[r].key
<1>1. k \in Keys
  BY DEF Retry, At, IInv, TypeOK, RequestState, Idle
<1>2. Counting(k.policy, k.client) \in RequestState
  BY <1>1, CountingIsTyped DEF Keys, IInv, TypeOK
<1>3. req' \in [Requests -> RequestState]
  <2>1. CASE Become(r, Idle)
    BY <2>1, BecomeIdle
  <2>2. CASE Become(r, Counting(k.policy, k.client))
    BY <1>2, <2>2 DEF Become, IInv, TypeOK
  <2> QED BY <2>1, <2>2 DEF Retry
<1> QED BY <1>3, RequestStepKeeps DEF Retry

\* An increment: the row and the history of its key grow together.
LEMMA CountKeeps ==
    ASSUME IInv, NEW r \in Requests, Count(r)
    PROVE  IInv'
<1> DEFINE q == req[r]
           k == q.key
           row == RowOf(k)
           hits == counters[row] + 1
<1>1. q \in RequestState /\ q.pc = "counting" /\ k \in Keys
  BY DEF Count, At, IInv, TypeOK, RequestState, Idle
<1>2. row \in Rows /\ Limit(k.policy) \in Nat /\ counters[row] \in Nat
  BY <1>1, KeyFacts DEF IInv, TypeOK
<1>3. /\ counters' = [counters EXCEPT ![row] = hits]
      /\ counted' = [counted EXCEPT ![k] = @ + 1]
      /\ UNCHANGED <<clock, cleaner>>
  BY DEF Count, Hits
<1>4. \/ /\ hits <= Limit(k.policy)
         /\ admitted' = [admitted EXCEPT ![k] = @ + 1]
         /\ Become(r, Idle)
         /\ denied' = denied
      \/ /\ hits > Limit(k.policy)
         /\ denied' = denied \cup {k}
         /\ Become(r, Denied(q))
         /\ admitted' = admitted
      \/ /\ Become(r, Idle)
         /\ admitted' = admitted
         /\ denied' = denied
  BY DEF Count, Hits
<1>5. req' \in [Requests -> RequestState]
  <2>1. CASE Become(r, Idle)
    BY <2>1, BecomeIdle
  <2>2. CASE Become(r, Denied(q))
    <3>1. Denied(q) \in RequestState
      BY <1>1, DeniedIsTyped DEF IInv, TypeOK
    <3> QED BY <2>2, <3>1 DEF Become, IInv, TypeOK
  <2> QED BY <1>4, <2>1, <2>2
<1>6. counters' \in [Rows -> Nat] /\ counted' \in [Keys -> Nat] /\ denied' \subseteq Keys
  BY <1>1, <1>2, <1>3, <1>4 DEF IInv, TypeOK
<1>7. admitted' \in [Keys -> Nat]
  BY <1>1, <1>4 DEF IInv, TypeOK
<1>8. \A j \in Keys : j # k => RowOf(j) # row
  BY <1>1, RowsAreSeparate
<1>9. \A j \in Keys : RowOf(j) \in Rows
  BY KeyFacts
<1>10. CountsAreBacked'
  <2> SUFFICES ASSUME NEW j \in Keys PROVE counters'[RowOf(j)] <= counted'[j]
    BY DEF CountsAreBacked, RowOf, Bucket
  <2>1. counters[RowOf(j)] <= counted[j] /\ counters[RowOf(j)] \in Nat /\ counted[j] \in Nat
    BY <1>9 DEF IInv, CountsAreBacked, TypeOK
  <2>2. CASE j = k
    <3>1. counters'[row] = counters[row] + 1 /\ counted'[k] = counted[k] + 1
      BY <1>1, <1>2, <1>3 DEF IInv, TypeOK
    <3> QED BY <2>1, <2>2, <3>1
  <2>3. CASE j # k
    <3>1. counters'[RowOf(j)] = counters[RowOf(j)] /\ counted'[j] = counted[j]
      BY <1>3, <1>8, <1>9, <2>3 DEF IInv, TypeOK
    <3> QED BY <2>1, <3>1
  <2> QED BY <2>2, <2>3
<1>11. AdmissionsAreCounted' /\ LimitHolds'
  <2> SUFFICES ASSUME NEW j \in Keys, Open(j)'
               PROVE  admitted'[j] <= counters'[RowOf(j)] /\ admitted'[j] <= Limit(j.policy)
    BY DEF AdmissionsAreCounted, LimitHolds, RowOf, Bucket, Limit
  <2>1. Open(j)
    BY <1>3 DEF Open, WindowEnd
  <2>2. /\ admitted[j] <= counters[RowOf(j)] /\ admitted[j] <= Limit(j.policy)
        /\ counters[RowOf(j)] \in Nat /\ admitted[j] \in Nat /\ Limit(j.policy) \in Nat
    BY <1>9, <2>1, KeyFacts DEF IInv, AdmissionsAreCounted, LimitHolds, TypeOK
  <2>3. CASE j = k
    <3>1. counters'[row] = hits
      BY <1>2, <1>3 DEF IInv, TypeOK
    <3>2. \/ admitted'[k] = admitted[k]
          \/ admitted'[k] = admitted[k] + 1 /\ hits <= Limit(k.policy)
      BY <1>1, <1>4 DEF IInv, TypeOK
    <3> QED BY <2>2, <2>3, <3>1, <3>2
  <2>4. CASE j # k
    <3>1. counters'[RowOf(j)] = counters[RowOf(j)]
      BY <1>3, <1>8, <1>9, <2>4 DEF IInv, TypeOK
    <3>2. admitted'[j] = admitted[j]
      BY <1>4, <2>4 DEF IInv, TypeOK
    <3> QED BY <2>2, <3>1, <3>2
  <2> QED BY <2>3, <2>4
<1>12. DenialIsEarned'
  <2> SUFFICES ASSUME NEW j \in denied' PROVE counted'[j] > Limit(j.policy)
    BY DEF DenialIsEarned, Limit
  <2>1. j \in Keys
    BY <1>6
  <2>2. counted[j] \in Nat /\ Limit(j.policy) \in Nat /\ counters[row] <= counted[k] /\ counted[k] \in Nat
    BY <1>1, <2>1, KeyFacts DEF IInv, TypeOK, CountsAreBacked
  <2>3. counted'[j] = IF j = k THEN counted[j] + 1 ELSE counted[j]
    BY <1>1, <1>3, <2>1 DEF IInv, TypeOK
  <2>4. CASE j \in denied
    <3>1. counted[j] > Limit(j.policy)
      BY <2>4 DEF IInv, DenialIsEarned
    <3> QED BY <2>2, <2>3, <3>1
  <2>5. CASE j \notin denied
    <3>1. j = k /\ hits > Limit(k.policy)
      BY <1>4, <2>5
    <3> QED BY <1>2, <2>2, <2>3, <3>1
  <2> QED BY <2>4, <2>5
<1> QED BY <1>3, <1>5, <1>6, <1>7, <1>10, <1>11, <1>12 DEF IInv, TypeOK

\* The retention process deletes no counter of an open window.
LEMMA CleanerKeeps ==
    ASSUME IInv, Cleaner
    PROVE  IInv'
<1>1. CASE CleanerStart \/ CleanerFail
  <2>1. cleaner' \in [pc : {"idle", "delete"}, now : 0 .. MaxClock] /\ cleaner'.now <= clock
    <3>1. clock \in 0 .. MaxClock /\ 0 \in 0 .. MaxClock /\ 0 <= clock /\ clock <= clock
      BY BoundsAssumption DEF IInv, TypeOK
    <3> QED BY <1>1, <3>1 DEF CleanerStart, CleanerFail, CleanerIdle
  <2>2. UNCHANGED <<clock, counters, req, counted, admitted, denied>>
    BY <1>1 DEF CleanerStart, CleanerFail
  <2> QED BY <2>1, <2>2 DEF IInv, TypeOK, CountsAreBacked, AdmissionsAreCounted, LimitHolds,
                             DenialIsEarned, Open, WindowEnd
<1>2. CASE CleanerDelete
  <2>1. /\ counters' = [row \in Rows |-> IF Expired(row, cleaner.now) THEN 0 ELSE counters[row]]
        /\ cleaner' = CleanerIdle
        /\ UNCHANGED <<clock, req, counted, admitted, denied>>
    BY <1>2 DEF CleanerDelete
  <2>2. counters' \in [Rows -> Nat]
    BY <2>1 DEF IInv, TypeOK
  <2>3. cleaner' \in [pc : {"idle", "delete"}, now : 0 .. MaxClock] /\ cleaner'.now <= clock
    <3>1. 0 \in 0 .. MaxClock /\ 0 <= clock
      BY BoundsAssumption DEF IInv, TypeOK
    <3> QED BY <2>1, <3>1 DEF CleanerIdle
  <2>4. CountsAreBacked'
    <3> SUFFICES ASSUME NEW j \in Keys PROVE counters'[RowOf(j)] <= counted'[j]
      BY DEF CountsAreBacked, RowOf, Bucket
    <3>1. RowOf(j) \in Rows
      BY KeyFacts
    <3>2. counters'[RowOf(j)] \in {0, counters[RowOf(j)]}
      BY <2>1, <3>1
    <3>3. counters[RowOf(j)] <= counted[j] /\ counted[j] \in Nat
      BY DEF IInv, CountsAreBacked, TypeOK
    <3> QED BY <2>1, <3>2, <3>3
  <2>5. AdmissionsAreCounted'
    <3> SUFFICES ASSUME NEW j \in Keys, Open(j)' PROVE admitted'[j] <= counters'[RowOf(j)]
      BY DEF AdmissionsAreCounted, RowOf, Bucket
    <3>1. Open(j) /\ RowOf(j) \in Rows /\ WindowEnd(j) \in Nat
      BY <2>1, KeyFacts DEF Open, WindowEnd
    <3>2. clock \in Nat /\ cleaner.now \in Nat /\ cleaner.now <= clock /\ clock < WindowEnd(j)
      BY <3>1, BoundsAssumption DEF IInv, TypeOK, Open
    <3>3. ~(WindowEnd(j) <= cleaner.now)
      BY <3>1, <3>2
    <3>4. ~Expired(RowOf(j), cleaner.now)
      BY <3>3, KeyFacts DEF Expired
    <3>5. counters'[RowOf(j)] = counters[RowOf(j)]
      BY <2>1, <3>1, <3>4
    <3> QED BY <2>1, <3>1, <3>5 DEF IInv, AdmissionsAreCounted
  <2>6. LimitHolds' /\ DenialIsEarned'
    BY <2>1 DEF IInv, LimitHolds, DenialIsEarned, Open, WindowEnd
  <2> QED BY <2>1, <2>2, <2>3, <2>4, <2>5, <2>6 DEF IInv, TypeOK
<1> QED BY <1>1, <1>2 DEF Cleaner

LEMMA TickKeeps ==
    ASSUME IInv, Tick
    PROVE  IInv'
<1>1. clock' = clock + 1 /\ clock < MaxClock /\ clock \in Nat /\ cleaner.now \in Nat
  BY BoundsAssumption DEF Tick, IInv, TypeOK
<1>2. clock' \in 0 .. MaxClock /\ cleaner.now <= clock'
  BY <1>1, BoundsAssumption DEF IInv
<1>3. \A k \in Keys : Open(k)' => Open(k)
  <2> SUFFICES ASSUME NEW k \in Keys, clock' < WindowEnd(k) PROVE clock < WindowEnd(k)
    BY DEF Open, WindowEnd
  <2>1. WindowEnd(k) \in Nat
    BY KeyFacts
  <2> QED BY <1>1, <2>1
<1>4. UNCHANGED <<counters, req, cleaner, counted, admitted, denied>>
  BY DEF Tick
<1>5. TypeOK'
  BY <1>2, <1>4 DEF IInv, TypeOK
<1>6. AdmissionsAreCounted' /\ LimitHolds'
  BY <1>3, <1>4 DEF IInv, AdmissionsAreCounted, LimitHolds
<1> QED BY <1>2, <1>4, <1>5, <1>6 DEF IInv, CountsAreBacked, DenialIsEarned

-----------------------------------------------------------------------------
LEMMA InitEstablishes == Init => IInv
<1> SUFFICES ASSUME Init PROVE IInv
  OBVIOUS
<1>1. 0 \in 0 .. MaxClock
  BY BoundsAssumption
<1>2. TypeOK
  BY <1>1 DEF Init, TypeOK, RequestState, CleanerIdle
<1>3. \A k \in Keys : RowOf(k) \in Rows /\ Limit(k.policy) \in Nat
  BY KeyFacts
<1>4. \A k \in Keys : counters[RowOf(k)] = 0 /\ counted[k] = 0 /\ admitted[k] = 0
  BY <1>3 DEF Init
<1>5. CountsAreBacked /\ AdmissionsAreCounted /\ LimitHolds
  BY <1>3, <1>4 DEF CountsAreBacked, AdmissionsAreCounted, LimitHolds
<1> QED BY <1>2, <1>5 DEF Init, IInv, CleanerIdle, DenialIsEarned

LEMMA NextKeeps == IInv /\ [Next]_vars => IInv'
<1> SUFFICES ASSUME IInv, [Next]_vars PROVE IInv'
  OBVIOUS
<1>1. CASE \E r \in Requests : Check(r)
  <2>1. PICK r \in Requests : Check(r)
    BY <1>1
  <2>2. CASE FailOpen(r)
    <3>1. req' \in [Requests -> RequestState]
      BY <2>2, BecomeIdle DEF FailOpen
    <3> QED BY <2>2, <3>1, RequestStepKeeps DEF FailOpen
  <2> QED BY <2>1, <2>2, ArriveKeeps, CountKeeps, RetryKeeps DEF Check
<1>2. CASE UNCHANGED vars
  BY <1>2, RequestStepKeeps DEF vars, IInv, TypeOK
<1> QED BY <1>1, <1>2, CleanerKeeps, TickKeeps DEF Next

LEMMA Invariance == Spec => []IInv
<1> QED BY InitEstablishes, NextKeeps, PTL DEF Spec

\* Every variable keeps its type: in particular every window starts on the clock.
THEOREM RateLimitTypeCorrect == Spec => []TypeOK
<1>1. IInv => TypeOK
  BY DEF IInv
<1> QED BY <1>1, Invariance, PTL

\* No policy lets more counted requests of a client through than its limit
\* while the window is open, for any number of workers and any policies.
THEOREM LimitHoldsAlways == Spec => []LimitHolds
<1>1. IInv => LimitHolds
  BY DEF IInv
<1> QED BY <1>1, Invariance, PTL

\* A 429 is always backed by more requests of the same client, under the same
\* policy and in the same window, than the limit allows.
THEOREM DenialIsEarnedAlways == Spec => []DenialIsEarned
<1>1. IInv => DenialIsEarned
  BY DEF IInv
<1> QED BY <1>1, Invariance, PTL

-----------------------------------------------------------------------------
(* Retry-After.  What is left of the window is cut to whole seconds, and    *)
(* the request may have waited since it read the clock: the time it is told *)
(* to wait from its answer ends within a second of the window's end, or     *)
(* behind it.                                                               *)

Timely(state) ==
    /\ state.pc = "counting" => state.now <= clock
    /\ state.pc = "denied" => WindowEnd(state.key) < state.retryAt + Second

WaitsAreTimely == \A r \in Requests : Timely(req[r])

LEMMA WholeIsAlmostAll ==
    ASSUME NEW n \in Int, NEW d \in Nat \ {0}
    PROVE  n \div d \in Int /\ n < (n \div d) * d + d
<1>1. n = d * (n \div d) + (n % d) /\ n % d \in 0 .. (d - 1) /\ n \div d \in Int
  OBVIOUS
<1> QED BY <1>1, Z3

LEMMA DeniedIsTimely ==
    ASSUME clock \in 0 .. MaxClock, NEW q \in RequestState, q.pc = "counting", q.now <= clock
    PROVE  Timely(Denied(q))
<1> DEFINE left == WindowEnd(q.key) - q.now
           whole == left \div Second
           wait == RetryAfter(q)
<1>1. q.key \in Keys /\ q.now \in 0 .. MaxClock
  BY DEF RequestState, Idle
<1>2. clock \in Nat /\ q.now \in Nat /\ WindowEnd(q.key) \in Nat /\ Second \in Nat \ {0}
  BY <1>1, KeyFacts, BoundsAssumption
<1>3. left \in Int /\ WindowEnd(q.key) = q.now + left
  BY <1>2
<1> HIDE DEF left
<1>4. whole \in Int /\ left < whole * Second + Second
  BY <1>2, <1>3, WholeIsAlmostAll
<1>5. wait \in Nat /\ whole <= wait
  BY <1>4 DEF RetryAfter, left
<1> HIDE DEF whole, wait
<1>6. whole * Second <= wait * Second /\ wait * Second \in Nat /\ whole * Second \in Int
  BY <1>2, <1>4, <1>5, Z3
<1>7. WindowEnd(q.key) < (clock + wait * Second) + Second
  BY <1>2, <1>3, <1>4, <1>6
<1> QED BY <1>7 DEF Denied, Timely, wait

LEMMA RestIsTimely ==
    ASSUME clock \in 0 .. MaxClock
    PROVE  /\ Timely(Idle)
           /\ \A i \in PolicyIds, c \in Clients : Timely(Counting(i, c))
<1>1. clock <= clock
  BY BoundsAssumption
<1> QED BY <1>1 DEF Timely, Idle, Counting

LEMMA TimelyStep == IInv /\ WaitsAreTimely /\ [Next]_vars => WaitsAreTimely'
<1> SUFFICES ASSUME IInv, WaitsAreTimely, [Next]_vars PROVE WaitsAreTimely'
  OBVIOUS
<1>0. clock \in 0 .. MaxClock /\ req \in [Requests -> RequestState]
  BY DEF IInv, TypeOK
<1>1. ASSUME NEW r \in Requests, NEW state, Become(r, state), Timely(state), UNCHANGED clock
      PROVE  WaitsAreTimely'
  BY <1>0, <1>1 DEF WaitsAreTimely, Become, Timely, WindowEnd
<1>2. ASSUME UNCHANGED <<req, clock>>
      PROVE  WaitsAreTimely'
  BY <1>2 DEF WaitsAreTimely, Timely, WindowEnd
<1>3. CASE \E r \in Requests : Check(r)
  <2>1. PICK r \in Requests : Check(r)
    BY <1>3
  <2>2. UNCHANGED clock
    BY <2>1 DEF Check, Arrive, Count, FailOpen, Retry
  <2>3. CASE Become(r, Idle)
    BY <1>0, <1>1, <2>2, <2>3, RestIsTimely
  <2>4. CASE Arrive(r)
    <3>1. PICK w \in Routes, c \in Clients : \E i \in PolicyFor(w) : Become(r, Counting(i, c))
      BY <2>4 DEF Arrive
    <3>2. PICK i \in PolicyFor(w) : Become(r, Counting(i, c))
      BY <3>1
    <3>3. i \in PolicyIds
      BY DEF PolicyFor
    <3> QED BY <1>0, <1>1, <2>2, <3>2, <3>3, RestIsTimely
  <2>5. CASE Count(r) /\ Become(r, Denied(req[r]))
    <3>1. req[r] \in RequestState /\ req[r].pc = "counting" /\ req[r].now <= clock
      BY <1>0, <2>5 DEF Count, At, WaitsAreTimely, Timely
    <3>2. Timely(Denied(req[r]))
      BY <1>0, <3>1, DeniedIsTimely
    <3> QED BY <1>1, <2>2, <2>5, <3>2
  <2>6. CASE Retry(r) /\ Become(r, Counting(req[r].key.policy, req[r].key.client))
    <3>1. req[r].key \in Keys
      BY <1>0, <2>6 DEF Retry, At, RequestState, Idle
    <3>2. Timely(Counting(req[r].key.policy, req[r].key.client))
      BY <1>0, <3>1, RestIsTimely DEF Keys
    <3> QED BY <1>1, <2>2, <2>6, <3>2
  <2> QED BY <2>1, <2>3, <2>4, <2>5, <2>6 DEF Check, Count, FailOpen, Retry
<1>4. CASE Cleaner \/ UNCHANGED vars
  BY <1>2, <1>4 DEF Cleaner, CleanerStart, CleanerDelete, CleanerFail, vars
<1>5. CASE Tick
  <2>1. clock' = clock + 1 /\ req' = req /\ clock \in Nat
    BY <1>0, <1>5, BoundsAssumption DEF Tick
  <2>2. SUFFICES ASSUME NEW r \in Requests, req[r].pc = "counting" PROVE req[r].now <= clock'
    BY <2>1 DEF WaitsAreTimely, Timely, WindowEnd
  <2>3. req[r].now \in Nat /\ req[r].now <= clock
    BY <1>0, <2>2, BoundsAssumption DEF RequestState, Idle, WaitsAreTimely, Timely
  <2> QED BY <2>1, <2>3
<1> QED BY <1>3, <1>4, <1>5 DEF Next

LEMMA TimelyInit == Init => WaitsAreTimely
  BY DEF Init, WaitsAreTimely, Timely, Idle

\* A client that waits as it was told comes back to a window that is over or in
\* its last second, at any resolution of the clock.
THEOREM RetryIsNearlyRightAlways == Spec => RetryIsNearlyRight
<1>1. ASSUME IInv, WaitsAreTimely, [Next]_vars,
             NEW r \in Requests, At(r, "denied"), req'[r].pc = "counting"
      PROVE  WindowEnd(req[r].key) < clock + Second
  <2>0. clock \in Nat /\ Second \in Nat /\ req \in [Requests -> RequestState]
    BY <1>1, BoundsAssumption DEF IInv, TypeOK
  <2>1. PICK s \in Requests : Check(s) /\ req'[r] # req[r]
    BY <1>1 DEF Next, Cleaner, CleanerStart, CleanerDelete, CleanerFail, Tick, vars, At
  <2>2. s = r
    BY <2>0, <2>1 DEF Check, Arrive, Count, FailOpen, Retry, Become
  <2>3. Retry(r) /\ clock >= req[r].retryAt
    BY <1>1, <2>0, <2>1, <2>2 DEF Check, Arrive, Count, FailOpen, Retry, Become, At, Idle
  <2>4. req[r].key \in Keys /\ req[r].retryAt \in Nat
    BY <1>1, <2>0 DEF At, RequestState, Idle
  <2>5. WindowEnd(req[r].key) \in Nat
    BY <2>4, KeyFacts
  <2>6. WindowEnd(req[r].key) < req[r].retryAt + Second
    BY <1>1 DEF WaitsAreTimely, Timely, At
  <2> QED BY <2>0, <2>3, <2>4, <2>5, <2>6
<1>2. IInv /\ WaitsAreTimely /\ [Next]_vars =>
        [\A r \in Requests :
            At(r, "denied") /\ req'[r].pc = "counting" => WindowEnd(req[r].key) < clock + Second]_vars
  BY <1>1
<1>3. Spec => []WaitsAreTimely
  BY Invariance, TimelyInit, TimelyStep, PTL DEF Spec
<1> QED BY <1>2, <1>3, Invariance, PTL DEF Spec, RetryIsNearlyRight
=============================================================================
