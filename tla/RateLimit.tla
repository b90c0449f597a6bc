------------------------------- MODULE RateLimit -------------------------------
(***************************************************************************)
(* The fixed-window rate limit: RateLimitService.check() in the worker      *)
(* threads of every backend process, the counters they share in PostgreSQL  *)
(* (app/services/rate_limits.py, app/repositories/rate_limits.py), and the  *)
(* retention process that deletes the counters of closed windows.           *)
(*                                                                         *)
(* A check reads the clock first and increments later: the window may close *)
(* and its counter may be deleted in between.                               *)
(***************************************************************************)
EXTENDS Naturals, Sequences, Functions

CONSTANTS
    Clients,    \* client addresses, "unidentified" being one of them
    Routes,     \* methods and paths, as far as the policies tell them apart
    Policies,   \* DEFAULT_POLICIES, in order
    Requests,   \* the worker threads' slots
    Second,     \* ticks of the clock in a second
    MaxClock,   \* bound: the clock of an instance stops here
    MaxHits     \* bound: requests counted in all

ASSUME PoliciesAssumption ==
    Policies \in Seq([limit : Nat, seconds : Nat \ {0}, covers : SUBSET Routes])
ASSUME BoundsAssumption ==
    Second \in Nat \ {0} /\ MaxClock \in Nat /\ MaxHits \in Nat

VARIABLES
    clock,      \* the clock all processes read, in ticks
    counters,   \* table rate_limit_counters: hit_count, 0 where there is no row
    req,        \* what each request slot is doing
    cleaner,    \* the counters stage of the retention process
    counted,    \* history: requests counted, by policy, client and window
    admitted,   \* history: requests let through on their count
    denied      \* history: where a request was answered 429

vars == <<clock, counters, req, cleaner, counted, admitted, denied>>

-----------------------------------------------------------------------------
(* Policies, windows and rows.                                              *)

PolicyIds == DOMAIN Policies
Limit(i) == Policies[i].limit
Length(i) == Policies[i].seconds * Second

\* select_policy(): the first policy that covers the route, if any does.
PolicyFor(route) ==
    {i \in PolicyIds : /\ route \in Policies[i].covers
                       /\ \A j \in 1 .. (i - 1) : route \notin Policies[j].covers}

\* A policy, a client and a window: what a request is counted under.
Keys == [policy : PolicyIds, client : Clients, start : 0 .. MaxClock]

\* _floor_to_window(): whole seconds, down to a multiple of the window.
WindowStart(now, i) ==
    LET seconds == now \div Second
    IN  (seconds - (seconds % Policies[i].seconds)) * Second
WindowEnd(k) == k.start + Length(k.policy)
Open(k) == clock < WindowEnd(k)

\* Mutant: the policy's name is left out of the bucket.
Bucket_NoPolicy(i, c) == <<1, c>>

\* _bucket_key(): an HMAC of the policy's name and the client.
Bucket(i, c) == <<i, c>>

\* The primary key of a counter.
Rows == (PolicyIds \X Clients) \X (0 .. MaxClock)
RowOf(k) == <<Bucket(k.policy, k.client), k.start>>

\* Mutant: a window counts as closed once it has begun.
Expired_Started(row, now) == row[2] <= now

\* Mutant: a window that closed before this cycle is not looked at again.
Expired_JustNow(row, now) == row[2] + Length(row[1][1]) = now

\* The WHERE clause of cleanup_expired().
Expired(row, now) == row[2] + Length(row[1][1]) <= now

-----------------------------------------------------------------------------
(* Requests.                                                                *)

Idle == [pc |-> "idle"]

Counting(i, c) ==
    [pc |-> "counting", now |-> clock,
     key |-> [policy |-> i, client |-> c, start |-> WindowStart(clock, i)]]

\* Mutant: one second, which is the least, is taken for the most.
RetryAfter_AtMostOne(q) ==
    LET seconds == (WindowEnd(q.key) - q.now) \div Second
    IN  IF seconds < 1 THEN seconds ELSE 1

\* retry_after_seconds: whole seconds to the end of the window, at least one.
RetryAfter(q) ==
    LET seconds == (WindowEnd(q.key) - q.now) \div Second
    IN  IF seconds < 1 THEN 1 ELSE seconds

\* A client that waits as long as the 429 tells it to.
Denied(q) == [pc |-> "denied", key |-> q.key, retryAt |-> clock + RetryAfter(q) * Second]

At(r, pc) == req[r].pc = pc
Become(r, state) == req' = [req EXCEPT ![r] = state]

\* check(), up to the clock and the window.  A route without a policy is let
\* through and leaves no trace.
Arrive(r) ==
    /\ At(r, "idle")
    /\ \E route \in Routes, c \in Clients :
       \E i \in PolicyFor(route) : Become(r, Counting(i, c))
    /\ UNCHANGED <<clock, counters, cleaner, counted, admitted, denied>>

\* The bound of an instance.
MayCount == SumFunction(counted) < MaxHits

\* INSERT ... ON CONFLICT DO UPDATE ... RETURNING hit_count.
Hits(row) == counters[row] + 1

\* increment() commits, and the request is judged by the count it returned;
\* if the connection breaks after the commit, the request is let through.
Count(r) ==
    /\ At(r, "counting")
    /\ LET q == req[r]  k == q.key  hits == Hits(RowOf(k)) IN
       /\ MayCount
       /\ counters' = [counters EXCEPT ![RowOf(k)] = hits]
       /\ counted' = [counted EXCEPT ![k] = @ + 1]
       /\ \/ /\ hits <= Limit(k.policy)
             /\ admitted' = [admitted EXCEPT ![k] = @ + 1]
             /\ Become(r, Idle)
             /\ UNCHANGED denied
          \/ /\ hits > Limit(k.policy)
             /\ denied' = denied \cup {k}
             /\ Become(r, Denied(q))
             /\ UNCHANGED admitted
          \/ /\ Become(r, Idle)
             /\ UNCHANGED <<admitted, denied>>
    /\ UNCHANGED <<clock, cleaner>>

\* increment() fails and rolls back: the request is let through, uncounted.
FailOpen(r) ==
    /\ At(r, "counting")
    /\ Become(r, Idle)
    /\ UNCHANGED <<clock, counters, cleaner, counted, admitted, denied>>

\* The client comes back when it was told to, or does not.
Retry(r) ==
    /\ At(r, "denied")
    /\ \/ clock >= req[r].retryAt /\ Become(r, Counting(req[r].key.policy, req[r].key.client))
       \/ Become(r, Idle)
    /\ UNCHANGED <<clock, counters, cleaner, counted, admitted, denied>>

-----------------------------------------------------------------------------
(* The counters stage of the retention process, with the time run_once()    *)
(* read at its start.                                                       *)

CleanerIdle == [pc |-> "idle", now |-> 0]

CleanerStart ==
    /\ cleaner.pc = "idle"
    /\ cleaner' = [pc |-> "delete", now |-> clock]
    /\ UNCHANGED <<clock, counters, req, counted, admitted, denied>>

CleanerDelete ==
    /\ cleaner.pc = "delete"
    /\ counters' = [row \in Rows |-> IF Expired(row, cleaner.now) THEN 0 ELSE counters[row]]
    /\ cleaner' = CleanerIdle
    /\ UNCHANGED <<clock, req, counted, admitted, denied>>

\* The session stage or this one raises, or the container restarts.
CleanerFail ==
    /\ cleaner.pc = "delete"
    /\ cleaner' = CleanerIdle
    /\ UNCHANGED <<clock, counters, req, counted, admitted, denied>>

Tick ==
    /\ clock < MaxClock
    /\ clock' = clock + 1
    /\ UNCHANGED <<counters, req, cleaner, counted, admitted, denied>>

-----------------------------------------------------------------------------
Init ==
    /\ clock = 0
    /\ counters = [row \in Rows |-> 0]
    /\ req = [r \in Requests |-> Idle]
    /\ cleaner = CleanerIdle
    /\ counted = [k \in Keys |-> 0]
    /\ admitted = [k \in Keys |-> 0]
    /\ denied = {}

Check(r) == Arrive(r) \/ Count(r) \/ FailOpen(r) \/ Retry(r)
Cleaner == CleanerStart \/ CleanerDelete \/ CleanerFail
Next == (\E r \in Requests : Check(r)) \/ Cleaner \/ Tick

Spec == Init /\ [][Next]_vars

\* The retention process keeps running, and its DELETE succeeds infinitely
\* often if it is tried infinitely often.
FairSpec == Spec /\ WF_vars(CleanerStart) /\ SF_vars(CleanerDelete)

-----------------------------------------------------------------------------
(* Properties.                                                              *)

RequestState ==
    {Idle}
    \cup [pc : {"counting"}, now : 0 .. MaxClock, key : Keys]
    \cup [pc : {"denied"}, key : Keys, retryAt : Nat]

\* The type of every variable.
TypeOK ==
    /\ clock \in 0 .. MaxClock
    /\ counters \in [Rows -> Nat]
    /\ req \in [Requests -> RequestState]
    /\ cleaner \in [pc : {"idle", "delete"}, now : 0 .. MaxClock]
    /\ counted \in [Keys -> Nat]
    /\ admitted \in [Keys -> Nat]
    /\ denied \subseteq Keys

\* As long as a window is open, no client gets more requests through on their
\* count than the policy allows, however many workers count at once and
\* whatever the cleanup deletes meanwhile.  (A request that is delayed past the
\* end of its window may find its row deleted and start again from one.)
LimitHolds == \A k \in Keys : Open(k) => admitted[k] <= Limit(k.policy)

\* A client is answered 429 only after it has itself used up the policy's
\* limit in that window: nobody else's requests, no other policy's and no
\* earlier window's count against it.
DenialIsEarned == \A k \in denied : counted[k] > Limit(k.policy)

\* The counter of a closed window is deleted in the end, also when a delayed
\* request brought it back after it was deleted.
RowsAreReclaimed ==
    \A k \in Keys : (counters[RowOf(k)] > 0 /\ ~Open(k)) ~> counters[RowOf(k)] = 0

\* A client that waits as long as the 429 tells it to comes back when the
\* window that denied it is closed, or is in its last second, however long the
\* request waited for the database between its reading of the clock and the
\* answer, and however the policies' windows overlap.
RetryIsNearlyRight ==
    [][\A r \in Requests :
          At(r, "denied") /\ req'[r].pc = "counting" => WindowEnd(req[r].key) < clock + Second]_vars

\* What a test says of Retry-After (test_retry_after_points_at_the_end_of_the_
\* window): a client that waits that long does not meet the window that denied
\* it again.
RetryMeetsNewWindow ==
    [][\A r \in Requests :
          At(r, "denied") /\ req'[r].pc = "counting" => req'[r].key # req[r].key]_vars
=============================================================================
