------------------------------ MODULE CatalogCache ------------------------------
(***************************************************************************)
(* The product catalogue of one backend process: the worker threads that    *)
(* ask for it, the service they build on first use (app/api/routes/          *)
(* products.py), its cache of one snapshot, filled under a lock             *)
(* (app/services/product_catalog_snapshot.py), and the official provider,   *)
(* which may publish another catalogue between two calls of the loader.     *)
(*                                                                         *)
(* functools.lru_cache does not lock: threads that miss together build a    *)
(* service each, the first one to finish is kept, the others are used once. *)
(***************************************************************************)
EXTENDS Naturals, Sequences, FiniteSets, Functions

CONSTANTS
    Requests,           \* worker threads
    NoService,          \* get_product_catalog_service() holds nothing yet
    Free,               \* nobody holds the lock
    StartMonth,         \* current_seoul_month(), months counted from 1
    Lookback,           \* PRODUCT_CATALOG_LOOKBACK_MONTHS
    PageSize,           \* PROVIDER_PAGE_SIZE
    Ttl,                \* PRODUCT_CATALOG_CACHE_TTL_SECONDS
    Catalogues,         \* what the provider may publish: product ids by month
    MaxClock            \* bound: the clock of an instance stops here

Months == 1 .. StartMonth

ASSUME MonthsAssumption == StartMonth \in Nat /\ Lookback \in Nat /\ Lookback < StartMonth
ASSUME ConfigAssumption ==
    /\ PageSize \in Nat \ {0} /\ Ttl \in Nat \ {0} /\ MaxClock \in Nat
ASSUME CataloguesAssumption ==
    \A c \in Catalogues : DOMAIN c = Months /\ \A m \in Months : c[m] \in Seq(Range(c[m]))
ASSUME NamesAssumption == NoService \notin Requests /\ Free \notin Requests

VARIABLES
    clock,      \* monotonic()
    published,  \* the provider's catalogue
    lru,        \* the service the lru_cache holds, named after its builder
    entries,    \* ProductCatalogSnapshotCache._entry, by service
    lock,       \* who holds its _lock
    loads,      \* the locals of load_latest_product_snapshot(), by service
    req         \* what each worker thread is doing

vars == <<clock, published, lru, entries, lock, loads, req>>

-----------------------------------------------------------------------------
NoEntry == [month |-> 0, rows |-> <<>>, expires |-> 0, seen |-> {}]
Begin(seen) ==
    [month |-> StartMonth, page |-> 1, rows |-> <<>>, total |-> 0, seen |-> seen]
NoLoad == Begin({})
Idle == [pc |-> "idle", svc |-> NoService]

At(r, pc) == req[r].pc = pc
Goto(r, pc) == req' = [req EXCEPT ![r].pc = pc]
Loading(r) == At(r, "discover") \/ At(r, "collect")

\* Mutant: an entry counts as expired whenever a thread comes for it.
Fresh_Never(s) == FALSE
\* The first test of get_or_load(); NoEntry is never fresh.
Fresh(s) == clock < entries[s].expires

\* Mutant: get_or_load() does not take the lock.
LockFree_Always(s) == TRUE
LockFree(s) == lock[s] = Free

\* The request is answered.
Finish(r) == req' = [req EXCEPT ![r] = Idle]

\* Mutant: a loader that raises leaves the lock behind.
Raise_KeepsLock(r) ==
    /\ Finish(r)
    /\ loads' = [loads EXCEPT ![req[r].svc] = NoLoad]
    /\ UNCHANGED <<clock, published, lru, entries, lock>>

\* The loader raises: the lock is released, the entry is left as it is, and
\* the request is answered 502.
Raise(r) ==
    /\ Finish(r)
    /\ lock' = [lock EXCEPT ![req[r].svc] = Free]
    /\ loads' = [loads EXCEPT ![req[r].svc] = NoLoad]
    /\ UNCHANGED <<clock, published, lru, entries>>

-----------------------------------------------------------------------------
(* A request: its service, then its turn.                                   *)

Arrive(r) ==
    /\ At(r, "idle")
    /\ req' = [req EXCEPT ![r] =
                 IF lru = NoService THEN [Idle EXCEPT !.pc = "building"]
                                    ELSE [Idle EXCEPT !.pc = "waiting", !.svc = lru]]
    /\ UNCHANGED <<clock, published, lru, entries, lock, loads>>

\* build_product_catalog_service() returns; the lru_cache keeps the service if
\* it holds none by now.
Build(r) ==
    /\ At(r, "building")
    /\ lru' = IF lru = NoService THEN r ELSE lru
    /\ req' = [req EXCEPT ![r].pc = "waiting", ![r].svc = r]
    /\ UNCHANGED <<clock, published, entries, lock, loads>>

\* get_or_load() with a snapshot that has not expired.
Hit(r) ==
    /\ At(r, "waiting")
    /\ LockFree(req[r].svc)
    /\ Fresh(req[r].svc)
    /\ Finish(r)
    /\ UNCHANGED <<clock, published, lru, entries, lock, loads>>

\* get_or_load() without one: the loader starts under the lock.
Miss(r) ==
    LET s == req[r].svc IN
    /\ At(r, "waiting")
    /\ LockFree(s)
    /\ ~Fresh(s)
    /\ lock' = [lock EXCEPT ![s] = r]
    /\ loads' = [loads EXCEPT ![s] = Begin({published})]
    /\ Goto(r, "discover")
    /\ UNCHANGED <<clock, published, lru, entries>>

-----------------------------------------------------------------------------
(* The loader: one step for each call of the provider.                      *)

LastCandidate(month) == month = StartMonth - Lookback

\* discover_latest_month(), one candidate.
Discover(r) ==
    LET s == req[r].svc  month == loads[s].month IN
    /\ At(r, "discover")
    /\ \/ /\ published[month] # <<>>
          /\ Goto(r, "collect")
          /\ UNCHANGED <<clock, published, lru, entries, lock, loads>>
       \/ /\ published[month] = <<>>
          /\ ~LastCandidate(month)
          /\ loads' = [loads EXCEPT ![s].month = month - 1]
          /\ UNCHANGED <<clock, published, lru, entries, lock, req>>
       \/ /\ published[month] = <<>>
          /\ LastCandidate(month)
          /\ Raise(r)

\* The provider's answer to the loader's next call.
Rows(l) ==
    LET all == published[l.month]
        last == IF l.page * PageSize < Len(all) THEN l.page * PageSize ELSE Len(all)
    IN  SubSeq(all, (l.page - 1) * PageSize + 1, last)
TotalCount(l) == Len(published[l.month])

\* What the loader's locals are after that call: totalCount is the first page's.
After(l) ==
    [month |-> l.month, page |-> l.page + 1, rows |-> l.rows \o Rows(l), seen |-> l.seen,
     total |-> IF l.page = 1 THEN TotalCount(l) ELSE l.total]

\* The page is refused: the catalogue changed its size or ended too early.
Refused(l) ==
    \/ TotalCount(l) # After(l).total
    \/ Rows(l) = <<>> /\ Len(l.rows) < After(l).total
Done(l) == Len(l.rows) >= l.total

\* Mutant: the identity audit is left out.
Sound_NoAudit(l) == Len(l.rows) = l.total
\* The row count fits, and audit_product_catalog_identity() finds no id twice.
Sound(l) == Len(l.rows) = l.total /\ IsInjective(l.rows)

Page(r) ==
    LET s == req[r].svc  l == loads[s] IN
    /\ At(r, "collect")
    /\ ~Refused(l)
    /\ ~Done(After(l))
    /\ loads' = [loads EXCEPT ![s] = After(l)]
    /\ UNCHANGED <<clock, published, lru, entries, lock, req>>

Store(r) ==
    LET s == req[r].svc  l == loads[s]  a == After(l) IN
    /\ At(r, "collect")
    /\ ~Refused(l)
    /\ Done(a) /\ Sound(a)
    /\ entries' = [entries EXCEPT ![s] =
                     [month |-> a.month, rows |-> a.rows, expires |-> clock + Ttl, seen |-> a.seen]]
    /\ lock' = [lock EXCEPT ![s] = Free]
    /\ loads' = [loads EXCEPT ![s] = NoLoad]
    /\ Finish(r)
    /\ UNCHANGED <<clock, published, lru>>

Reject(r) ==
    LET l == loads[req[r].svc] IN
    /\ At(r, "collect")
    /\ Refused(l) \/ (Done(After(l)) /\ ~Sound(After(l)))
    /\ Raise(r)

\* The call times out, or its answer is not what the client or the schema
\* takes.
ProviderFails(r) ==
    /\ Loading(r)
    /\ Raise(r)

-----------------------------------------------------------------------------
\* The provider publishes another catalogue; loads under way have seen both.
Publish ==
    /\ \E c \in Catalogues \ {published} :
          /\ published' = c
          /\ loads' = [s \in Requests |->
                         IF lock[s] = Free THEN loads[s]
                         ELSE [loads[s] EXCEPT !.seen = @ \cup {c}]]
    /\ UNCHANGED <<clock, lru, entries, lock, req>>

Tick ==
    /\ clock < MaxClock
    /\ clock' = clock + 1
    /\ UNCHANGED <<published, lru, entries, lock, loads, req>>

Init ==
    /\ clock = 0
    /\ published \in Catalogues
    /\ lru = NoService
    /\ entries = [s \in Requests |-> NoEntry]
    /\ lock = [s \in Requests |-> Free]
    /\ loads = [s \in Requests |-> NoLoad]
    /\ req = [r \in Requests |-> Idle]

Load(r) == Discover(r) \/ Page(r) \/ Store(r) \/ Reject(r) \/ ProviderFails(r)
Serve(r) == Arrive(r) \/ Build(r) \/ Hit(r) \/ Miss(r) \/ Load(r)
Next == (\E r \in Requests : Serve(r)) \/ Publish \/ Tick

Spec == Init /\ [][Next]_vars

\* Threads run, a provider call ends (the client has a timeout), and a thread
\* gets the lock if it is free again and again.
Fairness ==
    \A r \in Requests :
        /\ WF_vars(Build(r)) /\ WF_vars(Load(r))
        /\ SF_vars(Hit(r) \/ Miss(r))
FairSpec == Spec /\ Fairness

-----------------------------------------------------------------------------
(* Properties.                                                              *)

Ids == UNION {Range(c[m]) : c \in Catalogues, m \in Months}
LoadState ==
    [month : Months, page : Nat \ {0}, rows : Seq(Ids), total : Nat,
     seen : SUBSET Catalogues]
EntryState ==
    [month : 0 .. StartMonth, rows : Seq(Ids), expires : 0 .. MaxClock + Ttl,
     seen : SUBSET Catalogues]

ThreadState ==
    [pc : {"idle", "building", "waiting", "discover", "collect"},
     svc : Requests \cup {NoService}]

\* The type of every variable.
TypeOK ==
    /\ clock \in 0 .. MaxClock
    /\ published \in Catalogues
    /\ lru \in Requests \cup {NoService}
    /\ entries \in [Requests -> EntryState]
    /\ lock \in [Requests -> Requests \cup {Free}]
    /\ loads \in [Requests -> LoadState]
    /\ req \in [Requests -> ThreadState]

\* A snapshot is the catalogue of one month, page after page: no product twice,
\* none that was not published meanwhile; and if the provider published nothing
\* new while it was collected, it is exactly the latest month's catalogue.
Faithful(e) ==
    /\ IsInjective(e.rows)
    /\ Range(e.rows) \subseteq UNION {Range(c[e.month]) : c \in e.seen}
    /\ \A c \in e.seen :
          e.seen = {c} =>
              /\ e.rows = c[e.month]
              /\ e.rows # <<>>
              /\ \A m \in (e.month + 1) .. StartMonth : c[m] = <<>>
SnapshotIsFaithful ==
    \A s \in Requests : entries[s] # NoEntry => Faithful(entries[s])

\* A snapshot that has not expired is never replaced, neither by a thread that
\* missed before it was stored nor by a slow load that began earlier.
RefreshOnlyWhenExpired ==
    [][\A s \in Requests : entries'[s] # entries[s] => clock >= entries[s].expires]_vars

\* Within one service the provider is called by one thread at a time, however
\* many miss together, and whether their loads end with a snapshot or raise.
OneRefreshPerService ==
    \A q, r \in Requests :
        Loading(q) /\ Loading(r) /\ req[q].svc = req[r].svc => q = r

\* What docs/16 says of the process: one request refreshes the snapshot, the
\* others wait.
OneRefreshAtATime == Cardinality({r \in Requests : Loading(r)}) <= 1

\* Every request is answered, whatever the provider does.
RequestsAreAnswered ==
    \A r \in Requests : ~At(r, "idle") ~> At(r, "idle")
=============================================================================
