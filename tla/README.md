# FinShield AI: TLA+ specifications and proofs

FinShield AI is a Korean financial-safety service: a FastAPI backend (`app/`) with PostgreSQL, a
Next.js client (`web/`), and a compose deployment in which a retention process and a backup loop
run beside the backend. What is hard to test is where its parts interleave: in the data of
anonymous accounts, which requests and the retention process change side by side and which must be
gone when the service says so; in counters that many workers share; in a cache filled under a lock
from a provider that changes; in a shell script that must not lose the backups it keeps; in a page
whose promises end in another order than they began; in a request that a middleware, a handler and
two language models answer together. And it is where rules interact: a fraud analysis whose tables,
suppressions and policies must agree for every message. This directory models those parts, checks
them with TLC on small instances, and proves with TLAPS, for every value of the constants, all of
what it checks but liveness.

- [1 Inventory](#1-inventory) — [2 Modules](#2-modules) — [3 The models and the code](#3-the-models-and-the-code)
- [4 Runs and bounds](#4-runs-and-bounds) — [5 Fairness](#5-fairness) — [6 Proofs](#6-proofs)
- [7 Disagreements between the code and what is said of it](#7-disagreements-between-the-code-and-what-is-said-of-it)
- [8 What is not modelled](#8-what-is-not-modelled) — [9 Plan](#9-plan)

To repeat a run: `tlc -config AccountErasure.cfg MCAccountData.tla`; to repeat a proof:
`tlapm AccountDataProofs.tla`.

## 1 Inventory

| Component | State | Operations | Hard behaviour |
|---|---|---|---|
| **Anonymous accounts** (`api/routes/auth.py`, `account.py`, `profiles.py`; `services/auth_sessions.py`; `repositories/auth_sessions.py`, `financial_profiles.py`) | tables `users`, `auth_sessions`, `financial_profiles`; the client's cookie | bootstrap, read, logout, erase; create, get, metrics, replace, delete a profile | a handler is several transactions; requests race with each other, with expiry and with the retention process; a commit may succeed and its answer be lost |
| **Retention process** (`services/data_retention.py`, `scripts/run_retention_scheduler.py`) | the heartbeat file on a tmpfs; where its cycle is | select stale users, delete them, delete closed counters, mark success | a stage fails for ever; the container restarts; the rows it selected change before it deletes them |
| **Rate limit** (`core/rate_limit.py`, `services/rate_limits.py`, `repositories/rate_limits.py`) | table `rate_limit_counters` | count a request, judge it, let it through if the database fails; delete closed windows | workers and processes count at once; the clock is read before the row is written; the cleanup runs meanwhile |
| **Backup loop** (`deploy/backup-loop.sh`, `backup-healthcheck.sh`) | dumps and unfinished dumps on the host's disk, heartbeat on a tmpfs | dump, verify, move into place, rotate, mark; healthcheck | killed between any two commands; commands that fail unnoticed under `if`; timing of retry against alarm |
| **Product catalogue** (`api/routes/products.py`, `services/product_catalog*.py`, `clients/public_data_products.py`, `domain/finance/product_identity.py`) | an `lru_cache` of the service, its one snapshot with an expiry, a lock; the provider's catalogue | hit, miss, search for the latest month, collect pages, audit, store | threads miss together; the provider is slow, fails, or publishes between two pages |
| Client identity (`core/client_identity.py`, `web/lib/api/server-auth.ts`) | none | pick the client's address out of the forwarded chain | number of trusted hops, chains that are too short |
| **Request size limit** (`core/request_limits.py`) | per request: bytes, whether an answer began | wraps `receive` and `send` | exactly one answer, whichever side notices first |
| **LLM explanation** (`services/llm/*`, `clients/google_ai_studio.py`, `core/observability.py`) | lazy runtime, counters | minimize and neutralize the message, ask two models in order, validate, count | threads build the runtime without a lock; a reply fails in many ways; what is checked must be what the model has read |
| **Fraud analysis** (`services/fraud_analysis.py`, `domain/fraud/*`, `core/risk_engine.py`) | none | message, link and user state to signals, score, level, types, actions, sources | two vocabularies, two passes, a dozen suppressions, policies that raise and cap each other |
| Loans, housing, recommendation, wealth (`domain/finance`, `domain/housing`) | none | calculations | rounding, boundaries |
| Profile encryption (`security/profile_encryption.py`) | a keyring; the key id of each row | encrypt with the active key, decrypt with any known one | a restart with another keyring |
| **Web client** (`web/lib/store/*`, `web/lib/api/auth.ts`, `profiles.ts`, two pages) | `sessionStorage`, module variables, the cookie | bootstrap, load, save, clear, erase, metrics | promises that end in another order than they began; lost answers; several tabs |
| Redeployment (`deploy/redeploy.sh`) | the working copy, `.env`, what is running | ordered steps, each of which may stop it | what runs after a failure in the middle |
| Backup rehearsal (`scripts/rehearse_backup_restore.py`) | a scratch database | restore, compare, drop | cleanup when a step fails |
| Observability, HTTP security, secrets (`core/*`) | counters under a lock | | |

How they interact. The backend and the retention process share only the database, and so do the
backend's worker threads (sync handlers run in a thread pool) except for the catalogue, which is
in memory. The retention process deletes rows of two components: stale users with everything that
belongs to them (cascade), then closed windows of the rate limit, in one cycle and in that order.
The backup loop reads the database through `pg_dump` and shares nothing else with it. The client
holds the only copy of a session token; an account whose token is lost can be reached by nobody.
A request passes observability, HTTP security, the size limit and the rate limit on its way to a
route, in that order (`main.py:62-73`). The explanation route runs the fraud analysis again and
hands its verdict to the explanation layer; nothing else connects the two.

What makes each component correct, in a sentence: an erased account is gone for good and an
account nobody can reach is erased in the end; no client gets past a limit or is denied for
others; whenever the backup container is healthy there is a recent dump whose table of contents
can be read; a snapshot of the catalogue is one the provider published, unless it published another
meanwhile, and many requests cost one refresh;
the parts of a fraud answer agree and more evidence never weakens it; a request is answered once,
and an explanation that is shown names nothing the analysis did not find or the message did not
say; the page and the backend hold the same profile of an open account, and no other, once nothing is
under way, unless a change was lost or crossed another.

## 2 Modules

| Module | Models | Composes |
|---|---|---|
| `AccountData` | accounts, profiles and the retention process, one action per transaction | `AccountPromise` (refinement) |
| `AccountPromise` | what the service promises the holder of an account: no tables, requests or sweeper | |
| `RateLimit` | the middleware's check, the counters, the counters stage of the retention process | |
| `BackupLoop` | backup loop, rotation, heartbeat and healthcheck | |
| `CatalogCache` | threads, service singleton, cache, lock, loader, provider | |
| `FraudSignals` | clauses, links, both detection passes and their suppressions, public names | |
| `FraudPolicy` | level, score bands, types, actions, sources | `FraudSignals` |
| `FraudAnalysis` | one answer after another to a user who adds to a message | `FraudPolicy` |
| `Connections` | the requests, shared by the next modules | |
| `RequestLimit` | the size limit between any ASGI application and its client | `Connections` |
| `ExplanationText` | a message and a reply on their way to the model and back, as operators | |
| `Explanation` | runtime, attempts, counters of the explanation layer | `ExplanationText`, `Connections` |
| `ExplanationRequest` | a request through observability, size limit and explanation route | `RequestLimit`, `Explanation` |
| `ProfileStore` | one page of the web client with its backend | |
| `MC...` | small instances for TLC | one each |
| `AccountDataProofs`, `RateLimitProofs`, `BackupLoopProofs`, `CatalogCacheProofs`, `FraudAnalysisProofs`, `RequestLimitProofs`, `ExplanationRequestProofs`, `ProfileStoreProofs` | theorems | one each |

Definitions whose comment begins with `Mutant:` are plausible mistakes in the code (a cascade that
is missing, a lock that is not taken). No specification uses them; each stands next to the
definition it corrupts, and each of the properties is violated if its mutant takes the place of
that definition.

## 3 The models and the code

### AccountData

One action is one database transaction under READ COMMITTED, and everything may happen between
two: another request, a stage of the retention process, the expiry of a session, a failure, a
restart of either process.

- `users`, `sessions`, `profiles` are the three tables. A session belongs to one user and the
  service mints one token per user, so the user's id stands for the token and `sessions[u]` is
  `expires_at`, `NoSession` without a row. `issued` holds the tokens that reached a client;
  `OpenAccount` may commit without issuing one, when the answer is lost.
- `minted` records that `uuid4()` does not repeat itself, the one assumption about identifiers.
- `Start` is any call with any issued token or none. `Authenticate` is `get_current_session()` and
  the first half of `bootstrap()`. Erasure is four actions: `WipeProfiles`, `Reauthenticate`,
  `RemoveUser` after `Authenticate`, the four transactions of `delete_anonymous_account()`.
- `InsertProfile` succeeds only while its owner exists: the foreign key of
  `20260813_02_session_profile_ownership.py`. `DeleteUsers` is the cascade of the same migration.
- `Committed` and the second disjuncts of the deleting actions are a connection that breaks after
  the commit: the handler says 503 and the rows are gone. `Unavailable` is a transaction that
  fails and rolls back, deadlock and lock timeouts included.
- The sweeper is `RetentionScheduler.run_cycle()`: read the clock once, `SweepSelect` and
  `SweepDelete` (the SELECT and the DELETE of `cleanup_expired()`), `SweepCounters`, `SweepMark`.
  `SweepFail` is an exception in any stage, `SweepRestart` a restart that loses the tmpfs; an
  exception of `mark_success()` itself ends the process and is a `SweepRestart` too.
- `owed` and `promised` are history: the accounts that were due when a cycle began, and the users
  told 204.

Data that is abstracted: the contents of a profile (`Bodies`), its encryption and `updated_at`
with the row lock of `replace()`, and what `GET` returns beyond its status. Rows older than the
ownership migration have no owner (`Legacy`); no handler and no cleanup touches them.

`AccountPromise` is what `docs/24-anonymous-data-lifecycle.md` promises: an account opens once,
closes for good, and is erased with all it holds, once, because its holder asked while it was open
or because it is closed. `AccountData` refines it with `account` read from the tables and the
clock, `holds` from the owner column and `asked` from the requests under way. The abstract
specification lets a request that was admitted while the account was open store a profile after it
closed: the code does so, and it is harmless as long as the account is not erased.

### RateLimit

`Arrive` is `check()` up to the clock reading and the window; `Count` is the upsert
(`INSERT ... ON CONFLICT DO UPDATE ... RETURNING`) and the judgement of the number it returned;
`FailOpen` is a storage failure. A lost connection after the commit lets the request through
uncounted by the service but counted in the table (third disjunct of `Count`). `PolicyFor` takes
the first matching policy. The clock has `Second` ticks to a second, because `_floor_to_window`
and `Retry-After` cut to whole seconds and the expiry of a row does not. `CleanerStart` and
`CleanerDelete` are the counters stage, with the time `run_once()` read at the start of its cycle.
`counted`, `admitted` and `denied` are history.

### BackupLoop

One action per command of `run_once()`. Because the function is the condition of an `if`,
`set -e` is off in it: `Move`, `Rotate` and `Mark` go on when their command fails. `unnoticed` is
history: a failure of `mv` or `printf` went unnoticed since the last heartbeat that was true; the
two promises the heartbeat makes hold as long as there is none. `Dump` may end with a file
whose table of contents cannot be read (`readable`). `Verify` is `pg_restore --list`, which reads
the header and the table of contents and no data: a file whose data is cut short behind a good
table of contents is moved into place like a whole one, in the model as in the code.
`Restart` may happen anywhere: the tmpfs and with it the heartbeat is lost, the unfinished dump
stays, and rotation may have removed a part of its list. `Tick` is held back while something is
due (`Urgent`): a sleep ends on time and a run takes `MaxRun` at most.

### CatalogCache

A thread asks for the service (`Arrive`); without one it builds its own (`Build`), and the
`lru_cache` keeps the first that is finished: `functools.lru_cache` does not serialise its misses.
The thread waits for the service's lock; `Hit` and `Miss` are the two ways through
`get_or_load()`. The loader makes one step per call of the provider, `Discover` per candidate
month, `Page` and `Store` per page (`fetched_at`, which nothing decides on, is left out); `Reject` are its own checks, `ProviderFails` is everything the
client raises, a timeout included. `Publish` lets the provider change between any two calls.
`seen` is history: the catalogues published while a snapshot was being collected. Months are
numbers counted from 1 and the current month stays the same during a behaviour. The rows are
product ids: the audit of `product_identity.py` is that no id comes twice; its other checks, on
fields the normaliser has just written, are not modelled, nor is a build that fails (503).

### FraudSignals, FraudPolicy, FraudAnalysis

`POST /analyze` has no state, so `request` and `answer` are the last ones, and the actions are what
a user changes before asking again: `PasteMore` adds a clause, `PasteLink` and `SupplyUrl` a link in
the text or in its field, `ReportState` something done since. That makes "more evidence never
weakens an answer" a property of steps.

What a regular expression or a word list finds in a clause is data: the `facts` it states, those
that stand `ahead` of a prohibition that `_strip_prohibited_segment` cuts off, and the `words` of
the rule tables with the table and the mood they stand in. What the engine concludes is modelled in
full: the gates of each table, the clauses that count as open, the suppressions, the second pass
that reads what the first has found, the legacy vocabulary that alone feeds the score, the
combinations that raise a level, the band a score is moved into, types, actions with the
placeholder of the policy, the filter of sources, and what the summary says. That one clause may be
of any facts and words is more than Korean allows; the proofs hold for all of them. One thing is
less: a sequence of words (`_appears_in_order`) may begin in one clause and end in a later one, and
counts here only where it stands in one (`Entries`).

### RequestLimit

`conn[c]` is one request: what the middleware has counted (`declared`, `received`, `exceeded`),
what it told the application (`told`), what the application said (`said`), and what left for the
client (`wire`). The client declares a length (`Arrive`), sends chunks (`Receive`) or leaves
(`ClientGone`). `Say` is `limiting_send`, `Return` and `Raise` are the two ways an application ends;
the 413 is two messages, so a request can be between them (`refusing`, `FinishRefusal`).
`Application` is any ASGI application that keeps the protocol of its messages.

### ExplanationText, Explanation, ExplanationRequest

A message is a sequence of words, each with its part in an instruction to the model, the claims it
makes, and the boundary behind it. `neutralize_instructions` works on sentences first, then on the
whole text for instructions that cross a boundary, and takes the whole message only if nothing is
left of it. A reply is a record with one field per thing `generate()` looks at; `generate` gives its
outcome and `validate_explanation` that of its text. A reply whose `content` is null or a list
raises in `google_ai_studio.py:240` (`no_object`): the request fails.

`Explanation` has one action per step between which threads can switch: `CheckLoaded`,
`BuildRuntime`, `MarkLoaded` and the read of `_runtime` (`ReadRuntime`) of `explanation_runtime()`,
one `TryModel` per attempt, and the two counter updates. `ExplanationRequest` puts it behind
`RequestLimit`: FastAPI reads the body to its end before the handler runs, answers 400 for a body
cut off and 422 for one that does not fit. `OverRate` stands for the rate limit in front of the
route. `Observe` is the outermost middleware; the number it reads is the status that left first.

### ProfileStore

One page. What runs between two `await`s is a step; a request is sent, served and answered in three,
so requests are served and answers arrive in any order. `Ensure` is `ensureAuthSession()`: share the
bootstrap under way or begin one; `OpenSession`, `SessionReady` and `SessionFails` are its ends, for
all who wait for it. `Start...` are the calls, with the conditions under which the pages offer them
(`FormShown`, `ProfileShown`); `...Answered` is what runs after the last `await`. `Serve...` is the
backend of `AccountData` with a handler in one step and a failure of the second half of an erasure.
`Lose` is an answer that breaks off or the proxy's 8 s: the request may have been served or not, and
one that was not is kept in `late` if it would change the tables. `ServeLate` serves it at any time
afterwards, also after the page was opened anew, or drops it. `Reload` opens the page anew, `Expire`
ends a session, `Sweep` is the retention process: profiles whose account has no session are gone.
The effects on the tables (`Opens`, `Creates`, `Replaces`, `Clears`, `Erases`) are the same in time
and late. `owner` stays when a row goes, so that the model knows whose it was; the row is there
while it has a body.

`calm`, `crossed`, `cut` and `overtaken` are history and say when the properties hold: no save ran
into another change and no change lost its answer; no erasure and bootstrap were under way together;
which bootstraps an erasure cut off; which loads have been served a profile that changed before they
ended. Each is needed: section 8 says what happens without it. `ShownIsHeld` claims nothing about a
profile whose account has expired, for `Sweep` may have taken it. `LoadShowsWhatIsHeld` holds of
pages that are not calm and whose calls crossed: the next load puts what is shown right, as of the
moment it is served. That it is still right when the load ends follows only if nothing that was given
up, and no sweep, changes the profile in between.

## 4 Runs and bounds

| Run | Checks | Instance, and why it is enough |
|---|---|---|
| `account_erasure` | `NoOrphanedData`, `ErasureIsFinal`, `HeartbeatIsEarned`, `ErasureAnswerIsTrue` | two users, one profile, two requests, session of one tick, three clock values: two handlers interleave with a full retention cycle, before and after expiry |
| `account_items` | `RowsChangeForTheirOwner`, `KeepsPromise` | two users, a fresh profile and a legacy one, two bodies, two requests: any request may name anybody's row, before and after the session expires |
| `account_retention` | `StaleDataIsErased` | one request, fairness of the sweeper, failing stages |
| `rate_limit` | `LimitHolds`, `DenialIsEarned`, `RetryIsNearlyRight`, `RowsAreReclaimed` | two workers, three counted requests, two overlapping policies with limit 1 and windows of one and two seconds: the narrow policy above the wide one, as in `DEFAULT_POLICIES`; a window that closes, is deleted, and is brought back by a delayed request; a client that is denied early in the longer window and comes back when told |
| `rate_limit_retry` | violation of `RetryMeetsNewWindow` | two ticks to a second, so that half a second can be left |
| `backup` | `DumpsAreReadable`, `HealthyMeansRecentDump`, `OneFailureIsTolerated`, `RotationKeepsNewest` | interval 3, retry 1, slack 1, run 1, ten ticks: three runs, with every command that may fail, retries, rotation of two generations, restarts, and two unfinished dumps left behind |
| `backup_unnoticed` | violation of `OnlySuccessMarks` | one run whose `mv` fails |
| `catalog` | `OneRefreshPerService`, `SnapshotIsFaithful`, `RefreshOnlyWhenExpired`, `RequestsAreAnswered` | two threads, a process without a service, two months and pages of one product; a provider with nothing in the whole lookback, one month of two pages, or the same month in another order and a newer one, which fails and changes between any two calls; an entry that expires |
| `catalog_cold` | violation of `OneRefreshAtATime` | two threads, a process without a service |
| `fraud_analysis` | `TypeOK`, `ScoreTellsLevel`, `AnswerExplainsItself`, `AdviceLeadsOutside`, `NoticeStaysSilent`, `EvidenceOnlyAdds`, `ReassuranceHidesNothing` | every message of up to three of 38 clauses, one for each context the engine tells apart and a word of each table of each rule; a harmless and a suspicious link, in the text or beside it; every user state. Three clauses: what is asked for, what presses for it, and what would suppress it |
| `explanation_request` | `OneAnswer`, `LimitIsKept`, `NeverFalselyOff`, `ShownIsGrounded`, `EvidenceIsLeft`, `AsksNoMore`, `CountsTell`, `HeardIsAnswered` | two requests, a limit of one byte and chunks of one: a body that fits, one that is cut off, one declared or found too long. Eight questions: instructions within a clause, across two, across two sentences; a number cut off; every reply and every rejection. The layer off, with the stub, or with both models; the second request asks one question only; or both requests reach any other application |
| `profile_store` | `BootstrapIsShared`, `ShownIsHeld`, `NothingOutOfSight`, `LoadIsAlone`, `NoAccountAbandoned`, `LoadShowsWhatIsHeld` | two calls at once, two accounts (the first is erased, expires or is swept, the second follows or is opened beside it), two profiles and two bodies; a request that was given up and is served late counts as one of the two while it is outstanding (`MaxRequests`): a load beside a late save, clear or erasure, a late bootstrap beside the next, and both calls given up before the page is opened anew. No property relates more than two calls, accounts or profiles; the proofs are for any number of each |

The properties, in words, stand above their definitions. Where a type invariant is not among a
run's properties it is proved (section 6: `TypeCorrect`, `RateLimitTypeCorrect`,
`BackupTypeCorrect`, `RequestTypeCorrect`), for every instance. Bounds on clocks (`MaxClock`), counts (`MaxHits`),
leftovers (`MaxPartial`), clauses (`MaxClauses`), parts of an answer (`MaxParts`), accounts and
profiles (`MaxAccounts`, `MaxProfiles`), requests under way or given up (`MaxRequests`) are guards of the actions that would pass them. Identities
are only compared, so permutations of users, requests, calls and bodies are symmetries; symmetry is
off in every run with a liveness property. Deadlock is checked but in two runs that really stop: a
user who has said everything (`fraud_analysis`), and requests that are all done
(`explanation_request`).

## 5 Fairness

- `AccountData!FairSpec`: the retention container has `restart: unless-stopped`, so a cycle starts
  and its steps are taken (weak fairness); the database answers the SELECT and the DELETE
  infinitely often if they are tried infinitely often (strong fairness). Of the counters stage only
  that it ends, in success or failure. Nothing of requests: clients may never come.
- `RateLimit!FairSpec`: the same for the start of a cycle and its DELETE of counters. Nothing of
  requests.
- `CatalogCache!FairSpec`: threads run, and a call of the provider ends, because the client has a
  timeout (weak fairness of `Build` and `Load`); a thread that waits for a lock which is free again
  and again gets it (strong fairness of `Hit \/ Miss`). Python's `Lock` does not promise that in
  so many words; with a lock that starves a waiter no request could be promised an answer.
- `ExplanationRequest!FairSpec`: the coroutine or thread of a request goes on (weak fairness of
  `Serve(c)`), and the middleware that waits for its answer notices it (weak fairness of `Observe(c)`).
  A call of the provider ends because each of its phases has a timeout; that timeout is per phase in
  `httpx`, so the code promises an end, not the 20 seconds that `runtime.py:72-75` adds up to.
  Nothing of clients: a body that never ends is never answered.
- `FraudAnalysis` and `ProfileStore` have no fairness. A user may stop; that a load ends would need
  a run without symmetry, which is too large for the instance in which loads meet other calls.
- `BackupLoop` has no fairness: its promises about time are safety properties, with `Urgent`
  bounding the waits.

## 6 Proofs

Each proof module has an inductive invariant `IInv`, a lemma per action that shows it is kept, and
the theorems that follow. The assumptions are those named in the modules, which TLC also evaluates.

**`AccountDataProofs`** — `TypeCorrect`, `NoOrphanedDataHolds`, `ErasureIsFinalHolds`,
`HeartbeatIsEarnedHolds`, `RowsChangeForTheirOwnerHolds`, `ErasureAnswerIsTrueHolds`. None of these
is inductive. `ErasureIsFinal` needs that no identifier is minted twice and that a request only
carries tokens of minted users (`IdsAreMinted`, `RequestsAreWellFormed`): otherwise a late request
could bring an erased user back. `HeartbeatIsEarned` needs that an account which was stale when
the sweeper looked is stale for ever (`StaleStaysStale`): sessions are never prolonged and the clock
does not step back; and that from `SweepDelete` on nobody who was due is left (`SweepCoversOwed`).

The second half shows the refinement, `KeepsPromiseHolds`: every step of `AccountData` is a step of
`AccountPromise` or a stutter, under `IInv`. `Tick` is where several accounts close at once, which
is why `Close` and `Erase` take sets.

**`RateLimitProofs`** — `RateLimitTypeCorrect`, `LimitHoldsAlways`, `DenialIsEarnedAlways`,
`RetryIsNearlyRightAlways`, for any list of policies, any number of workers and any resolution of
the clock. `IInv` keeps each counter between two histories: it never exceeds what was counted, and while its window is open it is at
least what was admitted, because the cleanup deletes only what was closed at a time that is past.
`RetryIsNearlyRight` is what is true of the claim that `rate_limit_retry` refutes: a client that
waits as told meets the window that denied it in its last second at most. TLC checks it at one tick
to a second, where nothing is cut off; the proof (`WaitsAreTimely`) is for any resolution, and for a
request that waited between its reading of the clock and its answer.

**`BackupLoopProofs`** — `BackupTypeCorrect`, `DumpsAreReadableAlways`,
`HealthyMeansRecentDumpAlways`, `OneFailureIsToleratedAlways`, `RotationKeepsNewestAlways`, for any
intervals. `TimingAssumption` (`Retry + 2 * MaxRun <= Interval + Slack`) is what makes one failure
tolerable: a failed run and its retry must fit into the second interval. `IInv` says when the next
attempt is due (`AttemptsAreDue`), that the newest dump is the one of the run under way, and that
it is there before the heartbeat is written.

**`CatalogCacheProofs`** — `TypeCorrect`, `SnapshotsAreAlwaysFaithful`,
`OneRefreshPerServiceAlways`, `OnlyExpiredSnapshotsAreReplaced`, for any threads, any catalogues, any page size and any history of
the provider. `IInv` says that a thread in the loader holds its service's lock and that the entry had
expired when it took it, and that a load which has seen a single catalogue holds exactly a prefix of
it, of the latest month that is not empty (`Steady`): lemma `SteadyCalls` is the arithmetic of
pages. `WaitersWaitForLoaders` and `LoadsEnd` are what `RequestsAreAnswered` rests on apart from
fairness: whoever waits for a lock waits for a thread that loads, and a load ends, since a call that
brings no product is its last (`Bounded`), whatever the provider publishes meanwhile.

**`FraudAnalysisProofs`** — one theorem for each property of the run, for any set of clauses, of any
facts and words, and messages of any length. The inductive invariant is `Current`: what is shown is
the answer to what was asked; the rest is about the operators. `AnswerAlwaysExplainsItself` needs
that each signal alone already asks for an action and a level, and that each combination that makes
a level high is covered by a type; `LinkAlwaysOnlyAdds` that a link only ever opens gates
(`_detect_by_rules` is monotone in it) and that policies add actions and levels to sets;
`NoticeAlwaysStaysSilent` that such a message leaves no clause open, so that it counts as a
prevention notice, which silences every rule in both passes.

**`RequestLimitProofs`** — `LimitGivesOneAnswer`, `LimitRefusesForLength`, `LimitLetsWholeBodiesFit`,
for any limit, any chunks, any number of requests and any application. `LimitInv` (`Sound`) says
for each phase what left for the client and how that follows from what was received, told and said.
The actions of the module touch one request each, so the lemmas are about one record.

**`ExplanationRequestProofs`** — that composition, for any finite number of requests, questions and
replies: `RequestTypeCorrect`, `RequestKeepsTheLimit`, `RequestNeverFalselyOff`,
`RequestShowsGroundedText`, `RequestLeavesEvidence`, `RequestAsksNoMore`, `RequestCountsTell`.
`Inv == LimitInv /\ ExplInv /\ AllAdmitted /\ CountsFit`: the invariant of the limit carries over
since the route is one of the applications it allows; `ExplInv` keeps for each request what its
attempts and its text have to do with its own question, and that the flag of the runtime is never
up before the runtime (`RuntimeFits`); `AllAdmitted` ties the two together: a handler runs only for
a body that was read to its end. The counters need three more invariants (`Tell`, `ObservedHeard`,
`StatusesTell`), which say that each is the cardinality of the set of requests it counts.
`QuestionsAssumption` (a verdict above low has evidence) is what `AnswerExplainsItself` shows of the
fraud analysis.

`RequestImplementsLimit` and `RequestImplementsExplanation` are the refinements: the composition is
one of the behaviours of `RequestLimit` with an application that uses any status, and one of
`Explanation` by itself; whatever is shown of either module by itself holds of the composition. No
run repeats them. `ExplanationsEnd` is part of the safety half of `HeardIsAnswered`: a number that every step of
a thread lowers and no other thread raises (`Effort`), so that the loop over the models ends.

**`ProfileStoreProofs`** — `TypeCorrect`, `BootstrapIsSharedHolds`, `LoadIsAloneHolds`,
`ShownIsHeldHolds`, `NothingOutOfSightHolds`, `NoAccountAbandonedHolds`, `LoadShowsWhatIsHeldHolds`,
for any number of calls, accounts, profiles and requests that were given up. What a page shows depends on what every call under
way carries, so the invariant follows the calls. `CallsFit`: a call carries only accounts and
profiles that were made, and what an answer says is so while it is on its way (an erased account is
not open, a loaded profile is stored unless the load was overtaken). `PageFits`: `sessionStorage` and the state name the same
profile, none is shown without an identity, and none before its load. `OneAccount` (without
`crossed`): an open account that a call, a request given up or a profile is about is that of the
cookie. `SaveIsAlone` (while `calm`): no other change is beside a save. `NothingLate` (while `calm`):
no change was given up, only a bootstrap may have been. `Agree` (while `calm` and without `crossed`): the
page and the backend hold the same profile, up to a change that was served and whose answer is on
its way. The properties are what is left of `Agree` when nothing is under way. What changes the
tables beside the calls of the page (`ServeLate`, `Sweep`, `Expire`) has one lemma,
`TablesTurnKeeps`: while calm holds the rows of open accounts stay. TLC checked the invariant on the
instance of the run before it was proved.

Only model-checked: the liveness properties `StaleDataIsErased`, `RowsAreReclaimed`,
`RequestsAreAnswered` and `HeardIsAnswered` (liveness under fairness is out of the prover's reach).
Every other property of a run that passes is a theorem.

## 7 Disagreements between the code and what is said of it

1. `backup_unnoticed`: `backup-loop.sh:177` says that only a successful run refreshes the heartbeat.
   `run_once` is the condition of an `if`, so a failing `mv` (line 154) is not noticed and the
   heartbeat is written all the same.
2. `rate_limit_retry`: a test is named `test_retry_after_points_at_the_end_of_the_window`; the
   remaining time is cut to whole seconds, so a client that waits as told may come back up to a
   second too early and be denied again.
3. `catalog_cold`: `docs/16-product-catalog-cache.md:22` says that of several requests that miss
   only one refreshes. The first requests of a process may build a service each, with a cache and a
   lock each.

None of them loses data; the first one hides a broken backup until its age alarms.

Two more met on the way, which the models have and no run refutes:

- `google_ai_studio.py:5` says that every failure is folded into `LlmUnavailable`. A reply whose
  `content` is null or a list raises `AttributeError` in line 240 instead: the request answers 500,
  the second model is not asked, and no counter of the explanation layer moves (`no_object`).
- `runtime.py:72-75` says that 20 seconds are the longest a user waits. `httpx` applies a timeout to
  each phase of a call and to each read, so a provider that sends slowly can take longer.

## 8 What is not modelled

The vocabulary of the fraud rules and of the text rules: which Korean clause a pattern matches is
data here, so that a rule recognises too little or too much is not something these models can show;
no completeness of the neutralisation is claimed either. The contents of profiles, ciphertexts,
prompts, log lines and page layout say nothing a model checker could refute. Tests, evaluation
scripts and CI are not part of the running program.

Within the modelled components: clocks that step back (`ls -1t` in the backup loop orders by them),
a `pg_dump` that hangs, whether the data of a dump can be restored (`docs/29` leaves that to the
rehearsal), unfinished dumps that add up on the host's disk, the age test of the
retention healthcheck, dry runs, the in-memory repositories used without a database, a change of
month while a catalogue is loaded, the refusal of unknown hosts, and the errors of the explanation
layer that no setting reaches (`LlmContractError`, `PROVIDER_MISCONTRACTED`, `UNSUPPORTED_MODEL`).
When the loader of the catalogue fails, each waiting thread asks the provider again, one timeout
after another: modelled, and harmless to every property but not to patience. PostgreSQL, the
provider, FastAPI, uvicorn and Docker are modelled from how the code uses them.

What the web client does not promise, and the model shows when a history variable is dropped: a
save that is answered after an erasure or a clear writes the identity of a profile that is gone
back; two saves under way together may both create a profile, or be stored in the other order
(`calm`). A change whose answer is lost may have been made, or be made later (`calm`), also in the
moment between the service of a load and its end (`overtaken`). After an erasure a new
bootstrap may run beside one that was cut off, and the last cookie wins (`crossed`); the other
account is left to the retention process, which erases it (`StaleDataIsErased`). The cookie of an
answer is taken by the browser in the step in which the page goes on with that answer, not when its
headers arrive, and an answer that is lost sets none. Several tabs with
one cookie, and a `sessionStorage` that is blocked, so that each save creates another profile, are
not modelled.

Not modelled at all: client identity, the calculations of loans, housing, recommendation and wealth,
profile encryption and its keys, runtime secrets, redeployment and the backup rehearsal. The
calculations have no state; what could be said of them is their arithmetic, which their unit tests
say. The others are in the plan.

## 9 Plan

1. Done: the account life cycle with its promise, the rate limit, the backup loop, the catalogue,
   the fraud analysis, the size limit and the explanation behind it, each with its proofs; the web
   client's profile store.
2. Done: proofs of every safety property that a run checks, `ProfileStore` included, and of
   what `RequestsAreAnswered` and `HeardIsAnswered` rest on apart from fairness.
3. `ProfileStorage`: row lock and `updated_at` of `replace()`, key ids and keyrings across restarts.
   `Redeploy`: steps and failures, and what is running after each.
4. The second tab: two `ProfileStore`s with one cookie and storages of their own.
5. Pure algorithms against reference definitions over bounded inputs: client identity, loan
   schedule, housing policy, `previous_month`.
