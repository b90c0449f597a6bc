---------------------------- MODULE ProfileStore ----------------------------
(***************************************************************************)
(* One page of the web client: the store of the person's profile           *)
(* (web/lib/store/profile-store.ts), the session it bootstraps             *)
(* (web/lib/api/auth.ts) and the calls it makes (web/lib/api/profiles.ts), *)
(* with the pages that allow a call only in some states of the store.      *)
(*                                                                         *)
(* What runs between two `await`s is one step.  A request is sent, served  *)
(* and answered in three steps, so that requests are served and answers    *)
(* come in any order, and one that the page has given up may be served     *)
(* later.  The backend is that of AccountData with a handler in one step;  *)
(* accounts and profiles are numbered as they are made.                    *)
(***************************************************************************)
EXTENDS Naturals, FiniteSets

CONSTANTS
    Calls,         \* calls of the page that may be under way together
    NoCall,        \* no call
    Bodies,        \* what a person may enter
    NoBody,        \* nothing entered, nothing shown, no row
    MaxAccounts,   \* accounts the backend can open
    MaxProfiles,   \* profiles the backend can create
    MaxRequests    \* bound: calls under way and requests given up, together

ASSUME CallsAssumption == NoCall \notin Calls /\ NoBody \notin Bodies
ASSUME BoundsAssumption == {MaxAccounts, MaxProfiles, MaxRequests} \subseteq Nat

VARIABLES
    state,             \* the store: profileId, profile, status
    stored,            \* sessionStorage: the identity of the person's profile
    bootstrapPromise,  \* the call whose bootstrap the others share
    calls,             \* the calls of the page
    cookie,            \* the account whose session token the browser holds
    open,              \* backend: accounts with a session that is valid
    opened,            \* backend: number of accounts opened so far
    owner, body,       \* backend: financial_profiles; a row is gone when its body is
    created,           \* backend: number of profiles created so far
    late,              \* what a call asked and gave up, which the backend may serve yet
    cut,               \* history: bootstraps under way when an erasure ended
    crossed,           \* history: an erasure and a bootstrap were under way together
    calm,              \* history: no save ran into another change, no change lost its answer
    overtaken          \* history: loads whose profile changed after they were served

page == <<state, stored, bootstrapPromise, calls, cookie>>
tables == <<open, opened, owner, body, created>>
backend == <<tables, late>>
history == <<cut, crossed, calm, overtaken>>
vars == <<page, backend, history>>

\* What the service of a call leaves alone in any case
untouched == <<state, stored, bootstrapPromise, cookie, cut, crossed, overtaken>>

None == 0
Accounts == 1 .. MaxAccounts
Profiles == 1 .. MaxProfiles

Statuses == {"empty", "idle", "loading", "ready", "error"}
Saves == {"create", "replace"}
Changes == Saves \cup {"clear", "erase"}

NoRequest == [op |-> "none", at |-> "idle", on |-> NoCall, id |-> None, body |-> NoBody,
              cookie |-> None, answer |-> "none", gave |-> None]

Under == {c \in Calls : calls[c].at # "idle"}
Changing == {c \in Under : calls[c].op \in Changes}
Saving == {c \in Under : calls[c].op \in Saves}
Bootstrapping == {c \in Calls : calls[c].at \in {"checks", "opens"}}

Empty == [profileId |-> None, profile |-> NoBody, status |-> "empty"]

\* Mutant: the profile outlives the page together with its identity
KeepsProfile ==
    [profileId |-> stored, profile |-> IF stored = None THEN NoBody ELSE state.profile,
     status |-> IF stored = None THEN "empty" ELSE "idle"]

\* reconcileIdentity() when a page is opened
Reconciled == [Empty EXCEPT !.profileId = stored, !.status = IF stored = None THEN "empty" ELSE "idle"]

Init ==
    /\ state = Empty
    /\ stored = None
    /\ bootstrapPromise = NoCall
    /\ calls = [c \in Calls |-> NoRequest]
    /\ cookie = None
    /\ open = {} /\ opened = 0
    /\ owner = [p \in Profiles |-> None] /\ body = [p \in Profiles |-> NoBody]
    /\ created = 0
    /\ late = [c \in Calls |-> NoRequest]
    /\ cut = {} /\ crossed = FALSE /\ calm = TRUE /\ overtaken = {}

-----------------------------------------------------------------------------
(* Calls begin *)

\* ensureAuthSession(): share the bootstrap under way, or begin one
Ensure(c, request) ==
    IF bootstrapPromise = NoCall
    THEN /\ calls' = [calls EXCEPT ![c] = [request EXCEPT !.at = "checks", !.cookie = cookie]]
         /\ bootstrapPromise' = c
    ELSE /\ calls' = [calls EXCEPT ![c] = [request EXCEPT !.at = "waits", !.on = bootstrapPromise]]
         /\ UNCHANGED bootstrapPromise

Request(op) == [NoRequest EXCEPT !.op = op, !.id = stored]

\* The bound of an instance
MayBegin == Cardinality(Under) + Cardinality({c \in Calls : late[c] # NoRequest}) < MaxRequests

\* A call begins; the history notes what it runs beside
Begins(c) ==
    /\ calls[c].at = "idle" /\ MayBegin
    /\ crossed' = (crossed \/ \E b, e \in Calls : /\ calls'[b].at \in {"checks", "opens"}
                                                  /\ calls'[e].op = "erase")
    /\ UNCHANGED <<stored, cookie, backend, cut, overtaken>>

\* loadStoredProfile(), from the effect of useProfileStore()
StartLoad(c) ==
    /\ state.status = "idle"
    /\ state' = [state EXCEPT !.status = "loading"]
    /\ Ensure(c, Request("load"))
    /\ Begins(c)
    /\ UNCHANGED calm

\* Mutant: the form is there while the stored profile is being loaded
FormShownEarly == state.status # "idle"

\* The onboarding page shows its form when nothing is being loaded
FormShown == state.status \notin {"idle", "loading"}

\* Without an identity a save creates a profile, with one it replaces that
SaveRequest == Request(IF stored = None THEN "create" ELSE "replace")

\* saveProfile(): a new form may be submitted while another's save is under way
StartSave(c, b) ==
    /\ FormShown
    /\ Ensure(c, [SaveRequest EXCEPT !.body = b])
    /\ Begins(c)
    /\ calm' = (calm /\ Changing = {})
    /\ UNCHANGED state

\* The profile page shows its buttons and asks for metrics beside a profile
ProfileShown == state.profile # NoBody

\* clearProfile()
StartClear(c) ==
    /\ ProfileShown
    /\ Ensure(c, Request("clear"))
    /\ Begins(c)
    /\ calm' = (calm /\ Saving = {})
    /\ UNCHANGED <<state>>

\* clearAnonymousAccount(): no bootstrap, the account is the cookie's
StartErase(c) ==
    /\ ProfileShown
    /\ calls' = [calls EXCEPT ![c] = [Request("erase") EXCEPT !.at = "asks", !.cookie = cookie]]
    /\ Begins(c)
    /\ calm' = (calm /\ Saving = {})
    /\ UNCHANGED <<state, bootstrapPromise>>

\* fetchProfileMetrics()
StartMetrics(c) ==
    /\ ProfileShown
    /\ Ensure(c, Request("metrics"))
    /\ Begins(c)
    /\ UNCHANGED <<state, calm>>

-----------------------------------------------------------------------------
(* What a request does in the backend *)

Known(request) == request.cookie \in open
Owned(request) ==
    LET id == request.id IN
    id # None /\ owner[id] = request.cookie /\ body[id] # NoBody

Opens ==
    /\ opened < MaxAccounts
    /\ opened' = opened + 1
    /\ open' = open \cup {opened + 1}
    /\ UNCHANGED <<owner, body, created>>

Creates(request) ==
    /\ created < MaxProfiles
    /\ created' = created + 1
    /\ owner' = [owner EXCEPT ![created + 1] = request.cookie]
    /\ body' = [body EXCEPT ![created + 1] = request.body]
    /\ UNCHANGED <<open, opened>>

Replaces(request) ==
    /\ body' = [body EXCEPT ![request.id] = request.body]
    /\ UNCHANGED <<open, opened, owner, created>>

Clears(request) ==
    /\ body' = [body EXCEPT ![request.id] = NoBody]
    /\ UNCHANGED <<open, opened, owner, created>>

\* The profiles first, then the account unless that fails
Erases(request, whole) ==
    /\ body' = [p \in Profiles |-> IF owner[p] = request.cookie THEN NoBody ELSE body[p]]
    /\ open' = IF whole THEN open \ {request.cookie} ELSE open
    /\ UNCHANGED <<opened, owner, created>>

-----------------------------------------------------------------------------
(* Requests are served *)

Sent(c) == calls[c].at \in {"checks", "opens", "asks"} /\ calls[c].answer = "none"
Asks(c, op) == Sent(c) /\ calls[c].at = "asks" /\ calls[c].op = op

Answers(c, answer) ==
    /\ calls' = [calls EXCEPT ![c].answer = answer]
    /\ UNCHANGED <<untouched, late>>

\* The answer names what was made for the call
AnswersWith(c, made) ==
    /\ calls' = [calls EXCEPT ![c].answer = "ok", ![c].gave = made]
    /\ UNCHANGED <<untouched, late, calm>>

\* GET /auth/session
ServeCheck(c) ==
    /\ Sent(c) /\ calls[c].at = "checks" /\ Known(calls[c])
    /\ Answers(c, "ok")
    /\ UNCHANGED <<tables, calm>>

\* POST /auth/session: the account of the token, or a new one and its cookie
ServeOpen(c) ==
    /\ Sent(c) /\ calls[c].at = "opens"
    /\ \/ Known(calls[c]) /\ Answers(c, "ok") /\ UNCHANGED <<tables, calm>>
       \/ ~Known(calls[c]) /\ Opens /\ AnswersWith(c, opened + 1)

\* Whatever needs a session is refused without one
ServeRefusal(c) ==
    /\ Sent(c) /\ calls[c].at \in {"checks", "asks"} /\ ~Known(calls[c])
    /\ Answers(c, "unauthorized")
    /\ UNCHANGED <<tables, calm>>

\* A profile that is not there is not the caller's either
ServeNotFound(c) ==
    /\ \E op \in {"load", "replace", "clear", "metrics"} : Asks(c, op)
    /\ Known(calls[c]) /\ ~Owned(calls[c])
    /\ Answers(c, "notfound")
    /\ UNCHANGED <<tables, calm>>

ServeLoad(c) ==
    /\ Asks(c, "load") /\ Known(calls[c]) /\ Owned(calls[c])
    /\ calls' = [calls EXCEPT ![c].answer = "ok", ![c].body = body[calls[c].id]]
    /\ UNCHANGED <<untouched, backend, calm>>

ServeMetrics(c) ==
    /\ Asks(c, "metrics") /\ Known(calls[c]) /\ Owned(calls[c])
    /\ Answers(c, "ok")
    /\ UNCHANGED <<tables, calm>>

ServeCreate(c) ==
    /\ Asks(c, "create") /\ Known(calls[c])
    /\ Creates(calls[c])
    /\ AnswersWith(c, created + 1)

ServeReplace(c) ==
    /\ Asks(c, "replace") /\ Known(calls[c]) /\ Owned(calls[c])
    /\ Replaces(calls[c])
    /\ AnswersWith(c, calls[c].id)

ServeClear(c) ==
    /\ Asks(c, "clear") /\ Known(calls[c]) /\ Owned(calls[c])
    /\ Clears(calls[c])
    /\ Answers(c, "ok")
    /\ UNCHANGED calm

ServeErase(c) ==
    /\ Asks(c, "erase") /\ Known(calls[c])
    /\ \/ Erases(calls[c], TRUE) /\ Answers(c, "ok") /\ UNCHANGED calm
       \/ Erases(calls[c], FALSE) /\ Answers(c, "fails") /\ calm' = FALSE

\* 429, 502 or 503, and nothing has changed
ServeFails(c) ==
    /\ Sent(c)
    /\ Answers(c, "fails")
    /\ UNCHANGED <<tables, calm>>

\* Given up before it was served, a request that changes the tables may be
\* served all the same: it is on its way, or its handler runs on.
Outlives(c) ==
    /\ Sent(c)
    /\ calls[c].at = "opens" \/ (calls[c].at = "asks" /\ calls[c].op \in Changes)
    /\ late[c] = NoRequest
    /\ late' = [late EXCEPT ![c] = calls[c]]

\* The connection breaks, or the proxy gives up after 8 s, before the answer
Lose(c) ==
    /\ calls[c].at \in {"checks", "opens", "asks"}
    /\ calls[c].answer # "fails"
    /\ calls' = [calls EXCEPT ![c].answer = "fails", ![c].gave = None]
    /\ calm' = (calm /\ ~(calls[c].at = "asks" /\ calls[c].op \in Changes))
    /\ Outlives(c) \/ UNCHANGED late
    /\ UNCHANGED <<untouched, tables>>

Serve(c) ==
    \/ ServeCheck(c) \/ ServeOpen(c) \/ ServeRefusal(c) \/ ServeNotFound(c)
    \/ ServeLoad(c) \/ ServeMetrics(c) \/ ServeCreate(c) \/ ServeReplace(c)
    \/ ServeClear(c) \/ ServeErase(c) \/ ServeFails(c) \/ Lose(c)

\* Rows change that a load has read whose answer is on its way
Overtakes ==
    overtaken' = overtaken \cup
        {c \in Calls : /\ calls[c].at = "asks" /\ calls[c].op = "load" /\ calls[c].answer = "ok"
                       /\ body'[calls[c].id] # body[calls[c].id]}

\* What was given up is served after all, or comes to nothing
ServeLate(c) ==
    LET request == late[c] IN
    /\ request # NoRequest
    /\ late' = [late EXCEPT ![c] = NoRequest]
    /\ \/ UNCHANGED tables
       \/ request.at = "opens" /\ ~Known(request) /\ Opens
       \/ /\ request.at = "asks" /\ Known(request)
          /\ \/ request.op = "create" /\ Creates(request)
             \/ request.op = "replace" /\ Owned(request) /\ Replaces(request)
             \/ request.op = "clear" /\ Owned(request) /\ Clears(request)
             \/ request.op = "erase" /\ \E whole \in BOOLEAN : Erases(request, whole)
    /\ Overtakes
    /\ UNCHANGED <<page, cut, crossed, calm>>

-----------------------------------------------------------------------------
(* Answers come back *)

Answered(c, at, answers) == calls[c].at = at /\ calls[c].answer \in answers

\* The calls a bootstrap was for
Sharing(c) == {x \in Calls : x = c \/ (calls[x].at = "waits" /\ calls[x].on = c)}

\* Mutant: whoever ends resets the promise, though it may be another's
SettledForAll(c) == NoCall

\* The `finally` of ensureAuthSession(): the promise is reset, failed or not,
\* unless it is another's by now
Settled(c) == IF bootstrapPromise = c THEN NoCall ELSE bootstrapPromise

\* 401: POST /auth/session
OpenSession(c) ==
    /\ Answered(c, "checks", {"unauthorized"})
    /\ calls' = [calls EXCEPT ![c].at = "opens", ![c].cookie = cookie, ![c].answer = "none"]
    /\ UNCHANGED <<state, stored, bootstrapPromise, cookie, backend, history>>

\* The session is there: all who wait for it send their request with its cookie
SessionReady(c) ==
    /\ Answered(c, "checks", {"ok"}) \/ Answered(c, "opens", {"ok"})
    /\ cookie' = IF calls[c].gave = None THEN cookie ELSE calls[c].gave
    /\ calls' = [x \in Calls |-> IF x \notin Sharing(c) THEN calls[x]
                    ELSE [calls[x] EXCEPT !.at = "asks", !.on = NoCall, !.cookie = cookie',
                                          !.answer = "none", !.gave = None]]
    /\ bootstrapPromise' = Settled(c)
    /\ cut' = cut \ {c}
    /\ UNCHANGED <<state, stored, backend, crossed, calm, overtaken>>

\* The `catch` of loadStoredProfile() for what is not a profile that is gone
LoadFailed == [state EXCEPT !.status = "error"]

\* There is no session: all who wait for it end with an error
SessionFails(c) ==
    /\ Answered(c, "checks", {"fails"}) \/ Answered(c, "opens", {"fails"})
    /\ calls' = [x \in Calls |-> IF x \in Sharing(c) THEN NoRequest ELSE calls[x]]
    /\ bootstrapPromise' = Settled(c)
    /\ state' = IF \E x \in Sharing(c) : calls[x].op = "load" THEN LoadFailed ELSE state
    /\ cut' = cut \ {c}
    /\ UNCHANGED <<stored, cookie, backend, crossed, calm, overtaken>>

Ends(c, ops, answers) ==
    /\ Answered(c, "asks", answers) /\ calls[c].op \in ops
    /\ calls' = [calls EXCEPT ![c] = NoRequest]
    /\ overtaken' = overtaken \ {c}
    /\ UNCHANGED <<backend, crossed, calm>>

\* The store is written with sessionStorage in one go
Keep(id, profile) ==
    /\ stored' = id
    /\ state' = [profileId |-> id, profile |-> profile, status |-> "ready"]

Forget(status) ==
    /\ stored' = None
    /\ state' = [Empty EXCEPT !.status = status]

\* Mutant: whatever fails is taken for a profile that is gone
LoadForgetsAlways(c) ==
    /\ \/ /\ Ends(c, {"load"}, {"ok"})
          /\ IF stored = calls[c].id THEN Keep(stored, calls[c].body) ELSE UNCHANGED <<stored, state>>
       \/ Ends(c, {"load"}, {"notfound", "unauthorized", "fails"}) /\ Forget("error")
    /\ UNCHANGED <<bootstrapPromise, cookie, cut>>

\* The answer to a load is dropped if the identity is another's by now
LoadAnswered(c) ==
    /\ \/ /\ Ends(c, {"load"}, {"ok"})
          /\ IF stored = calls[c].id THEN Keep(stored, calls[c].body) ELSE UNCHANGED <<stored, state>>
       \/ Ends(c, {"load"}, {"notfound"}) /\ Forget("error")
       \/ Ends(c, {"load"}, {"unauthorized", "fails"}) /\ state' = LoadFailed /\ UNCHANGED stored
    /\ UNCHANGED <<bootstrapPromise, cookie, cut>>

\* Mutant: what was entered is shown before the backend has it
SaveShowsAlways(c) ==
    /\ \/ Ends(c, Saves, {"ok"}) /\ Keep(calls[c].gave, calls[c].body)
       \/ /\ Ends(c, Saves, {"unauthorized", "notfound", "fails"})
          /\ state' = IF stored = None THEN state ELSE [state EXCEPT !.profile = calls[c].body]
          /\ UNCHANGED stored
    /\ UNCHANGED <<bootstrapPromise, cookie, cut>>

SaveAnswered(c) ==
    /\ \/ Ends(c, Saves, {"ok"}) /\ Keep(calls[c].gave, calls[c].body)
       \/ Ends(c, Saves, {"unauthorized", "notfound", "fails"}) /\ UNCHANGED <<stored, state>>
    /\ UNCHANGED <<bootstrapPromise, cookie, cut>>

ClearAnswered(c) ==
    /\ \/ Ends(c, {"clear"}, {"ok", "notfound"}) /\ Forget("empty")
       \/ Ends(c, {"clear"}, {"unauthorized", "fails"}) /\ UNCHANGED <<stored, state>>
    /\ UNCHANGED <<bootstrapPromise, cookie, cut>>

\* Mutant: the answer takes the cookie whether or not the account is gone
EraseTakesCookie(c) ==
    /\ Ends(c, {"erase"}, {"ok", "unauthorized", "fails"})
    /\ cookie' = None
    /\ IF calls[c].answer = "ok"
       THEN Forget("empty") /\ bootstrapPromise' = NoCall /\ cut' = Bootstrapping
       ELSE UNCHANGED <<stored, state, bootstrapPromise, cut>>

\* The answer takes the cookie, deleteAnonymousAccount() the shared bootstrap
EraseAnswered(c) ==
    \/ /\ Ends(c, {"erase"}, {"ok"})
       /\ Forget("empty")
       /\ cookie' = None
       /\ bootstrapPromise' = NoCall
       /\ cut' = Bootstrapping
    \/ /\ Ends(c, {"erase"}, {"unauthorized", "fails"})
       /\ UNCHANGED <<stored, state, bootstrapPromise, cookie, cut>>

MetricsAnswered(c) ==
    /\ Ends(c, {"metrics"}, {"ok", "unauthorized", "notfound", "fails"})
    /\ UNCHANGED <<stored, state, bootstrapPromise, cookie, cut>>

Return(c) ==
    \/ OpenSession(c) \/ SessionReady(c) \/ SessionFails(c)
    \/ LoadAnswered(c) \/ SaveAnswered(c) \/ ClearAnswered(c) \/ EraseAnswered(c)
    \/ MetricsAnswered(c)

-----------------------------------------------------------------------------
(* What happens to the page *)

\* The page is opened anew: memory is gone, sessionStorage and the cookie stay.
\* A request that was not served yet is given up first (Lose), and may be
\* served later; of a change that was served nobody hears.
Reload ==
    /\ ~\E c \in Calls : Sent(c)
    /\ calls' = [c \in Calls |-> NoRequest]
    /\ bootstrapPromise' = NoCall
    /\ state' = Reconciled
    /\ calm' = (calm /\ ~\E c \in Changing : calls[c].at = "asks")
    /\ cut' = {} /\ overtaken' = {}
    /\ UNCHANGED <<stored, cookie, backend, crossed>>

-----------------------------------------------------------------------------
(* What happens to the accounts *)

\* A session expires
Expire(u) ==
    /\ u \in open
    /\ open' = open \ {u}
    /\ UNCHANGED <<page, opened, owner, body, created, late, history>>

\* The retention process: users without a session that is valid are deleted,
\* and their profiles with them
Sweep ==
    /\ body' = [p \in Profiles |-> IF owner[p] \in open THEN body[p] ELSE NoBody]
    /\ Overtakes
    /\ UNCHANGED <<page, open, opened, owner, created, late, cut, crossed, calm>>

Next ==
    \/ \E c \in Calls :
        \/ StartLoad(c) \/ StartClear(c) \/ StartErase(c) \/ StartMetrics(c)
        \/ \E b \in Bodies : StartSave(c, b)
        \/ Serve(c) \/ ServeLate(c)
        \/ Return(c)
    \/ Reload
    \/ \E u \in Accounts : Expire(u)
    \/ Sweep

Spec == Init /\ [][Next]_vars

-----------------------------------------------------------------------------
(* Properties *)

CallRecord ==
    [op : Changes \cup {"none", "load", "metrics"},
     at : {"idle", "waits", "checks", "opens", "asks"},
     on : Calls \cup {NoCall}, id : Profiles \cup {None}, body : Bodies \cup {NoBody},
     cookie : Accounts \cup {None},
     answer : {"none", "ok", "unauthorized", "notfound", "fails"}, gave : Nat]

\* The types; accounts and profiles are those made so far, and a request that
\* is about a profile names one: loadStoredProfile() and saveProfile() test
\* the identity before they ask for it or replace it.
TypeOK ==
    /\ state \in [profileId : Profiles \cup {None}, profile : Bodies \cup {NoBody}, status : Statuses]
    /\ stored \in Profiles \cup {None}
    /\ bootstrapPromise \in Calls \cup {NoCall}
    /\ calls \in [Calls -> CallRecord]
    /\ \A c \in Under : calls[c].op \in {"load", "replace", "clear", "metrics"} => calls[c].id # None
    /\ cookie \in 0 .. opened
    /\ opened \in 0 .. MaxAccounts /\ open \subseteq 1 .. opened
    /\ owner \in [Profiles -> 0 .. opened] /\ body \in [Profiles -> Bodies \cup {NoBody}]
    /\ created \in 0 .. MaxProfiles
    /\ late \in [Calls -> CallRecord]
    /\ cut \subseteq Calls /\ {crossed, calm} \subseteq BOOLEAN /\ overtaken \subseteq Calls

\* ensureAuthSession() shares one bootstrap: one that is under way is the one
\* that calls share, unless an erasure cut it off, and the promise never is
\* one that has ended, whose failure every later call would inherit.  A call
\* waits for a bootstrap that is under way.
BootstrapIsShared ==
    /\ Bootstrapping \subseteq {bootstrapPromise} \cup cut
    /\ bootstrapPromise # NoCall => bootstrapPromise \in Bootstrapping
    /\ \A c \in Calls : calls[c].at = "waits" => calls[c].on \in Bootstrapping

\* The cookie of an open account, the only way to its data, is not taken from
\* the browser by the answer to a bootstrap, nor by any other than to the
\* erasure of that account, unless a bootstrap and an erasure crossed.
NoAccountAbandoned ==
    [][cookie' # cookie /\ cookie \in open => crossed]_vars

\* With no change under way the page and the backend agree: while the account
\* of the profile that is shown is open, it is the account of the cookie, and
\* what is shown is what is stored under the identity of sessionStorage.
\* (calm: no save ran into another change and no change lost its answer.)
InStep == calm /\ ~crossed /\ Changing = {}

ShownIsHeld ==
    state.profile # NoBody =>
        /\ state.profileId = stored
        /\ InStep /\ owner[stored] \in open => /\ owner[stored] = cookie
                                               /\ body[stored] = state.profile

\* The backend keeps nothing for the person that the page has lost: a profile
\* of the account of the cookie is the one whose identity is stored, so that
\* it can be shown, replaced and cleared.  Failed loads, saves and clears, a
\* lost session and a page that is opened anew change nothing about it.
NothingOutOfSight ==
    InStep /\ cookie \in open =>
        \A p \in Profiles : owner[p] = cookie /\ body[p] # NoBody => p = stored

\* A load is alone: it ends with a 404 by removing the identity without a
\* look at what is stored by then, which is right only because nothing else
\* can change the identity while it is under way.
LoadIsAlone ==
    \A c \in Under : calls[c].op = "load" =>
        /\ state.status = "loading" /\ stored = calls[c].id
        /\ Under = {c}

\* A page that has loaded shows what the backend holds and nothing that it
\* remembers, also where saves, clears and erasures ran into each other before
\* and left an identity whose profile is gone or another one: when a load ends,
\* what is shown is stored under the identity of sessionStorage at that moment,
\* unless that profile was changed after the load was served, which only a
\* change that was given up and the retention process can do.
LoadShowsWhatIsHeld ==
    [][\A c \in Calls :
          /\ calls[c].op = "load" /\ calls'[c].op # "load" /\ state'.profile # NoBody
          /\ c \notin overtaken
          => body[stored'] = state'.profile]_vars

=============================================================================
