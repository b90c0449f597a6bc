------------------------------ MODULE AccountData ------------------------------
(***************************************************************************)
(* The life cycle of an anonymous account's data: the PostgreSQL tables     *)
(* users, auth_sessions and financial_profiles, the HTTP handlers that      *)
(* change them (app/api/routes/auth.py, account.py, profiles.py), and the   *)
(* retention process that erases accounts nobody can reach any more         *)
(* (app/services/data_retention.py).                                        *)
(*                                                                         *)
(* One action is one database transaction.  A handler that runs several     *)
(* transactions is several actions, and anything may happen in between:     *)
(* another request, the retention process, the expiry of a session, an      *)
(* unreachable database, a restart of either process.                       *)
(***************************************************************************)
EXTENDS Naturals, FiniteSets

CONSTANTS
    Users,      \* the UUIDs that uuid4() may return for a user
    Profiles,   \* the UUIDs that uuid4() may return for a profile
    Legacy,     \* profiles older than the ownership migration: no owner
    Bodies,     \* profile contents, as far as they are told apart
    Requests,   \* the slots of requests the backend serves at a time
    Ops,        \* the operations clients call
    None,       \* SQL's NULL, and a request without a session cookie
    TTL,        \* AUTH_SESSION_TTL_SECONDS, in ticks of the clock
    MaxClock    \* bound: the clock of an instance stops here

ItemOps == {"get", "metrics", "replace", "delete"}
AllOps == {"bootstrap", "read", "logout", "erase", "create"} \cup ItemOps

ASSUME OpsAssumption == Ops \subseteq AllOps
ASSUME LegacyAssumption == Legacy \subseteq Profiles
ASSUME NoneAssumption == None \notin Users \cup Profiles \cup Bodies
ASSUME SortsAssumption == Users \cap Profiles = {}
ASSUME TimeAssumption == TTL \in Nat \ {0} /\ MaxClock \in Nat

VARIABLES
    clock,      \* the host's clock, which both processes read
    users,      \* table users
    sessions,   \* table auth_sessions: expires_at of the user's session
    profiles,   \* table financial_profiles
    minted,     \* history: identifiers ever stored, uuid4() repeats none
    issued,     \* tokens that have reached a client in a Set-Cookie
    req,        \* what each request slot is doing, or has answered
    sweeper,    \* the retention process: where run_cycle is
    heartbeat,  \* the retention heartbeat file
    promised    \* history: users told 204 by DELETE /auth/account

tables == <<users, sessions, profiles, minted>>
vars == <<clock, tables, issued, req, sweeper, heartbeat, promised>>

-----------------------------------------------------------------------------
(* Rows.  A session belongs to the one user it was created with, so it is   *)
(* kept under that user's id and the user's id stands for the cookie.       *)

NoSession == 0
Absent == [owner |-> None, body |-> None]
Row(u, b) == [owner |-> u, body |-> b]

\* The WHERE clause of get(): a session row that expires after now.
Live(u, now) == sessions[u] > now

\* Mutant: the cleanup forgets the subquery on live sessions.
StaleUsers_NoSubquery(now) == users

\* The SELECT of cleanup_expired(): no session of the user outlives now.
StaleUsers(now) == {u \in users : ~Live(u, now)}

\* Mutant: profiles are looked up by their id alone.
Owns_ById(u, p) == profiles[p] # Absent

\* The WHERE clause that every profile query carries.
Owns(u, p) == profiles[p] # Absent /\ profiles[p].owner = u

\* Mutant: deleting a user leaves the profiles to the explicit wipe.
DeleteUsers_NoCascade(gone) ==
    /\ users' = users \ gone
    /\ sessions' = [u \in Users |-> IF u \in gone THEN NoSession ELSE sessions[u]]
    /\ UNCHANGED <<profiles, minted>>

\* DELETE FROM users: the foreign keys cascade to the sessions and profiles.
DeleteUsers(gone) ==
    /\ users' = users \ gone
    /\ sessions' = [u \in Users |-> IF u \in gone THEN NoSession ELSE sessions[u]]
    /\ profiles' = [p \in Profiles |->
                      IF profiles[p].owner \in gone THEN Absent ELSE profiles[p]]
    /\ UNCHANGED minted

-----------------------------------------------------------------------------
(* Requests.                                                                *)

Answered(status) ==
    [op |-> "none", user |-> None, pid |-> None, pc |-> "done", status |-> status]

Statuses == {0, 200, 201, 204, 401, 404, 503}
Steps == {"auth", "open", "revoke", "wipe", "reauth", "remove_user",
          "insert", "select", "update", "remove", "done"}

\* The transaction that follows authentication.
FirstStep ==
    [bootstrap |-> "done", read |-> "done", logout |-> "revoke", erase |-> "wipe",
     create |-> "insert", get |-> "select", metrics |-> "select",
     replace |-> "update", delete |-> "remove"]

At(r, pc) == req[r].pc = pc
Goto(r, pc) == req' = [req EXCEPT ![r].pc = pc]
Answer(r, status) == req' = [req EXCEPT ![r] = Answered(status)]

\* What the handler sees of a commit: its success, or a connection that broke
\* after the server had committed, which it reports as a storage failure.
Committed(r, status) == Answer(r, status) \/ Answer(r, 503)

Start(r) ==
    /\ At(r, "done")
    /\ \E op \in Ops, u \in issued \cup {None} :
       \E p \in IF op \in ItemOps THEN Profiles ELSE {None} :
          req' = [req EXCEPT ![r] = [op |-> op, user |-> u, pid |-> p,
                                     pc |-> "auth", status |-> 0]]
    /\ UNCHANGED <<clock, tables, issued, sweeper, heartbeat, promised>>

\* get_current_session(), and the first half of bootstrap().
Authenticate(r) ==
    /\ At(r, "auth")
    /\ LET u == req[r].user  op == req[r].op
           accepted == u # None /\ Live(u, clock) IN
       \/ /\ accepted
          /\ IF FirstStep[op] = "done"
               THEN Answer(r, IF op = "bootstrap" THEN 201 ELSE 200)
               ELSE Goto(r, FirstStep[op])
       \/ /\ ~accepted
          /\ IF op = "bootstrap" THEN Goto(r, "open") ELSE Answer(r, 401)
    /\ UNCHANGED <<clock, tables, issued, sweeper, heartbeat, promised>>

\* bootstrap(): a new user and its only session, in one transaction.
OpenAccount(r) ==
    /\ At(r, "open")
    /\ \E u \in Users \ minted :
         /\ users' = users \cup {u}
         /\ sessions' = [sessions EXCEPT ![u] = clock + TTL]
         /\ minted' = minted \cup {u}
         /\ \/ Answer(r, 201) /\ issued' = issued \cup {u}
            \/ Answer(r, 503) /\ UNCHANGED issued
    /\ UNCHANGED <<clock, profiles, sweeper, heartbeat, promised>>

\* revoke()
Revoke(r) ==
    /\ At(r, "revoke")
    /\ sessions' = [sessions EXCEPT ![req[r].user] = NoSession]
    /\ Committed(r, 204)
    /\ UNCHANGED <<clock, users, profiles, minted, issued, sweeper, heartbeat, promised>>

\* delete_anonymous_account(), its first transaction: delete_all_for_owner().
WipeProfiles(r) ==
    /\ At(r, "wipe")
    /\ profiles' = [p \in Profiles |->
                      IF Owns(req[r].user, p) THEN Absent ELSE profiles[p]]
    /\ Goto(r, "reauth") \/ Answer(r, 503)
    /\ UNCHANGED <<clock, users, sessions, minted, issued, sweeper, heartbeat, promised>>

\* Mutant: a cookie that no longer opens anything counts as an erased account.
Reauthenticate_Lenient(r) ==
    /\ At(r, "reauth")
    /\ IF Live(req[r].user, clock) THEN Goto(r, "remove_user") ELSE Answer(r, 204)
    /\ UNCHANGED <<clock, tables, issued, sweeper, heartbeat, promised>>

\* delete_account() authenticates the cookie once more ...
Reauthenticate(r) ==
    /\ At(r, "reauth")
    /\ IF Live(req[r].user, clock) THEN Goto(r, "remove_user") ELSE Answer(r, 401)
    /\ UNCHANGED <<clock, tables, issued, sweeper, heartbeat, promised>>

\* ... and then deletes the user, if there still is one.
RemoveUser(r) ==
    /\ At(r, "remove_user")
    /\ DeleteUsers({req[r].user})
    /\ \/ Answer(r, 204) /\ promised' = promised \cup {req[r].user}
       \/ Answer(r, 503) /\ UNCHANGED promised
    /\ UNCHANGED <<clock, issued, sweeper, heartbeat>>

\* Mutant: the owner column has no foreign key.
InsertProfile_NoForeignKey(r) ==
    /\ At(r, "insert")
    /\ \E p \in Profiles \ minted, b \in Bodies :
         /\ profiles' = [profiles EXCEPT ![p] = Row(req[r].user, b)]
         /\ minted' = minted \cup {p}
    /\ Committed(r, 201)
    /\ UNCHANGED <<clock, users, sessions, issued, sweeper, heartbeat, promised>>

\* create(): the foreign key refuses an owner that is gone.
InsertProfile(r) ==
    /\ At(r, "insert")
    /\ \/ /\ req[r].user \in users
          /\ \E p \in Profiles \ minted, b \in Bodies :
               /\ profiles' = [profiles EXCEPT ![p] = Row(req[r].user, b)]
               /\ minted' = minted \cup {p}
          /\ Committed(r, 201)
       \/ /\ req[r].user \notin users
          /\ Answer(r, 503)
          /\ UNCHANGED <<profiles, minted>>
    /\ UNCHANGED <<clock, users, sessions, issued, sweeper, heartbeat, promised>>

\* get(), for the resource itself and for the metrics derived from it.
SelectProfile(r) ==
    /\ At(r, "select")
    /\ Answer(r, IF Owns(req[r].user, req[r].pid) THEN 200 ELSE 404)
    /\ UNCHANGED <<clock, tables, issued, sweeper, heartbeat, promised>>

\* replace()
UpdateProfile(r) ==
    /\ At(r, "update")
    /\ LET u == req[r].user  p == req[r].pid IN
       \/ /\ Owns(u, p)
          /\ \E b \in Bodies : profiles' = [profiles EXCEPT ![p] = Row(u, b)]
          /\ Committed(r, 200)
       \/ /\ ~Owns(u, p)
          /\ Answer(r, 404)
          /\ UNCHANGED profiles
    /\ UNCHANGED <<clock, users, sessions, minted, issued, sweeper, heartbeat, promised>>

\* delete()
RemoveProfile(r) ==
    /\ At(r, "remove")
    /\ \/ /\ Owns(req[r].user, req[r].pid)
          /\ profiles' = [profiles EXCEPT ![req[r].pid] = Absent]
          /\ Committed(r, 204)
       \/ /\ ~Owns(req[r].user, req[r].pid)
          /\ Answer(r, 404)
          /\ UNCHANGED profiles
    /\ UNCHANGED <<clock, users, sessions, minted, issued, sweeper, heartbeat, promised>>

\* Any transaction may fail and roll back; every handler answers 503.
Unavailable(r) ==
    /\ ~At(r, "done")
    /\ Answer(r, 503)
    /\ UNCHANGED <<clock, tables, issued, sweeper, heartbeat, promised>>

\* The backend restarts: the requests it was serving are never answered.
RestartBackend ==
    /\ \E r \in Requests : ~At(r, "done")
    /\ req' = [r \in Requests |->
                 IF At(r, "done") THEN req[r] ELSE Answered(0)]
    /\ UNCHANGED <<clock, tables, issued, sweeper, heartbeat, promised>>

-----------------------------------------------------------------------------
(* The retention process.  run_cycle() is read_clock, sessions (a SELECT,    *)
(* then a DELETE of what it returned), counters, mark_success.               *)

\* Mutant: the rate-limit counters are cleaned first.
StageAfter_CountersFirst == [start |-> "counters", sessions |-> "mark", counters |-> "select"]

\* The order of the stages of run_once() and run_cycle().
StageAfter == [start |-> "select", sessions |-> "counters", counters |-> "mark"]

NoBeat == [marked |-> FALSE, owed |-> {}]
Asleep == [pc |-> "sleep", now |-> 0, stale |-> {}, owed |-> {}]

SweepAt(pc) == sweeper.pc = pc

\* run_once() reads the clock.  owed is history: the accounts due at that time.
SweepStart ==
    /\ SweepAt("sleep")
    /\ sweeper' = [pc |-> StageAfter["start"], now |-> clock,
                   stale |-> {}, owed |-> StaleUsers(clock)]
    /\ UNCHANGED <<clock, tables, issued, req, heartbeat, promised>>

SweepSelect ==
    /\ SweepAt("select")
    /\ LET stale == StaleUsers(sweeper.now) IN
       sweeper' = [sweeper EXCEPT
                     !.stale = stale,
                     !.pc = IF stale = {} THEN StageAfter["sessions"] ELSE "delete"]
    /\ UNCHANGED <<clock, tables, issued, req, heartbeat, promised>>

\* The DELETE commits; the process may still see its connection break.
SweepDelete ==
    /\ SweepAt("delete")
    /\ DeleteUsers(sweeper.stale)
    /\ \/ sweeper' = [sweeper EXCEPT !.pc = StageAfter["sessions"], !.stale = {}]
       \/ sweeper' = Asleep
    /\ UNCHANGED <<clock, issued, req, heartbeat, promised>>

\* The closed rate-limit windows, which are no part of this module's state.
SweepCounters ==
    /\ SweepAt("counters")
    /\ sweeper' = [sweeper EXCEPT !.pc = StageAfter["counters"]]
    /\ UNCHANGED <<clock, tables, issued, req, heartbeat, promised>>

\* mark_success()
SweepMark ==
    /\ SweepAt("mark")
    /\ heartbeat' = [marked |-> TRUE, owed |-> sweeper.owed]
    /\ sweeper' = Asleep
    /\ UNCHANGED <<clock, tables, issued, req, promised>>

\* Mutant: the heartbeat is written whether or not the cycle succeeded.
SweepFail_Marks ==
    /\ sweeper.pc \in {"select", "delete", "counters"}
    /\ heartbeat' = [marked |-> TRUE, owed |-> sweeper.owed]
    /\ sweeper' = Asleep
    /\ UNCHANGED <<clock, tables, issued, req, promised>>

\* A stage raises: the cycle is over, the heartbeat stays what it was.
SweepFail ==
    /\ sweeper.pc \in {"select", "delete", "counters"}
    /\ sweeper' = Asleep
    /\ UNCHANGED <<clock, tables, issued, req, heartbeat, promised>>

\* The container restarts, and the heartbeat on its tmpfs is lost.
SweepRestart ==
    /\ sweeper' = Asleep
    /\ heartbeat' = NoBeat
    /\ UNCHANGED <<clock, tables, issued, req, promised>>

Tick ==
    /\ clock < MaxClock
    /\ clock' = clock + 1
    /\ UNCHANGED <<tables, issued, req, sweeper, heartbeat, promised>>

-----------------------------------------------------------------------------
Init ==
    /\ clock = 0
    /\ users = {}
    /\ sessions = [u \in Users |-> NoSession]
    /\ profiles \in {f \in [Profiles -> {Row(None, b) : b \in Bodies} \cup {Absent}] :
                       \A p \in Profiles : f[p] = Absent <=> p \notin Legacy}
    /\ minted = Legacy
    /\ issued = {}
    /\ req = [r \in Requests |-> Answered(0)]
    /\ sweeper = Asleep
    /\ heartbeat = NoBeat
    /\ promised = {}

Serve(r) ==
    \/ Start(r) \/ Authenticate(r) \/ OpenAccount(r) \/ Revoke(r)
    \/ WipeProfiles(r) \/ Reauthenticate(r) \/ RemoveUser(r)
    \/ InsertProfile(r) \/ SelectProfile(r) \/ UpdateProfile(r)
    \/ RemoveProfile(r) \/ Unavailable(r)

Sweep ==
    \/ SweepStart \/ SweepSelect \/ SweepDelete \/ SweepCounters
    \/ SweepMark \/ SweepFail \/ SweepRestart

Next == (\E r \in Requests : Serve(r)) \/ RestartBackend \/ Sweep \/ Tick

Spec == Init /\ [][Next]_vars

(***************************************************************************)
(* The retention process keeps running (restart: unless-stopped), and the   *)
(* database answers its two statements infinitely often.  Nothing is        *)
(* assumed of the counters stage beyond that it ends: it may fail for ever. *)
(***************************************************************************)
SweepFairness ==
    /\ WF_vars(SweepStart)
    /\ SF_vars(SweepSelect)
    /\ SF_vars(SweepDelete)
    /\ WF_vars(SweepCounters \/ SweepFail)
    /\ WF_vars(SweepMark)

FairSpec == Spec /\ SweepFairness

-----------------------------------------------------------------------------
(* Properties.                                                              *)

ProfileRow == [owner : Users \cup {None}, body : Bodies \cup {None}]
Request == [op : AllOps \cup {"none"}, user : Users \cup {None}, pid : Profiles \cup {None},
            pc : Steps, status : Statuses]
SweepSteps == {"sleep", "select", "delete", "counters", "mark"}

\* The type of every variable.
TypeOK ==
    /\ clock \in 0 .. MaxClock
    /\ users \subseteq Users
    /\ sessions \in [Users -> 0 .. MaxClock + TTL]
    /\ profiles \in [Profiles -> ProfileRow]
    /\ minted \subseteq Users \cup Profiles
    /\ issued \subseteq Users
    /\ req \in [Requests -> Request]
    /\ sweeper \in [pc : SweepSteps, now : 0 .. MaxClock,
                    stale : SUBSET Users, owed : SUBSET Users]
    /\ heartbeat \in [marked : BOOLEAN, owed : SUBSET Users]
    /\ promised \subseteq Users

\* No session and no profile outlives its user, although profiles are inserted
\* by requests that were authenticated before the user was deleted.
NoOrphanedData ==
    /\ \A u \in Users : sessions[u] # NoSession => u \in users
    /\ \A p \in Profiles : profiles[p].owner \in users \cup {None}

\* DELETE /auth/account answered 204: the user, the session and all profiles
\* are gone and stay gone, whatever else was in flight
\* (docs/24-anonymous-data-lifecycle.md: the old cookie gets 401 and no user,
\* session or profile row remains).
ErasureIsFinal ==
    \A u \in promised :
        /\ u \notin users
        /\ sessions[u] = NoSession
        /\ \A p \in Profiles : profiles[p].owner # u

\* The heartbeat file says that every account that was due when the cycle that
\* wrote it began has been erased: a failed cycle never refreshes it.
HeartbeatIsEarned == heartbeat.owed \cap users = {}

\* A stored profile changes or disappears only in a step of a request of its
\* owner, or in the retention process once the owner's session is over; a row
\* without an owner is never touched.
RowsChangeForTheirOwner ==
    [][\A p \in Profiles :
          profiles[p] # Absent /\ profiles'[p] # profiles[p] =>
             LET o == profiles[p].owner IN
             /\ o \in Users
             /\ \/ \E r \in Requests : req[r].user = o /\ req'[r] # req[r]
                \/ sweeper' # sweeper /\ ~Live(o, clock)]_vars

\* The answer to DELETE /auth/account is true when it is given: after 204 the
\* user is gone, and after 401 the cookie opens nothing, although the handler
\* authenticates in two transactions and deletes in two others.
ErasureAnswerIsTrue ==
    [][\A r \in Requests :
          req[r].op = "erase" /\ ~At(r, "done") /\ req'[r].pc = "done" =>
             /\ req'[r].status = 204 => req[r].user \notin users'
             /\ req'[r].status = 401 /\ req[r].user # None =>
                   ~(sessions'[req[r].user] > clock')]_vars

\* An account nobody can reach any more is erased in the end, even if the
\* second stage of every retention cycle fails.
StaleDataIsErased ==
    \A u \in Users : (u \in users /\ ~Live(u, clock)) ~> u \notin users

(***************************************************************************)
(* The tables implement what AccountPromise promises.                       *)
(***************************************************************************)
AccountState ==
    [u \in Users |->
        IF u \in users THEN IF Live(u, clock) THEN "open" ELSE "closed"
        ELSE IF u \in minted THEN "erased" ELSE "unused"]
HeldProfiles == [u \in Users |-> {p \in Profiles : profiles[p].owner = u}]
ErasureSteps == {"wipe", "reauth", "remove_user"}
ErasureAsked == {u \in Users : \E r \in Requests : req[r].user = u /\ req[r].pc \in ErasureSteps}

Promise == INSTANCE AccountPromise
             WITH account <- AccountState, holds <- HeldProfiles,
                  asked <- ErasureAsked, spent <- minted \cap Profiles

\* Every behaviour of the tables and handlers is one that AccountPromise allows:
\* identities never come back, nothing is stored for an erased account, and an
\* account is erased only when its holder asks or when it is closed.
KeepsPromise == Promise!Spec
=============================================================================
