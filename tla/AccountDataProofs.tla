--------------------------- MODULE AccountDataProofs ---------------------------
(***************************************************************************)
(* Proofs about AccountData, for every set of users, profiles and requests, *)
(* every session lifetime and every bound on the clock.                     *)
(***************************************************************************)
EXTENDS AccountData, TLAPS

(***************************************************************************)
(* The inductive invariant.  The safety properties are not inductive: they  *)
(* hold because identifiers are never minted twice, because a request only  *)
(* carries tokens of minted users, and because an account that was stale    *)
(* when the retention process looked cannot become live again.              *)
(***************************************************************************)
IdsAreMinted ==
    /\ users \subseteq minted
    /\ issued \subseteq minted
    /\ promised \subseteq minted
    /\ heartbeat.owed \subseteq minted
    /\ \A p \in Profiles \ minted : profiles[p] = Absent

AuthenticatedSteps == {"revoke", "wipe", "reauth", "remove_user", "insert",
                       "select", "update", "remove"}
ItemSteps == {"select", "update", "remove"}

RequestsAreWellFormed ==
    \A r \in Requests :
        /\ req[r].user \in issued \cup {None}
        /\ req[r].pc = "auth" => req[r].op \in AllOps
        /\ req[r].pc = "auth" /\ req[r].op \in ItemOps => req[r].pid \in Profiles
        /\ req[r].pc \in AuthenticatedSteps => req[r].user # None
        /\ req[r].pc \in ItemSteps => req[r].pid \in Profiles
        /\ req[r].pc = "done" => req[r].user = None
        /\ req[r].op = "erase" => req[r].pc \in {"auth"} \cup ErasureSteps

PromisedAreGone == promised \cap users = {}

StaleStaysStale ==
    /\ sweeper.now <= clock
    /\ \A u \in sweeper.owed \cup sweeper.stale :
          u \in minted /\ ~(sessions[u] > sweeper.now)

SweepCoversOwed ==
    /\ sweeper.pc = "delete" => sweeper.owed \cap users \subseteq sweeper.stale
    /\ sweeper.pc \in {"counters", "mark"} => sweeper.owed \cap users = {}

IInv ==
    /\ TypeOK
    /\ IdsAreMinted
    /\ RequestsAreWellFormed
    /\ NoOrphanedData
    /\ PromisedAreGone
    /\ StaleStaysStale
    /\ SweepCoversOwed
    /\ HeartbeatIsEarned

-----------------------------------------------------------------------------
(* Steps of a request: what Answer and Goto leave of the invariant.          *)

RequestsOK == req \in [Requests -> Request] /\ RequestsAreWellFormed

LEMMA AnswerKeeps ==
    ASSUME NEW r \in Requests, NEW status \in Statuses,
           RequestsOK, Answer(r, status), issued \subseteq issued'
    PROVE  RequestsOK'
<1>1. req' \in [Requests -> Request]
  BY DEF RequestsOK, Answer, Answered, Request, Steps, Statuses
<1>2. RequestsAreWellFormed'
  BY DEF RequestsOK, Answer, Answered, RequestsAreWellFormed, AuthenticatedSteps, ItemSteps,
         ErasureSteps
<1> QED BY <1>1, <1>2 DEF RequestsOK

LEMMA GotoKeeps ==
    ASSUME NEW r \in Requests, NEW pc \in Steps \ {"auth", "done"},
           RequestsOK, Goto(r, pc), issued' = issued,
           pc \in AuthenticatedSteps => req[r].user # None,
           pc \in ItemSteps => req[r].pid \in Profiles,
           req[r].op = "erase" => pc \in ErasureSteps
    PROVE  RequestsOK'
<1>1. req' \in [Requests -> Request]
  BY DEF RequestsOK, Goto, Request, Steps
<1>2. RequestsAreWellFormed'
  BY DEF RequestsOK, Goto, RequestsAreWellFormed, Request
<1> QED BY <1>1, <1>2 DEF RequestsOK

\* A step that changes nothing but requests.
LEMMA RequestStepKeeps ==
    ASSUME IInv, RequestsOK',
           UNCHANGED <<clock, tables, issued, sweeper, heartbeat, promised>>
    PROVE  IInv'
BY DEF IInv, RequestsOK, TypeOK, IdsAreMinted, NoOrphanedData, PromisedAreGone,
       StaleStaysStale, SweepCoversOwed, HeartbeatIsEarned, tables

LEMMA StartKeeps ==
    ASSUME IInv, NEW r \in Requests, Start(r)
    PROVE  IInv'
<1>1. RequestsOK
  BY DEF IInv, TypeOK, RequestsOK
<1>2. PICK op \in Ops, u \in issued \cup {None} :
        \E p \in IF op \in ItemOps THEN Profiles ELSE {None} :
           req' = [req EXCEPT ![r] = [op |-> op, user |-> u, pid |-> p,
                                      pc |-> "auth", status |-> 0]]
  BY DEF Start
<1>3. PICK p \in IF op \in ItemOps THEN Profiles ELSE {None} :
        req' = [req EXCEPT ![r] = [op |-> op, user |-> u, pid |-> p,
                                   pc |-> "auth", status |-> 0]]
  BY <1>2
<1>4. op \in AllOps /\ u \in Users \cup {None} /\ p \in Profiles \cup {None}
  BY <1>1, OpsAssumption DEF IInv, TypeOK
<1>5. req' \in [Requests -> Request]
  BY <1>1, <1>3, <1>4 DEF RequestsOK, Request, Steps, Statuses
<1>6. op \in ItemOps => p \in Profiles
  BY <1>3
<1>7. issued' = issued
  BY DEF Start
<1>8. RequestsAreWellFormed'
  BY <1>1, <1>3, <1>4, <1>6, <1>7
  DEF RequestsOK, RequestsAreWellFormed, AuthenticatedSteps, ItemSteps, ErasureSteps
<1> QED BY <1>5, <1>8, RequestStepKeeps DEF Start, RequestsOK

LEMMA AuthenticateKeeps ==
    ASSUME IInv, NEW r \in Requests, Authenticate(r)
    PROVE  IInv'
<1>1. RequestsOK /\ issued' = issued /\ req[r].pc = "auth"
  BY DEF IInv, TypeOK, RequestsOK, Authenticate, At
<1>2. req[r].op \in AllOps /\ (req[r].op \in ItemOps => req[r].pid \in Profiles)
  BY <1>1 DEF RequestsOK, RequestsAreWellFormed
<1>3. CASE \E status \in Statuses : Answer(r, status)
  BY <1>1, <1>3, AnswerKeeps, RequestStepKeeps DEF Authenticate
<1>4. CASE req[r].op = "bootstrap" /\ Goto(r, "open")
  <2>1. "open" \in Steps \ {"auth", "done"} /\ "open" \notin AuthenticatedSteps \cup ItemSteps
    BY DEF Steps, AuthenticatedSteps, ItemSteps
  <2>2. RequestsOK'
    BY <1>1, <1>4, <2>1, GotoKeeps
  <2> QED BY <2>2, RequestStepKeeps DEF Authenticate
<1>5. CASE req[r].user # None /\ FirstStep[req[r].op] # "done" /\ Goto(r, FirstStep[req[r].op])
  <2> DEFINE pc == FirstStep[req[r].op]
  <2>1. pc \in Steps \ {"auth", "done"}
    BY <1>2, <1>5 DEF FirstStep, AllOps, ItemOps, Steps
  <2>2. pc \in ItemSteps => req[r].pid \in Profiles
    BY <1>2, <1>5 DEF FirstStep, AllOps, ItemOps, ItemSteps
  <2>3. req[r].op = "erase" => pc \in ErasureSteps
    BY DEF FirstStep, ErasureSteps
  <2>4. RequestsOK'
    BY <1>1, <1>5, <2>1, <2>2, <2>3, GotoKeeps
  <2> QED BY <2>4, RequestStepKeeps DEF Authenticate
<1> QED
  BY <1>3, <1>4, <1>5 DEF Authenticate, Statuses

LEMMA OtherRequestStepsKeep ==
    ASSUME IInv, NEW r \in Requests,
           Reauthenticate(r) \/ SelectProfile(r) \/ Unavailable(r)
    PROVE  IInv'
<1>1. RequestsOK /\ issued' = issued
  BY DEF IInv, TypeOK, RequestsOK, Reauthenticate, SelectProfile, Unavailable
<1>2. CASE \E status \in Statuses : Answer(r, status)
  BY <1>1, <1>2, AnswerKeeps, RequestStepKeeps DEF Reauthenticate, SelectProfile, Unavailable
<1>3. CASE At(r, "reauth") /\ Goto(r, "remove_user")
  <2>1. req[r].user # None
    BY <1>1, <1>3 DEF At, RequestsOK, RequestsAreWellFormed, AuthenticatedSteps
  <2>2. /\ "remove_user" \in Steps \ {"auth", "done"}
        /\ "remove_user" \notin ItemSteps /\ "remove_user" \in ErasureSteps
    BY DEF Steps, ItemSteps, ErasureSteps
  <2>3. RequestsOK'
    BY <1>1, <1>3, <2>1, <2>2, GotoKeeps
  <2> QED BY <2>3, RequestStepKeeps DEF Reauthenticate, SelectProfile, Unavailable
<1> QED
  BY <1>2, <1>3 DEF Reauthenticate, SelectProfile, Unavailable, Statuses

LEMMA RestartBackendKeeps ==
    ASSUME IInv, RestartBackend
    PROVE  IInv'
<1>1. RequestsOK /\ issued' = issued
  BY DEF IInv, TypeOK, RequestsOK, RestartBackend
<1>2. req' \in [Requests -> Request]
  BY <1>1 DEF RequestsOK, RestartBackend, Answered, Request, Steps, Statuses
<1>3. RequestsAreWellFormed'
  BY <1>1 DEF RequestsOK, RestartBackend, Answered, RequestsAreWellFormed,
              AuthenticatedSteps, ItemSteps, ErasureSteps, At
<1> QED BY <1>2, <1>3, RequestStepKeeps DEF RestartBackend, RequestsOK

-----------------------------------------------------------------------------
(* Steps of a request that change the tables.                                *)

LEMMA OpenAccountKeeps ==
    ASSUME IInv, NEW r \in Requests, OpenAccount(r)
    PROVE  IInv'
<1>1. PICK u \in Users \ minted :
        /\ users' = users \cup {u}
        /\ sessions' = [sessions EXCEPT ![u] = clock + TTL]
        /\ minted' = minted \cup {u}
        /\ \/ Answer(r, 201) /\ issued' = issued \cup {u}
           \/ Answer(r, 503) /\ UNCHANGED issued
  BY DEF OpenAccount
<1>2. UNCHANGED <<clock, profiles, sweeper, heartbeat, promised>>
  BY DEF OpenAccount
<1>3. RequestsOK'
  BY <1>1, AnswerKeeps DEF IInv, TypeOK, RequestsOK, Statuses
<1>4. TypeOK'
  BY <1>1, <1>2, <1>3, TimeAssumption DEF IInv, TypeOK, RequestsOK
<1>5. IdsAreMinted' /\ NoOrphanedData' /\ PromisedAreGone' /\ HeartbeatIsEarned'
  BY <1>1, <1>2 DEF IInv, TypeOK, IdsAreMinted, NoOrphanedData, PromisedAreGone,
                    HeartbeatIsEarned
<1>6. StaleStaysStale' /\ SweepCoversOwed'
  BY <1>1, <1>2 DEF IInv, TypeOK, StaleStaysStale, SweepCoversOwed
<1> QED BY <1>3, <1>4, <1>5, <1>6 DEF IInv, RequestsOK

LEMMA RevokeKeeps ==
    ASSUME IInv, NEW r \in Requests, Revoke(r)
    PROVE  IInv'
<1>1. /\ sessions' = [sessions EXCEPT ![req[r].user] = NoSession]
      /\ UNCHANGED <<clock, users, profiles, minted, issued, sweeper, heartbeat, promised>>
  BY DEF Revoke
<1>2. RequestsOK'
  BY <1>1, AnswerKeeps DEF Revoke, Committed, IInv, TypeOK, RequestsOK, Statuses
<1>3. TypeOK'
  <2>1. NoSession \in 0 .. MaxClock + TTL
    BY TimeAssumption DEF NoSession
  <2>2. sessions' \in [Users -> 0 .. MaxClock + TTL]
    BY <1>1, <2>1 DEF IInv, TypeOK
  <2> QED BY <1>1, <1>2, <2>2 DEF IInv, TypeOK, RequestsOK
<1>4. IdsAreMinted' /\ NoOrphanedData' /\ PromisedAreGone' /\ HeartbeatIsEarned'
  BY <1>1 DEF IInv, TypeOK, IdsAreMinted, NoOrphanedData, PromisedAreGone,
              HeartbeatIsEarned
<1>5. StaleStaysStale' /\ SweepCoversOwed'
  BY <1>1 DEF IInv, TypeOK, StaleStaysStale, SweepCoversOwed, NoSession
<1> QED BY <1>2, <1>3, <1>4, <1>5 DEF IInv, RequestsOK

\* The four steps that change profiles and nothing else of the tables.
LEMMA ProfileStepKeeps ==
    ASSUME IInv, RequestsOK', profiles' \in [Profiles -> ProfileRow],
           \A p \in Profiles : profiles'[p].owner \in users \cup {None},
           minted \subseteq minted', minted' \subseteq Users \cup Profiles,
           \A p \in Profiles \ minted' : profiles'[p] = Absent,
           UNCHANGED <<clock, users, sessions, issued, sweeper, heartbeat, promised>>
    PROVE  IInv'
<1>1. TypeOK'
  BY DEF IInv, TypeOK, RequestsOK
<1>2. IdsAreMinted' /\ NoOrphanedData' /\ PromisedAreGone' /\ HeartbeatIsEarned'
  BY DEF IInv, TypeOK, IdsAreMinted, NoOrphanedData, PromisedAreGone, HeartbeatIsEarned
<1>3. StaleStaysStale' /\ SweepCoversOwed'
  BY DEF IInv, TypeOK, StaleStaysStale, SweepCoversOwed
<1> QED BY <1>1, <1>2, <1>3 DEF IInv, RequestsOK

LEMMA WipeProfilesKeeps ==
    ASSUME IInv, NEW r \in Requests, WipeProfiles(r)
    PROVE  IInv'
<1>1. profiles' = [p \in Profiles |-> IF Owns(req[r].user, p) THEN Absent ELSE profiles[p]]
  BY DEF WipeProfiles
<1>2. UNCHANGED <<clock, users, sessions, minted, issued, sweeper, heartbeat, promised>>
  BY DEF WipeProfiles
<1>3. profiles' \in [Profiles -> ProfileRow]
  BY <1>1 DEF IInv, TypeOK, ProfileRow, Absent
<1>4. \A p \in Profiles : profiles'[p].owner \in users \cup {None}
  BY <1>1 DEF IInv, NoOrphanedData, Absent
<1>5. RequestsOK'
  <2>1. RequestsOK /\ req[r].user # None
    BY DEF IInv, TypeOK, RequestsOK, WipeProfiles, At, RequestsAreWellFormed, AuthenticatedSteps
  <2>2. /\ "reauth" \in Steps \ {"auth", "done"}
        /\ "reauth" \notin ItemSteps /\ "reauth" \in ErasureSteps
    BY DEF Steps, ItemSteps, ErasureSteps
  <2>3. CASE Goto(r, "reauth")
    BY <1>2, <2>1, <2>2, <2>3, GotoKeeps
  <2>4. CASE Answer(r, 503)
    BY <1>2, <2>1, <2>4, AnswerKeeps DEF Statuses
  <2> QED BY <2>3, <2>4 DEF WipeProfiles
<1>6. /\ minted' \subseteq Users \cup Profiles
      /\ \A p \in Profiles \ minted' : profiles'[p] = Absent
  BY <1>1, <1>2 DEF IInv, TypeOK, IdsAreMinted
<1> QED BY <1>2, <1>3, <1>4, <1>5, <1>6, ProfileStepKeeps

LEMMA InsertProfileKeeps ==
    ASSUME IInv, NEW r \in Requests, InsertProfile(r)
    PROVE  IInv'
<1>1. UNCHANGED <<clock, users, sessions, issued, sweeper, heartbeat, promised>>
  BY DEF InsertProfile
<1>2. RequestsOK'
  BY <1>1, AnswerKeeps
  DEF InsertProfile, Committed, IInv, TypeOK, RequestsOK, Statuses
<1>3. CASE UNCHANGED <<profiles, minted>>
  BY <1>1, <1>2, <1>3, ProfileStepKeeps DEF IInv, TypeOK, IdsAreMinted, NoOrphanedData
<1>4. CASE /\ req[r].user \in users
           /\ \E p \in Profiles \ minted, b \in Bodies :
                /\ profiles' = [profiles EXCEPT ![p] = Row(req[r].user, b)]
                /\ minted' = minted \cup {p}
  <2>1. PICK p \in Profiles \ minted, b \in Bodies :
          /\ profiles' = [profiles EXCEPT ![p] = Row(req[r].user, b)]
          /\ minted' = minted \cup {p}
    BY <1>4
  <2>2. profiles' \in [Profiles -> ProfileRow]
    BY <1>4, <2>1 DEF IInv, TypeOK, ProfileRow, Row
  <2>3. \A q \in Profiles : profiles'[q].owner \in users \cup {None}
    BY <1>4, <2>1 DEF IInv, TypeOK, NoOrphanedData, Row
  <2>4. /\ minted \subseteq minted' /\ minted' \subseteq Users \cup Profiles
        /\ \A q \in Profiles \ minted' : profiles'[q] = Absent
    BY <2>1 DEF IInv, TypeOK, IdsAreMinted
  <2> QED BY <1>1, <1>2, <2>2, <2>3, <2>4, ProfileStepKeeps
<1> QED BY <1>3, <1>4 DEF InsertProfile

LEMMA OwnerIsUser ==
    ASSUME IInv, NEW u \in Users, NEW p \in Profiles, Owns(u, p)
    PROVE  u \in users
BY NoneAssumption DEF IInv, NoOrphanedData, Owns

LEMMA ItemStepKeeps ==
    ASSUME IInv, NEW r \in Requests, UpdateProfile(r) \/ RemoveProfile(r)
    PROVE  IInv'
<1>1. UNCHANGED <<clock, users, sessions, minted, issued, sweeper, heartbeat, promised>>
  BY DEF UpdateProfile, RemoveProfile
<1>2. RequestsOK'
  BY <1>1, AnswerKeeps
  DEF UpdateProfile, RemoveProfile, Committed, IInv, TypeOK, RequestsOK, Statuses
<1>3. req[r].user \in Users /\ req[r].pid \in Profiles
  BY NoneAssumption DEF IInv, TypeOK, RequestsAreWellFormed, UpdateProfile, RemoveProfile,
                        At, AuthenticatedSteps, ItemSteps
<1>4. minted' \subseteq Users \cup Profiles
  BY <1>1 DEF IInv, TypeOK
<1>5. CASE UNCHANGED profiles
  BY <1>1, <1>2, <1>4, <1>5, ProfileStepKeeps DEF IInv, TypeOK, IdsAreMinted, NoOrphanedData
<1>6. CASE profiles' = [profiles EXCEPT ![req[r].pid] = Absent]
  <2>1. profiles' \in [Profiles -> ProfileRow]
    BY <1>3, <1>6 DEF IInv, TypeOK, ProfileRow, Absent
  <2>2. \A q \in Profiles : profiles'[q].owner \in users \cup {None}
    BY <1>3, <1>6 DEF IInv, TypeOK, NoOrphanedData, Absent
  <2>3. \A q \in Profiles \ minted : profiles'[q] = Absent
    BY <1>3, <1>6 DEF IInv, TypeOK, IdsAreMinted
  <2> QED BY <1>1, <1>2, <1>4, <2>1, <2>2, <2>3, ProfileStepKeeps
<1>7. ASSUME NEW b \in Bodies, Owns(req[r].user, req[r].pid),
             profiles' = [profiles EXCEPT ![req[r].pid] = Row(req[r].user, b)]
      PROVE  IInv'
  <2>1. req[r].user \in users
    BY <1>3, <1>7, OwnerIsUser
  <2>2. profiles' \in [Profiles -> ProfileRow]
    BY <1>3, <1>7 DEF IInv, TypeOK, ProfileRow, Row
  <2>3. \A q \in Profiles : profiles'[q].owner \in users \cup {None}
    BY <1>3, <1>7, <2>1 DEF IInv, TypeOK, NoOrphanedData, Row
  <2>4. \A q \in Profiles \ minted : profiles'[q] = Absent
    BY <1>3, <1>7 DEF IInv, TypeOK, IdsAreMinted, Owns
  <2> QED BY <1>1, <1>2, <1>4, <2>2, <2>3, <2>4, ProfileStepKeeps
<1> QED BY <1>5, <1>6, <1>7 DEF UpdateProfile, RemoveProfile

-----------------------------------------------------------------------------
(* Steps that delete users, and the retention process.                       *)

LEMMA DeleteUsersKeeps ==
    ASSUME IInv, NEW gone \in SUBSET Users, DeleteUsers(gone)
    PROVE  /\ users' = users \ gone
           /\ minted' = minted
           /\ sessions' \in [Users -> 0 .. MaxClock + TTL]
           /\ \A u \in Users : sessions'[u] = IF u \in gone THEN 0 ELSE sessions[u]
           /\ profiles' \in [Profiles -> ProfileRow]
           /\ \A p \in Profiles \ minted : profiles'[p] = Absent
           /\ NoOrphanedData'
<1>1. /\ users' = users \ gone
      /\ minted' = minted
      /\ sessions' = [u \in Users |-> IF u \in gone THEN NoSession ELSE sessions[u]]
      /\ profiles' = [p \in Profiles |-> IF profiles[p].owner \in gone THEN Absent ELSE profiles[p]]
  BY DEF DeleteUsers
<1>2. NoSession \in 0 .. MaxClock + TTL
  BY TimeAssumption DEF NoSession
<1>3. sessions' \in [Users -> 0 .. MaxClock + TTL]
  BY <1>1, <1>2 DEF IInv, TypeOK
<1>4. profiles' \in [Profiles -> ProfileRow]
  BY <1>1 DEF IInv, TypeOK, ProfileRow, Absent
<1>5. NoOrphanedData'
  BY <1>1 DEF IInv, TypeOK, NoOrphanedData, Absent
<1>6. \A p \in Profiles \ minted : profiles'[p] = Absent
  BY <1>1 DEF IInv, IdsAreMinted
<1> QED BY <1>1, <1>3, <1>4, <1>5, <1>6 DEF NoSession

LEMMA RemoveUserKeeps ==
    ASSUME IInv, NEW r \in Requests, RemoveUser(r)
    PROVE  IInv'
<1> DEFINE u == req[r].user
<1>1. UNCHANGED <<clock, issued, sweeper, heartbeat>>
  BY DEF RemoveUser
<1>2. u \in issued /\ u \in Users /\ u \in minted
  BY NoneAssumption DEF RemoveUser, At, IInv, TypeOK, IdsAreMinted,
                        RequestsAreWellFormed, AuthenticatedSteps
<1>3. /\ users' = users \ {u}
      /\ minted' = minted
      /\ sessions' \in [Users -> 0 .. MaxClock + TTL]
      /\ \A v \in Users : sessions'[v] = IF v \in {u} THEN 0 ELSE sessions[v]
      /\ profiles' \in [Profiles -> ProfileRow]
      /\ \A p \in Profiles \ minted : profiles'[p] = Absent
      /\ NoOrphanedData'
  BY <1>2, DeleteUsersKeeps DEF RemoveUser
<1>4. RequestsOK'
  BY <1>1, AnswerKeeps DEF RemoveUser, IInv, TypeOK, RequestsOK, Statuses
<1>5. promised' \subseteq promised \cup {u}
  BY DEF RemoveUser
<1>6. TypeOK'
  BY <1>1, <1>2, <1>3, <1>4, <1>5 DEF IInv, TypeOK, RequestsOK
<1>7. IdsAreMinted' /\ PromisedAreGone' /\ HeartbeatIsEarned'
  BY <1>1, <1>2, <1>3, <1>5 DEF IInv, IdsAreMinted, PromisedAreGone, HeartbeatIsEarned
<1>8. StaleStaysStale' /\ SweepCoversOwed'
  BY <1>1, <1>3 DEF IInv, TypeOK, StaleStaysStale, SweepCoversOwed
<1> QED BY <1>3, <1>4, <1>6, <1>7, <1>8 DEF IInv, RequestsOK

LEMMA TickKeeps ==
    ASSUME IInv, Tick
    PROVE  IInv'
<1>1. TypeOK'
  BY TimeAssumption DEF IInv, TypeOK, Tick, tables
<1>2. /\ IdsAreMinted' /\ RequestsAreWellFormed' /\ NoOrphanedData'
      /\ PromisedAreGone' /\ SweepCoversOwed' /\ HeartbeatIsEarned'
  BY DEF IInv, Tick, tables, IdsAreMinted, RequestsAreWellFormed, NoOrphanedData,
         PromisedAreGone, SweepCoversOwed, HeartbeatIsEarned
<1>3. StaleStaysStale'
  BY DEF IInv, TypeOK, Tick, tables, StaleStaysStale
<1> QED BY <1>1, <1>2, <1>3 DEF IInv

\* What a step of the retention process that leaves the tables alone must keep.
LEMMA SweepStepKeeps ==
    ASSUME IInv, UNCHANGED <<clock, tables, issued, req, promised>>,
           sweeper' \in [pc : SweepSteps, now : 0 .. MaxClock,
                         stale : SUBSET Users, owed : SUBSET Users],
           heartbeat' \in [marked : BOOLEAN, owed : SUBSET Users],
           heartbeat'.owed \subseteq minted, heartbeat'.owed \cap users = {},
           StaleStaysStale', SweepCoversOwed'
    PROVE  IInv'
BY DEF IInv, TypeOK, IdsAreMinted, RequestsAreWellFormed, NoOrphanedData,
       PromisedAreGone, HeartbeatIsEarned, tables

LEMMA SweepReadsKeep ==
    ASSUME IInv, SweepStart \/ SweepSelect \/ SweepCounters
    PROVE  IInv'
<1>1. UNCHANGED <<clock, tables, issued, req, promised, heartbeat>>
  BY DEF SweepStart, SweepSelect, SweepCounters
<1>2. \A now \in Nat : StaleUsers(now) \subseteq users
                       /\ \A u \in StaleUsers(now) : ~(sessions[u] > now)
  BY DEF StaleUsers, Live
<1>3. /\ heartbeat' \in [marked : BOOLEAN, owed : SUBSET Users]
      /\ heartbeat'.owed \subseteq minted /\ heartbeat'.owed \cap users = {}
  BY <1>1 DEF IInv, TypeOK, IdsAreMinted, HeartbeatIsEarned
<1>4. CASE SweepStart
  <2>1. sweeper' = [pc |-> "select", now |-> clock, stale |-> {}, owed |-> StaleUsers(clock)]
    BY <1>4 DEF SweepStart, StageAfter
  <2>2. clock \in 0 .. MaxClock /\ clock \in Nat /\ StaleUsers(clock) \subseteq users
    BY TimeAssumption, <1>2 DEF IInv, TypeOK
  <2>3. sweeper' \in [pc : SweepSteps, now : 0 .. MaxClock,
                      stale : SUBSET Users, owed : SUBSET Users]
    BY <2>1, <2>2 DEF IInv, TypeOK, SweepSteps
  <2>4. StaleStaysStale' /\ SweepCoversOwed'
    BY <1>1, <1>2, <2>1, <2>2 DEF IInv, IdsAreMinted, StaleStaysStale, SweepCoversOwed, tables
  <2> QED BY <1>1, <1>3, <2>3, <2>4, SweepStepKeeps
<1>5. CASE SweepSelect
  <2> DEFINE found == StaleUsers(sweeper.now)
  <2>1. sweeper' = [sweeper EXCEPT !.stale = found,
                                   !.pc = IF found = {} THEN "counters" ELSE "delete"]
    BY <1>5 DEF SweepSelect, StageAfter
  <2>2. /\ sweeper \in [pc : SweepSteps, now : 0 .. MaxClock,
                        stale : SUBSET Users, owed : SUBSET Users]
        /\ found \subseteq users /\ users \subseteq Users
        /\ sweeper.now \in Nat
    BY TimeAssumption, <1>2 DEF IInv, TypeOK
  <2>3. sweeper' \in [pc : SweepSteps, now : 0 .. MaxClock,
                      stale : SUBSET Users, owed : SUBSET Users]
    BY <2>1, <2>2 DEF SweepSteps
  <2>4. sweeper.owed \cap users \subseteq found
    BY <2>2 DEF IInv, StaleStaysStale, StaleUsers, Live
  <2>5. /\ sweeper'.now = sweeper.now /\ sweeper'.owed = sweeper.owed
        /\ sweeper'.stale = found
        /\ sweeper'.pc = IF found = {} THEN "counters" ELSE "delete"
    BY <2>1, <2>2
  <2>6. StaleStaysStale'
    BY <1>1, <1>2, <2>2, <2>5 DEF IInv, IdsAreMinted, StaleStaysStale, tables
  <2>7. SweepCoversOwed'
    BY <1>1, <2>4, <2>5 DEF SweepCoversOwed, tables
  <2> QED BY <1>1, <1>3, <2>3, <2>6, <2>7, SweepStepKeeps
<1>6. CASE SweepCounters
  <2>1. sweeper.pc = "counters" /\ sweeper' = [sweeper EXCEPT !.pc = "mark"]
    BY <1>6 DEF SweepCounters, SweepAt, StageAfter
  <2>2. sweeper' \in [pc : SweepSteps, now : 0 .. MaxClock,
                      stale : SUBSET Users, owed : SUBSET Users]
    BY <2>1 DEF IInv, TypeOK, SweepSteps
  <2>3. StaleStaysStale' /\ SweepCoversOwed'
    BY <1>1, <2>1 DEF IInv, TypeOK, StaleStaysStale, SweepCoversOwed, tables
  <2> QED BY <1>1, <1>3, <2>2, <2>3, SweepStepKeeps
<1> QED BY <1>4, <1>5, <1>6

LEMMA AsleepIsSafe ==
    ASSUME IInv, sweeper' = Asleep, clock' \in Nat
    PROVE  StaleStaysStale' /\ SweepCoversOwed'
BY DEF Asleep, StaleStaysStale, SweepCoversOwed

LEMMA SweepEndsKeep ==
    ASSUME IInv, SweepMark \/ SweepFail \/ SweepRestart
    PROVE  IInv'
<1>1. UNCHANGED <<clock, tables, issued, req, promised>> /\ sweeper' = Asleep
  BY DEF SweepMark, SweepFail, SweepRestart
<1>2. clock' \in Nat
  BY <1>1, TimeAssumption DEF IInv, TypeOK
<1>3. StaleStaysStale' /\ SweepCoversOwed'
  BY <1>1, <1>2, AsleepIsSafe
<1>4. sweeper' \in [pc : SweepSteps, now : 0 .. MaxClock,
                    stale : SUBSET Users, owed : SUBSET Users]
  BY <1>1, TimeAssumption DEF Asleep, SweepSteps
<1>5. sweeper.owed \subseteq minted
  BY DEF IInv, StaleStaysStale
<1>6. \/ heartbeat' = heartbeat
      \/ heartbeat' = NoBeat
      \/ sweeper.pc = "mark" /\ heartbeat' = [marked |-> TRUE, owed |-> sweeper.owed]
  BY DEF SweepMark, SweepFail, SweepRestart, SweepAt
<1>7. /\ heartbeat' \in [marked : BOOLEAN, owed : SUBSET Users]
      /\ heartbeat'.owed \subseteq minted /\ heartbeat'.owed \cap users = {}
  <2>1. CASE heartbeat' = heartbeat
    BY <1>1, <2>1 DEF IInv, TypeOK, IdsAreMinted, HeartbeatIsEarned
  <2>2. CASE heartbeat' = NoBeat
    BY <2>2 DEF NoBeat
  <2>3. CASE sweeper.pc = "mark" /\ heartbeat' = [marked |-> TRUE, owed |-> sweeper.owed]
    <3>1. heartbeat' = [marked |-> TRUE, owed |-> sweeper.owed]
      BY <2>3
    <3>2. sweeper.owed \in SUBSET Users /\ sweeper.owed \cap users = {}
      BY <2>3 DEF IInv, TypeOK, SweepCoversOwed
    <3>3. heartbeat' \in [marked : BOOLEAN, owed : SUBSET Users]
      BY <3>1, <3>2
    <3> QED BY <1>5, <3>1, <3>2, <3>3
  <2> QED BY <1>6, <2>1, <2>2, <2>3
<1> QED BY <1>1, <1>3, <1>4, <1>7, SweepStepKeeps

LEMMA SweepDeleteKeeps ==
    ASSUME IInv, SweepDelete
    PROVE  IInv'
<1>1. UNCHANGED <<clock, issued, req, heartbeat, promised>>
  BY DEF SweepDelete
<1>2. sweeper.pc = "delete" /\ sweeper.stale \in SUBSET Users
  BY DEF SweepDelete, SweepAt, IInv, TypeOK
<1>3. /\ users' = users \ sweeper.stale
      /\ minted' = minted
      /\ sessions' \in [Users -> 0 .. MaxClock + TTL]
      /\ \A v \in Users : sessions'[v] = IF v \in sweeper.stale THEN 0 ELSE sessions[v]
      /\ profiles' \in [Profiles -> ProfileRow]
      /\ \A p \in Profiles \ minted : profiles'[p] = Absent
      /\ NoOrphanedData'
  BY <1>2, DeleteUsersKeeps DEF SweepDelete
<1>4. \/ sweeper' = [sweeper EXCEPT !.pc = "counters", !.stale = {}]
      \/ sweeper' = Asleep
  BY DEF SweepDelete, StageAfter
<1>5. sweeper' \in [pc : SweepSteps, now : 0 .. MaxClock,
                    stale : SUBSET Users, owed : SUBSET Users]
  <2>1. CASE sweeper' = Asleep
    BY <2>1, TimeAssumption DEF SweepSteps, Asleep
  <2>2. CASE sweeper' = [sweeper EXCEPT !.pc = "counters", !.stale = {}]
    BY <2>2 DEF IInv, TypeOK, SweepSteps
  <2> QED BY <1>4, <2>1, <2>2
<1>6. TypeOK'
  BY <1>1, <1>3, <1>5 DEF IInv, TypeOK
<1>7. IdsAreMinted' /\ RequestsAreWellFormed' /\ PromisedAreGone' /\ HeartbeatIsEarned'
  BY <1>1, <1>3 DEF IInv, IdsAreMinted, RequestsAreWellFormed, PromisedAreGone, HeartbeatIsEarned
<1>8. StaleStaysStale' /\ SweepCoversOwed'
  <2>1. CASE sweeper' = Asleep
    BY <1>1, <2>1, AsleepIsSafe, TimeAssumption DEF IInv, TypeOK
  <2>2. CASE sweeper' = [sweeper EXCEPT !.pc = "counters", !.stale = {}]
    <3>1. /\ sweeper'.now = sweeper.now /\ sweeper'.owed = sweeper.owed
          /\ sweeper'.stale = {} /\ sweeper'.pc = "counters"
      BY <2>2 DEF IInv, TypeOK
    <3>2. StaleStaysStale'
      BY <1>1, <1>3, <3>1 DEF IInv, TypeOK, StaleStaysStale
    <3>3. SweepCoversOwed'
      BY <1>2, <1>3, <3>1 DEF IInv, SweepCoversOwed
    <3> QED BY <3>2, <3>3
  <2> QED BY <1>4, <2>1, <2>2
<1> QED BY <1>3, <1>6, <1>7, <1>8 DEF IInv

-----------------------------------------------------------------------------
LEMMA InitEstablishes == Init => IInv
<1> SUFFICES ASSUME Init PROVE IInv
  OBVIOUS
<1>1. TypeOK
  <2>1. clock \in 0 .. MaxClock /\ sessions \in [Users -> 0 .. MaxClock + TTL]
    BY TimeAssumption DEF Init, NoSession
  <2>2. profiles \in [Profiles -> ProfileRow]
    BY DEF Init, ProfileRow, Row, Absent
  <2>3. req \in [Requests -> Request]
    BY DEF Init, Answered, Request, Steps, Statuses
  <2>4. /\ sweeper \in [pc : SweepSteps, now : 0 .. MaxClock,
                        stale : SUBSET Users, owed : SUBSET Users]
        /\ heartbeat \in [marked : BOOLEAN, owed : SUBSET Users]
    BY TimeAssumption DEF Init, Asleep, NoBeat, SweepSteps
  <2> QED BY <2>1, <2>2, <2>3, <2>4, LegacyAssumption DEF Init, TypeOK
<1>2. IdsAreMinted /\ PromisedAreGone /\ HeartbeatIsEarned
  BY DEF Init, IdsAreMinted, PromisedAreGone, HeartbeatIsEarned, NoBeat
<1>3. RequestsAreWellFormed
  BY DEF Init, Answered, RequestsAreWellFormed, AuthenticatedSteps, ItemSteps
<1>4. NoOrphanedData
  BY DEF Init, NoOrphanedData, NoSession, Row, Absent
<1>5. StaleStaysStale /\ SweepCoversOwed
  BY DEF Init, Asleep, StaleStaysStale, SweepCoversOwed
<1> QED BY <1>1, <1>2, <1>3, <1>4, <1>5 DEF IInv

LEMMA NextKeeps == IInv /\ [Next]_vars => IInv'
<1> SUFFICES ASSUME IInv, [Next]_vars PROVE IInv'
  OBVIOUS
<1>1. ASSUME NEW r \in Requests, Serve(r) PROVE IInv'
  BY <1>1, StartKeeps, AuthenticateKeeps, OpenAccountKeeps, RevokeKeeps, WipeProfilesKeeps,
     OtherRequestStepsKeep, RemoveUserKeeps, InsertProfileKeeps, ItemStepKeeps DEF Serve
<1>2. CASE RestartBackend
  BY <1>2, RestartBackendKeeps
<1>3. CASE Sweep
  BY <1>3, SweepReadsKeep, SweepDeleteKeeps, SweepEndsKeep DEF Sweep
<1>4. CASE Tick
  BY <1>4, TickKeeps
<1>5. CASE UNCHANGED vars
  BY <1>5 DEF vars, tables, IInv, TypeOK, IdsAreMinted, RequestsAreWellFormed, NoOrphanedData,
              PromisedAreGone, StaleStaysStale, SweepCoversOwed, HeartbeatIsEarned
<1> QED BY <1>1, <1>2, <1>3, <1>4, <1>5 DEF Next

LEMMA Invariance == Spec => []IInv
BY InitEstablishes, NextKeeps, PTL DEF Spec

\* Every variable keeps its type, for all values of the constants.
THEOREM TypeCorrect == Spec => []TypeOK
BY Invariance, PTL DEF IInv

\* The foreign keys are kept by every transaction of every handler, whatever
\* happened between authentication and the write.
THEOREM NoOrphanedDataHolds == Spec => []NoOrphanedData
BY Invariance, PTL DEF IInv

\* After DELETE /auth/account has answered 204 nothing of the user is stored,
\* however many requests were in flight and whatever they do afterwards.
THEOREM ErasureIsFinalHolds == Spec => []ErasureIsFinal
<1>1. IInv => ErasureIsFinal
  <2> SUFFICES ASSUME IInv, NEW u \in promised PROVE
        u \notin users /\ sessions[u] = NoSession /\ \A p \in Profiles : profiles[p].owner # u
    BY DEF ErasureIsFinal
  <2>1. u \in Users /\ u \notin users
    BY DEF IInv, TypeOK, PromisedAreGone
  <2> QED BY <2>1, NoneAssumption DEF IInv, NoOrphanedData
<1> QED BY <1>1, Invariance, PTL

\* A heartbeat is only ever written by a cycle that erased all that was due.
THEOREM HeartbeatIsEarnedHolds == Spec => []HeartbeatIsEarned
BY Invariance, PTL DEF IInv

-----------------------------------------------------------------------------
(* Action properties.                                                        *)

LEMMA StepOfRequest ==
    ASSUME IInv, NEW r \in Requests, NEW pc \in Steps, NEW status \in Statuses,
           ~At(r, "done"), ~At(r, pc), Goto(r, pc) \/ Answer(r, status)
    PROVE  req'[r] # req[r]
BY DEF IInv, TypeOK, At, Goto, Answer, Answered, Request

LEMMA RowsChange ==
    ASSUME IInv, Next, NEW p \in Profiles,
           profiles[p] # Absent, profiles'[p] # profiles[p]
    PROVE  LET o == profiles[p].owner IN
           /\ o \in Users
           /\ \/ \E r \in Requests : req[r].user = o /\ req'[r] # req[r]
              \/ sweeper' # sweeper /\ ~Live(o, clock)
<1> DEFINE o == profiles[p].owner
<1>1. ASSUME NEW r \in Requests,
             WipeProfiles(r) \/ InsertProfile(r) \/ UpdateProfile(r) \/ RemoveProfile(r)
      PROVE  o = req[r].user
  BY <1>1, NoneAssumption
  DEF WipeProfiles, InsertProfile, UpdateProfile, RemoveProfile, IInv, TypeOK, IdsAreMinted,
      RequestsAreWellFormed, Owns, At, ItemSteps
<1>2. ASSUME NEW r \in Requests, RemoveUser(r)
      PROVE  o = req[r].user
  BY <1>2 DEF RemoveUser, DeleteUsers
<1>3. ASSUME NEW r \in Requests,
             \/ WipeProfiles(r) \/ InsertProfile(r) \/ UpdateProfile(r) \/ RemoveProfile(r)
             \/ RemoveUser(r)
      PROVE  o \in Users /\ req[r].user = o /\ req'[r] # req[r]
  <2>1. o = req[r].user
    BY <1>1, <1>2, <1>3
  <2>2. ~At(r, "done") /\ ~At(r, "reauth") /\ req[r].pc \in AuthenticatedSteps
    BY <1>3 DEF WipeProfiles, InsertProfile, UpdateProfile, RemoveProfile, RemoveUser, At,
                AuthenticatedSteps
  <2>3. req[r].user \in Users
    BY <2>2 DEF IInv, TypeOK, RequestsAreWellFormed
  <2>4. Goto(r, "reauth") \/ \E status \in Statuses : Answer(r, status)
    BY <1>3 DEF WipeProfiles, InsertProfile, UpdateProfile, RemoveProfile, RemoveUser,
                Committed, Statuses
  <2>5. "reauth" \in Steps /\ 503 \in Statuses
    BY DEF Steps, Statuses
  <2>6. req'[r] # req[r]
    BY <2>2, <2>4, <2>5, StepOfRequest
  <2> QED BY <2>1, <2>3, <2>6
<1>4. CASE SweepDelete
  <2>1. o \in sweeper.stale
    BY <1>4 DEF SweepDelete, DeleteUsers
  <2>2. o \in Users /\ ~Live(o, clock)
    BY <2>1, TimeAssumption DEF IInv, TypeOK, StaleStaysStale, Live
  <2>3. sweeper' # sweeper
    <3>1. sweeper.pc = "delete"
      BY <1>4 DEF SweepDelete, SweepAt
    <3>2. CASE sweeper' = Asleep
      BY <3>1, <3>2 DEF Asleep
    <3>3. CASE sweeper' = [sweeper EXCEPT !.pc = "counters", !.stale = {}]
      <4>1. sweeper'.pc = "counters"
        BY <3>3 DEF IInv, TypeOK
      <4> QED BY <3>1, <4>1
    <3> QED BY <1>4, <3>2, <3>3 DEF SweepDelete, StageAfter
  <2> QED BY <2>2, <2>3
<1>5. ASSUME UNCHANGED profiles PROVE FALSE
  BY <1>5
<1> QED
  BY <1>3, <1>4, <1>5
  DEF Next, Serve, Start, Authenticate, OpenAccount, Revoke, Reauthenticate, SelectProfile,
      Unavailable, RestartBackend, Sweep, SweepStart, SweepSelect, SweepCounters, SweepMark,
      SweepFail, SweepRestart, Tick, tables

\* A stored profile changes only on behalf of its owner, or after the owner's
\* session is over.
THEOREM RowsChangeForTheirOwnerHolds == Spec => RowsChangeForTheirOwner
<1>1. IInv /\ [Next]_vars =>
        [\A p \in Profiles :
           profiles[p] # Absent /\ profiles'[p] # profiles[p] =>
             LET o == profiles[p].owner IN
             /\ o \in Users
             /\ \/ \E r \in Requests : req[r].user = o /\ req'[r] # req[r]
                \/ sweeper' # sweeper /\ ~Live(o, clock)]_vars
  BY RowsChange
<1> QED BY <1>1, Invariance, PTL DEF Spec, RowsChangeForTheirOwner

LEMMA ErasureAnswer ==
    ASSUME IInv, Next, NEW r \in Requests,
           req[r].op = "erase", ~At(r, "done"), req'[r].pc = "done"
    PROVE  /\ req'[r].status = 204 => req[r].user \notin users'
           /\ req'[r].status = 401 /\ req[r].user # None => ~(sessions'[req[r].user] > clock')
<1>1. req \in [Requests -> Request] /\ req[r].pc \in {"auth"} \cup ErasureSteps
  BY DEF IInv, TypeOK, RequestsAreWellFormed
<1>2. ASSUME NEW q \in Requests, Serve(q), q # r PROVE FALSE
  <2>1. req'[r] = req[r]
    BY <1>1, <1>2
    DEF Serve, Start, Authenticate, OpenAccount, Revoke, WipeProfiles, Reauthenticate,
        RemoveUser, InsertProfile, SelectProfile, UpdateProfile, RemoveProfile, Unavailable,
        Committed, Answer, Goto
  <2> QED BY <2>1 DEF At
<1>3. CASE Serve(r)
  <2>1. \/ Authenticate(r) \/ WipeProfiles(r) \/ Reauthenticate(r)
        \/ RemoveUser(r) \/ Unavailable(r)
    BY <1>1, <1>3 DEF Serve, Start, OpenAccount, Revoke, InsertProfile, SelectProfile,
                      UpdateProfile, RemoveProfile, At, ErasureSteps
  <2>2. \A pc \in Steps : Goto(r, pc) => req'[r].pc = pc
    BY <1>1 DEF Goto, Request
  <2>3. \A status : Answer(r, status) => req'[r].status = status
    BY <1>1 DEF Answer, Answered
  <2>4. CASE Authenticate(r)
    <3>1. Answer(r, 200) \/ Answer(r, 201) \/
          (Answer(r, 401) /\ ~(req[r].user # None /\ Live(req[r].user, clock)))
      <4>1. "wipe" \in Steps /\ FirstStep["erase"] = "wipe"
        BY DEF Steps, FirstStep
      <4> QED BY <2>2, <2>4, <4>1 DEF Authenticate
    <3> QED BY <2>3, <2>4, <3>1 DEF Authenticate, Live, tables
  <2>5. CASE WipeProfiles(r)
    BY <2>2, <2>3, <2>5 DEF WipeProfiles, Steps
  <2>6. CASE Reauthenticate(r)
    BY <2>2, <2>3, <2>6 DEF Reauthenticate, Steps, Live, tables
  <2>7. CASE RemoveUser(r)
    BY <2>3, <2>7 DEF RemoveUser, DeleteUsers
  <2>8. CASE Unavailable(r)
    BY <2>3, <2>8 DEF Unavailable
  <2> QED BY <2>1, <2>4, <2>5, <2>6, <2>7, <2>8
<1>4. CASE RestartBackend
  BY <1>4 DEF RestartBackend, Answered
<1>5. ASSUME UNCHANGED req PROVE FALSE
  BY <1>5 DEF At
<1> QED
  BY <1>2, <1>3, <1>4, <1>5
  DEF Next, Sweep, SweepStart, SweepSelect, SweepDelete, SweepCounters, SweepMark, SweepFail,
      SweepRestart, Tick

\* The answers of DELETE /auth/account are true when they are given.
THEOREM ErasureAnswerIsTrueHolds == Spec => ErasureAnswerIsTrue
<1>1. IInv /\ [Next]_vars =>
        [\A r \in Requests :
           req[r].op = "erase" /\ ~At(r, "done") /\ req'[r].pc = "done" =>
             /\ req'[r].status = 204 => req[r].user \notin users'
             /\ req'[r].status = 401 /\ req[r].user # None =>
                   ~(sessions'[req[r].user] > clock')]_vars
  BY ErasureAnswer
<1> QED BY <1>1, Invariance, PTL DEF Spec, ErasureAnswerIsTrue

-----------------------------------------------------------------------------
(***************************************************************************)
(* AccountData implements AccountPromise: every step of the tables, the     *)
(* handlers and the retention process is a step of the promise, or none.    *)
(***************************************************************************)

LEMMA AnswerEndsRequests ==
    ASSUME IInv, NEW r \in Requests, NEW status \in Statuses, Answer(r, status)
    PROVE  ErasureAsked' \in SUBSET ErasureAsked
BY DEF IInv, TypeOK, Answer, Answered, ErasureAsked, ErasureSteps

LEMMA SameAccounts ==
    ASSUME UNCHANGED <<clock, users, sessions, minted>>
    PROVE  AccountState' = AccountState
BY DEF AccountState, Live

LEMMA SameHoldings ==
    ASSUME UNCHANGED profiles
    PROVE  HeldProfiles' = HeldProfiles
BY DEF HeldProfiles

LEMMA AccountStateIs ==
    ASSUME IInv, NEW u \in Users
    PROVE  /\ u \notin minted => AccountState[u] = "unused"
           /\ Live(u, clock) => AccountState[u] = "open"
           /\ u \in users /\ ~Live(u, clock) => AccountState[u] = "closed"
           /\ u \in minted /\ u \notin users => AccountState[u] = "erased"
<1>1. Live(u, clock) => u \in users
  BY DEF IInv, TypeOK, NoOrphanedData, NoSession, Live
<1> QED BY <1>1 DEF IInv, IdsAreMinted, AccountState

\* A step that leaves the tables alone and only ends requests for erasure.
LEMMA WithdrawStep ==
    ASSUME UNCHANGED <<clock, tables>>, ErasureAsked' \in SUBSET ErasureAsked
    PROVE  Promise!Next
<1>1. AccountState' = AccountState /\ HeldProfiles' = HeldProfiles
      /\ (minted \cap Profiles)' = minted \cap Profiles
  BY SameAccounts, SameHoldings DEF tables
<1>2. Promise!Withdraw
  BY <1>1 DEF Promise!Withdraw, Promise!EndRequests
<1> QED BY <1>2 DEF Promise!Next

LEMMA StartMaps ==
    ASSUME IInv, NEW r \in Requests, Start(r)
    PROVE  Promise!Next
<1>1. ErasureAsked' \in SUBSET ErasureAsked
  BY DEF IInv, TypeOK, Start, ErasureAsked, ErasureSteps
<1> QED BY <1>1, WithdrawStep DEF Start

LEMMA AuthenticateMaps ==
    ASSUME IInv, NEW r \in Requests, Authenticate(r)
    PROVE  Promise!Next
<1> DEFINE u == req[r].user
<1>0. UNCHANGED <<clock, tables>> /\ req \in [Requests -> Request]
  BY DEF Authenticate, IInv, TypeOK
<1>1. CASE \E status \in Statuses : Answer(r, status)
  BY <1>0, <1>1, AnswerEndsRequests, WithdrawStep
<1>2. CASE \E pc \in Steps \ ErasureSteps : Goto(r, pc)
  <2>1. ErasureAsked' \in SUBSET ErasureAsked
    BY <1>0, <1>2 DEF Goto, ErasureAsked
  <2> QED BY <1>0, <2>1, WithdrawStep
<1>3. CASE u # None /\ Live(u, clock) /\ Goto(r, "wipe")
  <2>1. u \in Users
    BY <1>3 DEF IInv, TypeOK, RequestsAreWellFormed
  <2>2. AccountState[u] = "open"
    BY <1>3, <2>1, AccountStateIs
  <2>3. ErasureAsked' = ErasureAsked \cup {u}
    <3>1. req' = [req EXCEPT ![r].pc = "wipe"] /\ "wipe" \in ErasureSteps /\ req[r].pc = "auth"
      BY <1>3 DEF Goto, ErasureSteps, Authenticate, At
    <3>2. \A q \in Requests : /\ req'[q].user = req[q].user
                              /\ req'[q].pc = IF q = r THEN "wipe" ELSE req[q].pc
      BY <1>0, <3>1 DEF Request
    <3> QED BY <2>1, <3>1, <3>2 DEF ErasureAsked, ErasureSteps
  <2>4. AccountState' = AccountState /\ HeldProfiles' = HeldProfiles
        /\ (minted \cap Profiles)' = minted \cap Profiles
    BY <1>0, SameAccounts, SameHoldings DEF tables
  <2>5. Promise!Ask(u)
    BY <2>2, <2>3, <2>4 DEF Promise!Ask
  <2> QED BY <2>1, <2>5 DEF Promise!Next
<1>4. \/ \E status \in Statuses : Answer(r, status)
      \/ Goto(r, "open")
      \/ u # None /\ Live(u, clock) /\ Goto(r, FirstStep[req[r].op])
  BY DEF Authenticate, Statuses
<1>5. FirstStep[req[r].op] = "wipe" \/ FirstStep[req[r].op] \in Steps \ ErasureSteps
  <2>1. req[r].op \in AllOps
    BY DEF IInv, RequestsAreWellFormed, Authenticate, At
  <2> QED BY <2>1 DEF FirstStep, AllOps, ItemOps, Steps, ErasureSteps
<1>6. "open" \in Steps \ ErasureSteps
  BY DEF Steps, ErasureSteps
<1> QED BY <1>1, <1>2, <1>3, <1>4, <1>5, <1>6

LEMMA OtherRequestStepsMap ==
    ASSUME IInv, NEW r \in Requests,
           Reauthenticate(r) \/ SelectProfile(r) \/ Unavailable(r)
    PROVE  Promise!Next
<1>1. UNCHANGED <<clock, tables>>
  BY DEF Reauthenticate, SelectProfile, Unavailable
<1>2. CASE \E status \in Statuses : Answer(r, status)
  BY <1>1, <1>2, AnswerEndsRequests, WithdrawStep
<1>3. CASE At(r, "reauth") /\ Goto(r, "remove_user")
  <2>1. ErasureAsked' \in SUBSET ErasureAsked
    BY <1>3 DEF IInv, TypeOK, At, Goto, Request, ErasureAsked, ErasureSteps
  <2> QED BY <1>1, <2>1, WithdrawStep
<1> QED
  BY <1>2, <1>3 DEF Reauthenticate, SelectProfile, Unavailable, Statuses

LEMMA OpenAccountMaps ==
    ASSUME IInv, NEW r \in Requests, OpenAccount(r)
    PROVE  Promise!Next
<1>1. PICK u \in Users \ minted :
        /\ users' = users \cup {u}
        /\ sessions' = [sessions EXCEPT ![u] = clock + TTL]
        /\ minted' = minted \cup {u}
        /\ Answer(r, 201) \/ Answer(r, 503)
  <2>1. PICK u \in Users \ minted :
          /\ users' = users \cup {u}
          /\ sessions' = [sessions EXCEPT ![u] = clock + TTL]
          /\ minted' = minted \cup {u}
          /\ \/ Answer(r, 201) /\ issued' = issued \cup {u}
             \/ Answer(r, 503) /\ UNCHANGED issued
    BY Zenon DEF OpenAccount
  <2> QED BY <2>1, Zenon
<1>2. UNCHANGED <<clock, profiles>>
  BY DEF OpenAccount
<1>3. AccountState[u] = "unused"
  BY <1>1, AccountStateIs
<1>4. clock \in Nat /\ clock + TTL > clock
  BY TimeAssumption DEF IInv, TypeOK
<1>5. AccountState' = [AccountState EXCEPT ![u] = "open"]
  <2>1. \A v \in Users : sessions'[v] = IF v = u THEN clock + TTL ELSE sessions[v]
    BY <1>1 DEF IInv, TypeOK
  <2> QED BY <1>1, <1>2, <1>4, <2>1 DEF AccountState, Live
<1>6. HeldProfiles' = HeldProfiles
  BY <1>2, SameHoldings
<1>7. (minted \cap Profiles)' = minted \cap Profiles
  BY <1>1, SortsAssumption
<1>8. ErasureAsked' \in SUBSET ErasureAsked
  <2>1. \E status \in Statuses : Answer(r, status)
    BY <1>1 DEF Statuses
  <2> QED BY <2>1, AnswerEndsRequests
<1>9. Promise!Open(u)
  BY <1>3, <1>5, <1>6, <1>7, <1>8 DEF Promise!Open, Promise!EndRequests
<1> QED BY <1>9 DEF Promise!Next

LEMMA RevokeMaps ==
    ASSUME IInv, NEW r \in Requests, Revoke(r)
    PROVE  Promise!Next
<1> DEFINE u == req[r].user
<1>1. u \in Users
  BY DEF IInv, TypeOK, RequestsAreWellFormed, Revoke, At, AuthenticatedSteps
<1>2. /\ UNCHANGED <<clock, users, profiles, minted>>
      /\ sessions' = [sessions EXCEPT ![u] = NoSession]
  BY DEF Revoke
<1>3. ErasureAsked' \in SUBSET ErasureAsked
  BY AnswerEndsRequests DEF Revoke, Committed, Statuses
<1>4. HeldProfiles' = HeldProfiles /\ (minted \cap Profiles)' = minted \cap Profiles
  BY <1>2, SameHoldings
<1>5. \A v \in Users : sessions'[v] = IF v = u THEN 0 ELSE sessions[v]
  BY <1>2 DEF IInv, TypeOK, NoSession
<1>6. ~(0 > clock)
  BY TimeAssumption DEF IInv, TypeOK
<1>7. CASE Live(u, clock)
  <2>1. AccountState[u] = "open" /\ u \in users
    BY <1>1, <1>7, AccountStateIs DEF IInv, TypeOK, NoOrphanedData, NoSession, Live
  <2>2. AccountState' = [v \in Users |-> IF v \in {u} THEN "closed" ELSE AccountState[v]]
    BY <1>2, <1>5, <1>6, <2>1 DEF AccountState, Live
  <2>3. Promise!Close({u})
    BY <1>3, <1>4, <2>1, <2>2 DEF Promise!Close, Promise!EndRequests
  <2> QED BY <1>1, <2>3 DEF Promise!Next
<1>8. CASE ~Live(u, clock)
  <2>1. AccountState' = AccountState
    BY <1>2, <1>5, <1>6, <1>8 DEF AccountState, Live
  <2>2. Promise!Withdraw
    BY <1>3, <1>4, <2>1 DEF Promise!Withdraw, Promise!EndRequests
  <2> QED BY <2>2 DEF Promise!Next
<1> QED BY <1>7, <1>8

-----------------------------------------------------------------------------
(* Steps on profiles.                                                        *)

LEMMA RequesterIsUser ==
    ASSUME IInv, NEW r \in Requests, req[r].pc \in AuthenticatedSteps
    PROVE  req[r].user \in Users /\ req[r].user \in minted
BY DEF IInv, TypeOK, IdsAreMinted, RequestsAreWellFormed

LEMMA ProfileStepMaps ==
    ASSUME UNCHANGED <<clock, users, sessions, minted>>,
           ErasureAsked' \in SUBSET ErasureAsked,
           NEW u \in Users, NEW P \in SUBSET Profiles,
           HeldProfiles' = [HeldProfiles EXCEPT ![u] = @ \ P]
    PROVE  Promise!Next
<1>1. AccountState' = AccountState
  BY SameAccounts
<1>2. Promise!Discard(u, P)
  BY <1>1 DEF Promise!Discard, Promise!EndRequests
<1> QED BY <1>2 DEF Promise!Next

LEMMA WipeProfilesMaps ==
    ASSUME IInv, NEW r \in Requests, WipeProfiles(r)
    PROVE  Promise!Next
<1> DEFINE u == req[r].user
<1>1. u \in Users /\ req[r].pc = "wipe"
  BY RequesterIsUser DEF WipeProfiles, At, AuthenticatedSteps
<1>2. /\ UNCHANGED <<clock, users, sessions, minted>>
      /\ profiles' = [p \in Profiles |-> IF Owns(u, p) THEN Absent ELSE profiles[p]]
  BY DEF WipeProfiles
<1>3. HeldProfiles' = [HeldProfiles EXCEPT ![u] = @ \ Profiles]
  <2>1. \A p \in Profiles : profiles'[p].owner = IF profiles[p].owner = u THEN None ELSE profiles[p].owner
    BY <1>1, <1>2, NoneAssumption DEF Owns, Absent
  <2> QED BY <1>1, <2>1, NoneAssumption DEF HeldProfiles
<1>4. ErasureAsked' \in SUBSET ErasureAsked
  <2>1. CASE Goto(r, "reauth")
    BY <1>1, <2>1 DEF IInv, TypeOK, Goto, Request, ErasureAsked, ErasureSteps
  <2>2. CASE Answer(r, 503)
    BY <2>2, AnswerEndsRequests DEF Statuses
  <2> QED BY <2>1, <2>2 DEF WipeProfiles
<1> QED BY <1>1, <1>2, <1>3, <1>4, ProfileStepMaps

LEMMA InsertProfileMaps ==
    ASSUME IInv, NEW r \in Requests, InsertProfile(r)
    PROVE  Promise!Next
<1> DEFINE u == req[r].user
<1>1. u \in Users
  BY RequesterIsUser DEF InsertProfile, At, AuthenticatedSteps
<1>2. UNCHANGED <<clock, users, sessions>>
  BY DEF InsertProfile
<1>3. ErasureAsked' \in SUBSET ErasureAsked
  BY AnswerEndsRequests DEF InsertProfile, Committed, Statuses
<1>4. CASE UNCHANGED <<profiles, minted>>
  BY <1>2, <1>3, <1>4, WithdrawStep DEF tables
<1>5. CASE /\ u \in users
           /\ \E p \in Profiles \ minted, b \in Bodies :
                /\ profiles' = [profiles EXCEPT ![p] = Row(u, b)]
                /\ minted' = minted \cup {p}
  <2>1. PICK p \in Profiles \ minted, b \in Bodies :
          /\ profiles' = [profiles EXCEPT ![p] = Row(u, b)]
          /\ minted' = minted \cup {p}
    BY <1>5
  <2>2. HeldProfiles' = [HeldProfiles EXCEPT ![u] = @ \cup {p}]
    <3>1. profiles[p].owner = None
      BY <2>1 DEF IInv, IdsAreMinted, Absent
    <3>2. \A q \in Profiles : profiles'[q].owner = IF q = p THEN u ELSE profiles[q].owner
      BY <2>1 DEF IInv, TypeOK, Row
    <3> QED BY <1>1, <3>1, <3>2, NoneAssumption DEF HeldProfiles
  <2>3. AccountState[u] \in {"open", "closed"}
    BY <1>1, <1>5, AccountStateIs
  <2>4. AccountState' = AccountState
    <3>1. \A v \in Users : v \in minted' <=> v \in minted
      BY <2>1, SortsAssumption
    <3> QED BY <1>2, <3>1 DEF AccountState, Live
  <2>5. (minted \cap Profiles)' = (minted \cap Profiles) \cup {p} /\ p \notin minted \cap Profiles
    BY <2>1
  <2>6. Promise!Store(u, p)
    BY <1>3, <2>2, <2>3, <2>4, <2>5 DEF Promise!Store, Promise!EndRequests
  <2> QED BY <1>1, <2>1, <2>6 DEF Promise!Next
<1> QED BY <1>4, <1>5 DEF InsertProfile

LEMMA ItemStepMaps ==
    ASSUME IInv, NEW r \in Requests, UpdateProfile(r) \/ RemoveProfile(r)
    PROVE  Promise!Next
<1> DEFINE u == req[r].user
           p == req[r].pid
<1>1. u \in Users /\ p \in Profiles
  BY RequesterIsUser DEF UpdateProfile, RemoveProfile, At, AuthenticatedSteps, ItemSteps,
                         IInv, RequestsAreWellFormed
<1>2. UNCHANGED <<clock, users, sessions, minted>>
  BY DEF UpdateProfile, RemoveProfile
<1>3. ErasureAsked' \in SUBSET ErasureAsked
  BY AnswerEndsRequests DEF UpdateProfile, RemoveProfile, Committed, Statuses
<1>4. CASE \A q \in Profiles : profiles'[q].owner = profiles[q].owner
  <2>1. HeldProfiles' = HeldProfiles /\ AccountState' = AccountState
    BY <1>2, <1>4, SameAccounts DEF HeldProfiles
  <2>2. Promise!Withdraw
    BY <1>2, <1>3, <2>1 DEF Promise!Withdraw, Promise!EndRequests
  <2> QED BY <2>2 DEF Promise!Next
<1>5. CASE profiles' = [profiles EXCEPT ![p] = Absent] /\ Owns(u, p)
  <2>1. \A q \in Profiles : profiles'[q].owner = IF q = p THEN None ELSE profiles[q].owner
    BY <1>5 DEF IInv, TypeOK, Absent
  <2>2. profiles[p].owner = u
    BY <1>5 DEF Owns
  <2>3. HeldProfiles' = [HeldProfiles EXCEPT ![u] = @ \ {p}]
    <3>1. \A v \in Users : {q \in Profiles : profiles'[q].owner = v}
                          = {q \in Profiles : profiles[q].owner = v} \ IF v = u THEN {p} ELSE {}
      BY <1>1, <2>1, <2>2, NoneAssumption
    <3> QED BY <1>1, <3>1 DEF HeldProfiles
  <2>4. {p} \in SUBSET Profiles
    BY <1>1
  <2> QED BY <1>1, <1>2, <1>3, <2>3, <2>4, ProfileStepMaps
<1>6. ASSUME NEW b \in Bodies, Owns(u, p), profiles' = [profiles EXCEPT ![p] = Row(u, b)]
      PROVE  Promise!Next
  <2>1. \A q \in Profiles : profiles'[q].owner = profiles[q].owner
    BY <1>6 DEF IInv, TypeOK, Row, Owns
  <2> QED BY <1>4, <2>1
<1>7. UNCHANGED profiles => Promise!Next
  BY <1>4
<1> QED BY <1>5, <1>6, <1>7 DEF UpdateProfile, RemoveProfile

-----------------------------------------------------------------------------
(* Erasure, the retention process and the clock.                             *)

\* Deleting users who are closed, or who asked, is the promise's Erase.
LEMMA DeleteUsersMaps ==
    ASSUME IInv, NEW gone \in SUBSET Users, gone \subseteq minted, DeleteUsers(gone),
           UNCHANGED clock, ErasureAsked' \in SUBSET ErasureAsked,
           \A u \in gone : u \in ErasureAsked \/ ~Live(u, clock)
    PROVE  Promise!Next
<1> DEFINE S == gone \cap users
<1>1. /\ users' = users \ gone
      /\ minted' = minted
      /\ \A u \in Users : sessions'[u] = IF u \in gone THEN 0 ELSE sessions[u]
      /\ profiles' = [p \in Profiles |-> IF profiles[p].owner \in gone THEN Absent ELSE profiles[p]]
  BY DeleteUsersKeeps DEF DeleteUsers
<1>2. \A u \in S : \/ AccountState[u] = "closed"
                   \/ AccountState[u] = "open" /\ u \in ErasureAsked
  BY AccountStateIs
<1>3. AccountState' = [u \in Users |-> IF u \in S THEN "erased" ELSE AccountState[u]]
  <2>1. \A u \in gone \ users : AccountState[u] = "erased" /\ u \in minted
    BY DEF AccountState
  <2> QED BY <1>1, <2>1 DEF AccountState, Live
<1>4. HeldProfiles' = [u \in Users |-> IF u \in S THEN {} ELSE HeldProfiles[u]]
  <2>1. \A p \in Profiles : profiles'[p].owner = IF profiles[p].owner \in S
                                                  THEN None ELSE profiles[p].owner
    BY <1>1, NoneAssumption DEF IInv, NoOrphanedData, Absent
  <2> QED BY <2>1, NoneAssumption DEF HeldProfiles
<1>5. (minted \cap Profiles)' = minted \cap Profiles
  BY <1>1
<1>6. Promise!Erase(S)
  BY <1>2, <1>3, <1>4, <1>5 DEF Promise!Erase, Promise!EndRequests
<1> QED BY <1>6 DEF Promise!Next

LEMMA RemoveUserMaps ==
    ASSUME IInv, NEW r \in Requests, RemoveUser(r)
    PROVE  Promise!Next
<1>1. req[r].user \in Users /\ req[r].user \in minted /\ req[r].pc = "remove_user"
  BY RequesterIsUser DEF RemoveUser, At, AuthenticatedSteps
<1>2. req[r].user \in ErasureAsked
  BY <1>1 DEF ErasureAsked, ErasureSteps
<1>3. ErasureAsked' \in SUBSET ErasureAsked
  BY AnswerEndsRequests DEF RemoveUser, Statuses
<1> QED BY <1>1, <1>2, <1>3, DeleteUsersMaps DEF RemoveUser

LEMMA SweepDeleteMaps ==
    ASSUME IInv, SweepDelete
    PROVE  Promise!Next
<1>1. sweeper.stale \in SUBSET Users /\ sweeper.stale \subseteq minted
  BY DEF IInv, TypeOK, StaleStaysStale
<1>2. \A u \in sweeper.stale : ~Live(u, clock)
  BY <1>1, TimeAssumption DEF IInv, TypeOK, StaleStaysStale, Live
<1>3. ErasureAsked' \in SUBSET ErasureAsked
  BY DEF SweepDelete, ErasureAsked
<1> QED BY <1>1, <1>2, <1>3, DeleteUsersMaps DEF SweepDelete

LEMMA TickMaps ==
    ASSUME IInv, Tick
    PROVE  Promise!Next
<1> DEFINE S == {u \in users : Live(u, clock) /\ ~Live(u, clock + 1)}
<1>1. clock' = clock + 1 /\ UNCHANGED <<users, sessions, profiles, minted, req>>
  BY DEF Tick, tables
<1>2. users \subseteq Users /\ \A u \in Users : sessions[u] \in Nat /\ clock \in Nat
  BY TimeAssumption DEF IInv, TypeOK
<1>3. \A u \in S : AccountState[u] = "open"
  BY <1>2 DEF AccountState
<1>4. AccountState' = [u \in Users |-> IF u \in S THEN "closed" ELSE AccountState[u]]
  BY <1>1, <1>2 DEF AccountState, Live
<1>5. HeldProfiles' = HeldProfiles /\ ErasureAsked' \in SUBSET ErasureAsked
      /\ (minted \cap Profiles)' = minted \cap Profiles
  BY <1>1, SameHoldings DEF ErasureAsked
<1>6. Promise!Close(S)
  BY <1>3, <1>4, <1>5 DEF Promise!Close, Promise!EndRequests
<1> QED BY <1>2, <1>6 DEF Promise!Next

LEMMA RestartBackendMaps ==
    ASSUME IInv, RestartBackend
    PROVE  Promise!Next
<1>1. ErasureAsked' \in SUBSET ErasureAsked
  BY DEF RestartBackend, Answered, At, ErasureAsked, ErasureSteps
<1> QED BY <1>1, WithdrawStep DEF RestartBackend

LEMMA SweepReadsMap ==
    ASSUME UNCHANGED <<clock, tables, req>>
    PROVE  Promise!Next
<1>1. ErasureAsked' \in SUBSET ErasureAsked
  BY DEF ErasureAsked
<1> QED BY <1>1, WithdrawStep

-----------------------------------------------------------------------------
\* Whatever the handlers, the clock, failures and the retention process do, is
\* something AccountPromise allows.
THEOREM KeepsPromiseHolds == Spec => KeepsPromise
<1>1. Init => Promise!Init
  <2> SUFFICES ASSUME Init PROVE Promise!Init
    OBVIOUS
  <2>1. AccountState = [u \in Users |-> "unused"]
    BY LegacyAssumption, SortsAssumption DEF Init, AccountState
  <2>2. HeldProfiles = [u \in Users |-> {}]
    <3>1. \A p \in Profiles : profiles[p].owner = None
      BY DEF Init, Row, Absent
    <3> QED BY <3>1, NoneAssumption DEF HeldProfiles
  <2>3. ErasureAsked = {}
    BY DEF Init, Answered, ErasureAsked, ErasureSteps
  <2> QED BY <2>1, <2>2, <2>3 DEF Promise!Init
<1>2. IInv /\ [Next]_vars => [Promise!Next]_(Promise!vars)
  <2> SUFFICES ASSUME IInv, [Next]_vars PROVE [Promise!Next]_(Promise!vars)
    OBVIOUS
  <2>1. ASSUME NEW r \in Requests, Serve(r) PROVE Promise!Next
    BY <2>1, StartMaps, AuthenticateMaps, OpenAccountMaps, RevokeMaps, WipeProfilesMaps,
       OtherRequestStepsMap, RemoveUserMaps, InsertProfileMaps, ItemStepMaps DEF Serve
  <2>2. CASE RestartBackend
    BY <2>2, RestartBackendMaps
  <2>3. CASE Sweep
    BY <2>3, SweepDeleteMaps, SweepReadsMap
    DEF Sweep, SweepStart, SweepSelect, SweepCounters, SweepMark, SweepFail, SweepRestart
  <2>4. CASE Tick
    BY <2>4, TickMaps
  <2>5. CASE UNCHANGED vars
    BY <2>5, SweepReadsMap DEF vars
  <2> QED BY <2>1, <2>2, <2>3, <2>4, <2>5 DEF Next
<1> QED BY <1>1, <1>2, Invariance, PTL DEF Spec, KeepsPromise, Promise!Spec
=============================================================================
