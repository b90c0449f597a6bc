-------------------------- MODULE ProfileStoreProofs --------------------------
(***************************************************************************)
(* Proofs about ProfileStore, for every number of calls under way together, *)
(* whatever may be entered and however many accounts, profiles and requests *)
(* that were given up there are.                                           *)
(***************************************************************************)
EXTENDS ProfileStore, TLAPS

-----------------------------------------------------------------------------
(* The inductive invariant *)

\* Request c, about a profile or an account, was answered so
Done(c, op, answer) ==
    calls[c].at = "asks" /\ calls[c].op = op /\ calls[c].answer = answer

\* The backend has done a change whose answer is on its way
ChangeDone == \E c \in Calls : \E op \in Changes : Done(c, op, "ok")

\* The row of profile p is there and its account is open
Live(p) == owner[p] \in open /\ body[p] # NoBody

\* What a call carries, also one that was given up: the cookies of accounts
\* opened so far, and, with the answers of the backend, an account or a profile
\* that was made for it.
CallFits(c) ==
    /\ calls[c].at = "idle" => calls[c] = NoRequest
    /\ calls[c].cookie \in 0 .. opened
    /\ calls[c].op = "erase" => calls[c].at = "asks"
    /\ calls[c].op = "create" => calls[c].id = None
    /\ calls[c].at = "checks" => calls[c].gave = None
    /\ calls[c].at = "opens" =>
          /\ calls[c].gave \in 0 .. opened
          /\ calls[c].gave # None => calls[c].cookie \notin open
    /\ Done(c, "create", "ok") => calls[c].gave \in Profiles
    /\ Done(c, "replace", "ok") => calls[c].gave \in Profiles /\ calls[c].gave = calls[c].id
    /\ Done(c, "erase", "ok") => calls[c].cookie \notin open
    /\ Done(c, "load", "ok") /\ c \notin overtaken => body[calls[c].id] = calls[c].body
    /\ late[c].cookie \in 0 .. opened

CallsFit == \A c \in Calls : CallFits(c)

\* A page shows a profile only under an identity, and none before its load.
PageFits ==
    /\ state.profileId = stored
    /\ state.profile # NoBody => stored # None
    /\ state.status \in {"idle", "loading"} => state.profile = NoBody
    /\ state.status = "idle" => stored # None /\ Under = {}

\* With no erasure beside a bootstrap there is one account at a time: the one
\* of the cookie is the only one open that a call or a profile is about.
OneAccount ==
    /\ cut = {}
    /\ \A b \in Bootstrapping : calls[b].cookie = cookie
    /\ \A b \in Bootstrapping, c \in Calls : calls[c].op # "erase"
    /\ \A c \in Calls : calls[c].cookie \in open => calls[c].cookie = cookie
    /\ \A c \in Calls : late[c].cookie \in open => late[c].cookie = cookie
    /\ \A c \in Calls : calls[c].op = "erase" => cookie \in {calls[c].cookie, None}
    /\ \A p \in Profiles : owner[p] \in open => owner[p] = cookie

\* Nothing changes beside a save, which is about the identity stored.
SaveIsAlone ==
    /\ \A c \in Saving : Changing = {c} /\ stored = calls[c].id
    /\ \A c \in Under : calls[c].op = "clear" => stored \in {calls[c].id, None}
    /\ \A c \in Calls : \A op \in Saves : Done(c, op, "ok") /\ owner[calls[c].gave] \in open =>
          body[calls[c].gave] = calls[c].body

\* No change was given up, so that what was read of an open account is up to date.
NothingLate ==
    /\ \A c \in Calls : late[c].at # "asks"
    /\ \A c \in Calls : Done(c, "load", "ok") /\ owner[calls[c].id] \in open =>
          body[calls[c].id] = calls[c].body

\* The page and the backend agree but for a change whose answer is on its way.
Agree ==
    /\ \A c \in Calls : Done(c, "clear", "ok") \/ Done(c, "clear", "notfound") \/ Done(c, "load", "notfound")
          => ~Live(calls[c].id)
    /\ state.profile # NoBody /\ owner[stored] \in open =>
          body[stored] = state.profile \/ ChangeDone
    /\ cookie \in open => \A p \in Profiles : owner[p] = cookie /\ body[p] # NoBody =>
          p = stored \/ \E c \in Calls : Done(c, "create", "ok") /\ calls[c].gave = p

IInv ==
    /\ TypeOK /\ CallsFit /\ PageFits /\ BootstrapIsShared /\ LoadIsAlone
    /\ ~crossed => OneAccount
    /\ calm => SaveIsAlone /\ NothingLate
    /\ calm /\ ~crossed => Agree

-----------------------------------------------------------------------------
(* What the groups of actions do to the calls *)

\* A step that answers no load and changes no row leaves what loads have read.
LEMMA NothingLateStays ==
    ASSUME IInv, calm, UNCHANGED backend,
           \A x \in Calls : Done(x, "load", "ok")' => Done(x, "load", "ok") /\ calls'[x] = calls[x]
    PROVE  NothingLate'
BY DEF IInv, NothingLate, backend, tables

\* Only the answer, what it gave and what it carried differ, and only for c
Served(c) ==
    /\ calls' \in [Calls -> CallRecord]
    /\ \A x \in Calls :
          /\ calls'[x].op = calls[x].op /\ calls'[x].at = calls[x].at /\ calls'[x].on = calls[x].on
          /\ calls'[x].id = calls[x].id /\ calls'[x].cookie = calls[x].cookie
          /\ x # c => calls'[x] = calls[x]
    /\ UNCHANGED untouched

\* Call c begins: by a bootstrap of its own, by waiting for another's, or at once
Begun(c, op) ==
    /\ calls[c].at = "idle"
    /\ calls' \in [Calls -> CallRecord]
    /\ \A x \in Calls : x # c => calls'[x] = calls[x]
    /\ calls'[c].op = op /\ calls'[c].id = stored
    /\ calls'[c].answer = "none" /\ calls'[c].gave = None
    /\ \/ /\ op # "erase" /\ calls'[c].at = "checks" /\ calls'[c].cookie = cookie
          /\ bootstrapPromise = NoCall /\ bootstrapPromise' = c
       \/ /\ op # "erase" /\ calls'[c].at = "waits" /\ calls'[c].cookie = None
          /\ calls'[c].on = bootstrapPromise /\ bootstrapPromise # NoCall
          /\ UNCHANGED bootstrapPromise
       \/ /\ op = "erase" /\ calls'[c].at = "asks" /\ calls'[c].cookie = cookie
          /\ UNCHANGED bootstrapPromise
    /\ Begins(c)

\* Call c ends
Ended(c) ==
    /\ calls[c].at = "asks"
    /\ calls' \in [Calls -> CallRecord]
    /\ calls'[c] = NoRequest
    /\ overtaken' = overtaken \ {c}
    /\ \A x \in Calls : x # c => calls'[x] = calls[x]

LEMMA NoRequestIsACall == NoRequest \in CallRecord
BY DEF NoRequest, CallRecord, None, Changes, Saves

LEMMA OneCallServed ==
    ASSUME TypeOK, NEW c \in Calls, Served(c)
    PROVE  /\ Under' = Under /\ Changing' = Changing /\ Saving' = Saving
           /\ Bootstrapping' = Bootstrapping
BY DEF Served, Under, Changing, Saving, Bootstrapping

LEMMA OneCallBegun ==
    ASSUME TypeOK, NEW c \in Calls, NEW op \in Changes \cup {"load", "metrics"}, Begun(c, op)
    PROVE  /\ Under' = Under \cup {c} /\ c \notin Under
           /\ Bootstrapping' = IF calls'[c].at = "checks" THEN Bootstrapping \cup {c} ELSE Bootstrapping
           /\ Changing' = IF op \in Changes THEN Changing \cup {c} ELSE Changing
           /\ Saving' = IF op \in Saves THEN Saving \cup {c} ELSE Saving
<1>1. Under' = Under \cup {c} /\ c \notin Under
  BY DEF Begun, Under
<1>2. Bootstrapping' = IF calls'[c].at = "checks" THEN Bootstrapping \cup {c} ELSE Bootstrapping
  BY DEF Begun, Bootstrapping
<1>3. Changing' = IF op \in Changes THEN Changing \cup {c} ELSE Changing
  BY <1>1 DEF Begun, Changing, Under
<1>4. Saving' = IF op \in Saves THEN Saving \cup {c} ELSE Saving
  BY <1>1 DEF Begun, Saving, Under
<1> QED BY <1>1, <1>2, <1>3, <1>4

LEMMA OneCallEnded ==
    ASSUME TypeOK, NEW c \in Calls, Ended(c)
    PROVE  /\ Under' = Under \ {c} /\ Changing' = Changing \ {c} /\ Saving' = Saving \ {c}
           /\ Bootstrapping' = Bootstrapping
BY DEF Ended, Under, Changing, Saving, Bootstrapping, NoRequest

LEMMA AnswersServe ==
    ASSUME TypeOK, NEW c \in Calls, NEW answer \in {"ok", "unauthorized", "notfound", "fails"},
           Answers(c, answer)
    PROVE  Served(c) /\ calls'[c] = [calls[c] EXCEPT !.answer = answer] /\ UNCHANGED late
BY DEF Answers, Served, TypeOK, CallRecord

\* Fields of a request, whatever it is for
LEMMA RequestFits ==
    ASSUME TypeOK, NEW op \in Changes \cup {"load", "metrics"}
    PROVE  /\ Request(op) \in CallRecord
           /\ Request(op).op = op /\ Request(op).id = stored /\ Request(op).body = NoBody
           /\ Request(op).cookie = None /\ Request(op).answer = "none" /\ Request(op).gave = None
<1> DEFINE r == NoRequest
<1>1. r \in CallRecord /\ r.body = NoBody /\ r.cookie = None /\ r.answer = "none" /\ r.gave = None
  BY NoRequestIsACall DEF NoRequest
<1>2. Request(op) = [r EXCEPT !.op = op, !.id = stored] /\ stored \in Profiles \cup {None}
  BY DEF Request, TypeOK
<1> HIDE DEF r
<1> QED BY <1>1, <1>2 DEF CallRecord

LEMMA EnsureBegins ==
    ASSUME TypeOK, NEW c \in Calls, NEW op \in Saves \cup {"load", "metrics", "clear"},
           NEW r \in CallRecord, r.op = op, r.id = stored, r.answer = "none", r.gave = None,
           r.cookie = None, Ensure(c, r), Begins(c)
    PROVE  Begun(c, op)
<1>1. cookie \in Accounts \cup {None} /\ bootstrapPromise \in Calls \cup {NoCall}
  BY BoundsAssumption DEF TypeOK, Accounts, None
<1>2. CASE bootstrapPromise = NoCall
  <2> DEFINE n == [r EXCEPT !.at = "checks", !.cookie = cookie]
  <2>1. calls' = [calls EXCEPT ![c] = n] /\ bootstrapPromise' = c
    BY <1>2 DEF Ensure
  <2>2. /\ n \in CallRecord /\ n.op = op /\ n.id = stored /\ n.answer = "none" /\ n.gave = None
        /\ n.at = "checks" /\ n.cookie = cookie
    BY <1>1 DEF CallRecord
  <2> HIDE DEF n
  <2> QED BY <1>2, <2>1, <2>2 DEF TypeOK, Begun, Begins, Saves
<1>3. CASE bootstrapPromise # NoCall
  <2> DEFINE n == [r EXCEPT !.at = "waits", !.on = bootstrapPromise]
  <2>1. calls' = [calls EXCEPT ![c] = n] /\ UNCHANGED bootstrapPromise
    BY <1>3 DEF Ensure
  <2>2. /\ n \in CallRecord /\ n.op = op /\ n.id = stored /\ n.answer = "none" /\ n.gave = None
        /\ n.at = "waits" /\ n.on = bootstrapPromise /\ n.cookie = None
    BY <1>1 DEF CallRecord
  <2> HIDE DEF n
  <2> QED BY <1>3, <2>1, <2>2 DEF TypeOK, Begun, Begins, Saves
<1> QED BY <1>2, <1>3

LEMMA StartsBegin ==
    ASSUME TypeOK, NEW c \in Calls
    PROVE  /\ StartLoad(c) => Begun(c, "load")
           /\ StartClear(c) => Begun(c, "clear")
           /\ StartMetrics(c) => Begun(c, "metrics")
           /\ StartErase(c) => Begun(c, "erase")
           /\ \A b \in Bodies : StartSave(c, b) =>
                 Begun(c, IF stored = None THEN "create" ELSE "replace")
<1>1. StartLoad(c) => Begun(c, "load")
  BY EnsureBegins, RequestFits DEF StartLoad
<1>2. StartClear(c) => Begun(c, "clear")
  BY EnsureBegins, RequestFits DEF StartClear, Changes
<1>3. StartMetrics(c) => Begun(c, "metrics")
  BY EnsureBegins, RequestFits DEF StartMetrics
<1>4. ASSUME StartErase(c) PROVE Begun(c, "erase")
  <2> DEFINE r == Request("erase")
             n == [r EXCEPT !.at = "asks", !.cookie = cookie]
  <2>1. calls' = [calls EXCEPT ![c] = n] /\ UNCHANGED bootstrapPromise /\ Begins(c)
    BY <1>4 DEF StartErase
  <2>2. r \in CallRecord /\ r.op = "erase" /\ r.id = stored /\ r.answer = "none" /\ r.gave = None
    BY RequestFits DEF Changes
  <2>3. cookie \in Accounts \cup {None}
    BY BoundsAssumption DEF TypeOK, Accounts, None
  <2> HIDE DEF r
  <2>4. /\ n \in CallRecord /\ n.op = "erase" /\ n.id = stored /\ n.answer = "none"
        /\ n.gave = None /\ n.at = "asks" /\ n.cookie = cookie
    BY <2>2, <2>3 DEF CallRecord
  <2> HIDE DEF n
  <2> QED BY <2>1, <2>4 DEF TypeOK, Begun, Begins
<1>5. ASSUME NEW b \in Bodies, StartSave(c, b)
      PROVE  Begun(c, IF stored = None THEN "create" ELSE "replace")
  <2> DEFINE op == IF stored = None THEN "create" ELSE "replace"
             r == Request(op)
             n == [r EXCEPT !.body = b]
  <2>1. op \in Saves
    BY DEF Saves
  <2>2. Ensure(c, n) /\ Begins(c)
    BY <1>5 DEF StartSave, SaveRequest
  <2> HIDE DEF op
  <2>3. /\ r \in CallRecord /\ r.op = op /\ r.id = stored /\ r.answer = "none" /\ r.gave = None
        /\ r.cookie = None
    BY <2>1, RequestFits DEF Changes
  <2> HIDE DEF r
  <2>4. /\ n \in CallRecord /\ n.op = op /\ n.id = stored /\ n.answer = "none" /\ n.gave = None
        /\ n.cookie = None
    BY <2>3 DEF CallRecord
  <2> HIDE DEF n
  <2>5. Begun(c, op)
    BY <2>1, <2>2, <2>4, EnsureBegins
  <2> QED BY <2>5 DEF op
<1> QED BY <1>1, <1>2, <1>3, <1>4, <1>5

-----------------------------------------------------------------------------
(* A call begins *)

LEMMA BegunTypes ==
    ASSUME TypeOK, NEW c \in Calls, NEW op \in Changes \cup {"load", "metrics"}, Begun(c, op),
           op \in {"load", "replace", "clear", "metrics"} => stored # None,
           state' \in [profileId : Profiles \cup {None}, profile : Bodies \cup {NoBody}, status : Statuses],
           calm' \in BOOLEAN
    PROVE  TypeOK'
<1>1. bootstrapPromise' \in Calls \cup {NoCall} /\ crossed' \in BOOLEAN
  BY DEF TypeOK, Begun, Begins
<1>2. \A x \in Under' : calls'[x].op \in {"load", "replace", "clear", "metrics"} => calls'[x].id # None
  BY DEF TypeOK, Begun, Under
<1> QED BY <1>1, <1>2 DEF TypeOK, Begun, Begins, backend, tables

LEMMA BegunCallsFit ==
    ASSUME IInv, NEW c \in Calls, NEW op \in Changes \cup {"load", "metrics"}, Begun(c, op),
           op = "create" => stored = None
    PROVE  CallsFit'
<1>1. TypeOK /\ CallsFit
  BY DEF IInv
<1> SUFFICES ASSUME NEW x \in Calls PROVE CallFits(x)'
  BY DEF CallsFit
<1>2. CASE x = c
  <2>1. CallFits(c)
    BY <1>1 DEF CallsFit
  <2> QED BY <1>1, <1>2, <2>1, BoundsAssumption DEF CallFits, Begun, Begins, backend, tables, TypeOK, Done, None
<1>3. CASE x # c
  <2>1. calls'[x] = calls[x] /\ CallFits(x) /\ UNCHANGED <<backend, overtaken>>
    BY <1>1, <1>3 DEF Begun, Begins, CallsFit
  <2> QED BY <2>1 DEF CallFits, Done, backend, tables
<1> QED BY <1>2, <1>3

LEMMA BegunShared ==
    ASSUME IInv, NEW c \in Calls, NEW op \in Changes \cup {"load", "metrics"}, Begun(c, op)
    PROVE  BootstrapIsShared'
<1>1. TypeOK /\ BootstrapIsShared
  BY DEF IInv
<1>2. Bootstrapping' = IF calls'[c].at = "checks" THEN Bootstrapping \cup {c} ELSE Bootstrapping
  BY <1>1, OneCallBegun
<1>3. \A x \in Calls : calls'[x].at = "waits" => calls'[x].on \in Bootstrapping'
  BY <1>1, <1>2 DEF Begun, BootstrapIsShared
<1>4. UNCHANGED cut
  BY DEF Begun, Begins
<1>5. CASE calls'[c].at = "checks"
  <2>1. bootstrapPromise = NoCall /\ bootstrapPromise' = c
    BY <1>5 DEF Begun
  <2>2. Bootstrapping \subseteq cut
    BY <1>1, <2>1, CallsAssumption DEF BootstrapIsShared, Bootstrapping
  <2> QED BY <1>2, <1>3, <1>4, <1>5, <2>1, <2>2 DEF BootstrapIsShared
<1>6. CASE calls'[c].at # "checks"
  BY <1>1, <1>2, <1>3, <1>4, <1>6 DEF Begun, BootstrapIsShared
<1> QED BY <1>5, <1>6

LEMMA BegunOneAccount ==
    ASSUME IInv, NEW c \in Calls, NEW op \in Changes \cup {"load", "metrics"}, Begun(c, op), ~crossed'
    PROVE  OneAccount'
<1>1. TypeOK /\ OneAccount /\ ~crossed
  BY DEF IInv, Begun, Begins, TypeOK
<1>2. UNCHANGED <<cookie, open, owner, cut, late>>
  BY DEF Begun, Begins, backend, tables
<1>3. Bootstrapping' = IF calls'[c].at = "checks" THEN Bootstrapping \cup {c} ELSE Bootstrapping
  BY <1>1, OneCallBegun
<1>4. None \notin open
  BY <1>1 DEF TypeOK, None
<1>5. \A b \in Bootstrapping' : calls'[b].cookie = cookie'
  BY <1>1, <1>2, <1>3 DEF OneAccount, Begun, Bootstrapping
<1>6. \A b \in Bootstrapping', x \in Calls : calls'[x].op # "erase"
  BY DEF Begun, Begins, Bootstrapping
<1>7. \A x \in Calls : calls'[x].cookie \in open' => calls'[x].cookie = cookie'
  BY <1>1, <1>2, <1>4 DEF OneAccount, Begun
<1>8. \A x \in Calls : calls'[x].op = "erase" => cookie' \in {calls'[x].cookie, None}
  BY <1>1, <1>2 DEF OneAccount, Begun
<1> QED BY <1>1, <1>2, <1>5, <1>6, <1>7, <1>8 DEF OneAccount

LEMMA BegunSaves ==
    ASSUME IInv, NEW c \in Calls, NEW op \in Changes \cup {"load", "metrics"}, Begun(c, op),
           calm, op \in Saves => Changing = {}, op \in Changes => Saving = {}
    PROVE  SaveIsAlone' /\ NothingLate'
<1>1. TypeOK /\ SaveIsAlone
  BY DEF IInv
<1>2. UNCHANGED <<stored, open, owner, body>>
  BY DEF Begun, Begins, backend, tables
<1>3. /\ Under' = Under \cup {c} /\ c \notin Under
      /\ Changing' = IF op \in Changes THEN Changing \cup {c} ELSE Changing
      /\ Saving' = IF op \in Saves THEN Saving \cup {c} ELSE Saving
  BY <1>1, OneCallBegun
<1>4. \A x \in Saving' : Changing' = {x} /\ stored' = calls'[x].id
  <2>1. CASE op \in Saves
    <3>1. Changing' = {c} /\ Saving' \subseteq Changing'
      BY <1>3, <2>1 DEF Saves, Changes, Saving, Changing
    <3>2. calls'[c].id = stored
      BY DEF Begun
    <3> QED BY <1>2, <3>1, <3>2
  <2>2. CASE op \notin Saves
    <3>1. Saving' = Saving /\ (Saving # {} => Changing' = Changing)
      BY <1>3, <2>2
    <3>2. \A x \in Saving : x \in Under /\ calls'[x] = calls[x]
      BY <1>3 DEF Begun, Saving, Under
    <3> QED BY <1>1, <1>2, <3>1, <3>2 DEF SaveIsAlone
  <2> QED BY <2>1, <2>2
<1>5. ASSUME NEW x \in Under', calls'[x].op = "clear"
      PROVE  stored' \in {calls'[x].id, None}
  <2>1. CASE x = c
    BY <1>2, <2>1 DEF Begun
  <2>2. CASE x # c
    <3>1. x \in Under /\ calls'[x] = calls[x]
      BY <1>3, <2>2 DEF Begun, Under
    <3> QED BY <1>1, <1>2, <1>5, <3>1 DEF SaveIsAlone
  <2> QED BY <2>1, <2>2
<1>6. \A x \in Calls : \A o \in Saves : Done(x, o, "ok")' => Done(x, o, "ok") /\ calls'[x] = calls[x]
  BY DEF Begun, Done
<1>7. \A x \in Calls : \A o \in Saves : Done(x, o, "ok")' /\ owner'[calls'[x].gave] \in open' =>
          body'[calls'[x].gave] = calls'[x].body
  BY <1>1, <1>2, <1>6 DEF SaveIsAlone
<1>8. \A x \in Calls : Done(x, "load", "ok")' => Done(x, "load", "ok") /\ calls'[x] = calls[x]
  BY DEF Begun, Done
<1>9. NothingLate'
  BY <1>8, NothingLateStays DEF Begun, Begins
<1> QED BY <1>4, <1>5, <1>7, <1>9 DEF SaveIsAlone

LEMMA BegunAgree ==
    ASSUME IInv, NEW c \in Calls, NEW op \in Changes \cup {"load", "metrics"}, Begun(c, op),
           calm, ~crossed', state'.profile = state.profile
    PROVE  Agree'
<1>1. TypeOK /\ Agree
  BY DEF IInv, Begun, Begins, TypeOK
<1>2. UNCHANGED <<stored, owner, body, cookie, open>>
  BY DEF Begun, Begins, backend, tables
<1>3. \A x \in Calls, o \in Changes \cup {"load"}, a \in {"ok", "notfound"} :
         /\ Done(x, o, a)' <=> Done(x, o, a)
         /\ Done(x, o, a) => calls'[x] = calls[x]
  BY DEF Begun, Done
<1>4. \A x \in Calls : Done(x, "clear", "ok")' \/ Done(x, "clear", "notfound")' \/ Done(x, "load", "notfound")'
         => ~Live(calls[x].id)' /\ calls'[x] = calls[x]
  BY <1>1, <1>2, <1>3 DEF Agree, Changes, Live
<1>5. ChangeDone' = ChangeDone
  BY <1>3 DEF ChangeDone
<1>6. cookie' \in open' => \A p \in Profiles : owner'[p] = cookie' /\ body'[p] # NoBody =>
         p = stored' \/ \E x \in Calls : Done(x, "create", "ok")' /\ calls'[x].gave = p
  BY <1>1, <1>2, <1>3 DEF Agree, Changes, Saves
<1> QED BY <1>1, <1>2, <1>4, <1>5, <1>6 DEF Agree

LEMMA StartLoadKeeps ==
    ASSUME IInv, NEW c \in Calls, StartLoad(c)
    PROVE  IInv'
<1>1. Begun(c, "load") /\ TypeOK /\ PageFits /\ LoadIsAlone
  BY StartsBegin DEF IInv
<1>2. /\ state.status = "idle" /\ state' = [state EXCEPT !.status = "loading"] /\ UNCHANGED <<calm, stored>>
      /\ (crossed => crossed')
  BY <1>1 DEF StartLoad, Begins
<1>3. stored # None /\ Under = {} /\ state.profile = NoBody /\ state.profileId = stored
  BY <1>1, <1>2 DEF PageFits
<1>4. /\ state'.profile = NoBody /\ state'.status = "loading" /\ state'.profileId = stored
      /\ state' \in [profileId : Profiles \cup {None}, profile : Bodies \cup {NoBody}, status : Statuses]
  BY <1>1, <1>2, <1>3 DEF TypeOK, Statuses
<1>5. Under' = {c}
  BY <1>1, <1>3, OneCallBegun
<1>6. PageFits' /\ LoadIsAlone'
  BY <1>1, <1>2, <1>4, <1>5 DEF PageFits, LoadIsAlone, Begun
<1>7. TypeOK' /\ CallsFit' /\ BootstrapIsShared' /\ (~crossed' => OneAccount')
  BY <1>1, <1>2, <1>3, <1>4, BegunTypes, BegunCallsFit, BegunShared, BegunOneAccount DEF TypeOK
<1>8. calm' => SaveIsAlone' /\ NothingLate'
  BY <1>1, <1>2, BegunSaves DEF Changes, Saves
<1>9. calm' /\ ~crossed' => Agree'
  BY <1>1, <1>2, <1>3, <1>4, BegunAgree
<1> QED BY <1>6, <1>7, <1>8, <1>9 DEF IInv

\* The other calls begin when the page is neither idle nor loading.
LEMMA OtherStartKeeps ==
    ASSUME IInv, NEW c \in Calls, NEW op \in Changes \cup {"metrics"}, Begun(c, op), UNCHANGED state,
           state.status \notin {"idle", "loading"},
           op = "create" => stored = None,
           op \in {"replace", "clear", "metrics"} => stored # None,
           calm' \in BOOLEAN,
           calm' => /\ calm
                    /\ op \in Saves => Changing = {}
                    /\ op \in Changes => Saving = {}
    PROVE  IInv'
<1>1. TypeOK /\ PageFits /\ LoadIsAlone /\ UNCHANGED stored
  BY DEF IInv, Begun, Begins
<1>2. \A x \in Calls : x \in Under' => calls'[x].op # "load"
  BY <1>1 DEF LoadIsAlone, Begun, Under, Changes, Saves
<1>3. PageFits' /\ LoadIsAlone'
  BY <1>1, <1>2 DEF PageFits, LoadIsAlone, Under
<1>4. TypeOK' /\ CallsFit' /\ BootstrapIsShared' /\ (~crossed' => OneAccount')
  <2>1. state' \in [profileId : Profiles \cup {None}, profile : Bodies \cup {NoBody}, status : Statuses]
    BY <1>1 DEF TypeOK
  <2>2. op = "load" => stored # None
    BY DEF Changes, Saves
  <2> QED BY <1>1, <2>1, <2>2, BegunTypes, BegunCallsFit, BegunShared, BegunOneAccount
<1>5. calm' => SaveIsAlone' /\ NothingLate'
  BY BegunSaves
<1>6. calm' /\ ~crossed' => Agree'
  BY BegunAgree
<1> QED BY <1>3, <1>4, <1>5, <1>6 DEF IInv

LEMMA StartsKeep ==
    ASSUME IInv, NEW c \in Calls,
           \/ StartClear(c) \/ StartErase(c) \/ StartMetrics(c) \/ \E b \in Bodies : StartSave(c, b)
    PROVE  IInv'
<1>1. TypeOK /\ PageFits /\ calm \in BOOLEAN
  BY DEF IInv, TypeOK
<1>2. ProfileShown => state.status \notin {"idle", "loading"} /\ stored # None
  BY <1>1 DEF ProfileShown, PageFits
<1>3. Saving \subseteq Changing
  BY DEF Saving, Changing, Changes
<1>4. CASE StartClear(c)
  BY <1>1, <1>2, <1>4, StartsBegin, OtherStartKeeps DEF StartClear, Changes, Saves
<1>5. CASE StartErase(c)
  BY <1>1, <1>2, <1>5, StartsBegin, OtherStartKeeps DEF StartErase, Changes, Saves
<1>6. CASE StartMetrics(c)
  BY <1>1, <1>2, <1>6, StartsBegin, OtherStartKeeps DEF StartMetrics, Changes, Saves
<1>7. ASSUME NEW b \in Bodies, StartSave(c, b) PROVE IInv'
  <2> DEFINE op == IF stored = None THEN "create" ELSE "replace"
  <2>1. Begun(c, op) /\ UNCHANGED state /\ state.status \notin {"idle", "loading"}
    BY <1>1, <1>7, StartsBegin DEF StartSave, FormShown
  <2>2. calm' = (calm /\ Changing = {})
    BY <1>7 DEF StartSave
  <2>3. op \in Saves /\ (op = "create" => stored = None) /\ (op = "replace" => stored # None)
    BY DEF Saves
  <2> HIDE DEF op
  <2>4. op \in Changes /\ op \notin {"clear", "metrics"}
    BY <2>3 DEF Saves, Changes
  <2> QED BY <1>1, <1>3, <2>1, <2>2, <2>3, <2>4, OtherStartKeeps
<1> QED BY <1>4, <1>5, <1>6, <1>7

-----------------------------------------------------------------------------
(* A request is served and the tables stay as they are *)

LEMMA ServedPage ==
    ASSUME IInv, NEW c \in Calls, Served(c)
    PROVE  PageFits' /\ BootstrapIsShared' /\ LoadIsAlone'
<1>1. /\ TypeOK /\ PageFits /\ BootstrapIsShared /\ LoadIsAlone
      /\ UNCHANGED <<state, stored, bootstrapPromise, cut>>
  BY DEF IInv, Served, untouched
<1>2. Under' = Under /\ Bootstrapping' = Bootstrapping
  BY <1>1, OneCallServed
<1>3. PageFits'
  BY <1>1, <1>2 DEF PageFits
<1>4. BootstrapIsShared'
  BY <1>1, <1>2 DEF BootstrapIsShared, Served
<1>5. LoadIsAlone'
  BY <1>1, <1>2 DEF LoadIsAlone, Served, Under
<1> QED BY <1>3, <1>4, <1>5

LEMMA ServedTypes ==
    ASSUME TypeOK, NEW c \in Calls, Served(c),
           opened' \in opened .. MaxAccounts, open' \subseteq 1 .. opened',
           owner' \in [Profiles -> 0 .. opened'], body' \in [Profiles -> Bodies \cup {NoBody}],
           created' \in 0 .. MaxProfiles, calm' \in BOOLEAN,
           late' = late \/ late' = [late EXCEPT ![c] = calls[c]]
    PROVE  TypeOK'
<1>1. UNCHANGED <<state, stored, bootstrapPromise, cookie, cut, crossed, overtaken>> /\ calls' \in [Calls -> CallRecord]
  BY DEF Served, untouched
<1>2. cookie' \in 0 .. opened' /\ opened' \in 0 .. MaxAccounts
  BY <1>1, BoundsAssumption DEF TypeOK
<1>3. \A x \in Under' : calls'[x].op \in {"load", "replace", "clear", "metrics"} => calls'[x].id # None
  BY DEF TypeOK, Served, Under
<1>4. late' \in [Calls -> CallRecord]
  BY DEF TypeOK
<1> QED BY <1>1, <1>2, <1>3, <1>4 DEF TypeOK

LEMMA SameTablesTypes ==
    ASSUME TypeOK, UNCHANGED tables
    PROVE  /\ opened' \in opened .. MaxAccounts /\ open' \subseteq 1 .. opened'
           /\ owner' \in [Profiles -> 0 .. opened'] /\ body' \in [Profiles -> Bodies \cup {NoBody}]
           /\ created' \in 0 .. MaxProfiles
BY BoundsAssumption DEF TypeOK, tables

\* What the services that change no table have in common
Quiet(c) ==
    /\ Served(c) /\ UNCHANGED tables
    /\ late' = late \/ (late' = [late EXCEPT ![c] = calls[c]] /\ (calls[c].at = "asks" => ~calm'))
    /\ calm' \in BOOLEAN /\ (calm' => calm)
    /\ calls'[c].gave \in {calls[c].gave, None}
    /\ calls'[c].at = "asks" /\ calls'[c].op \in Changes =>
          calls'[c].answer # "ok" /\ (calm' => calls[c].answer # "ok")
    /\ Done(c, "load", "ok")' => body[calls[c].id] = calls'[c].body
    /\ Done(c, "clear", "notfound")' \/ Done(c, "load", "notfound")' => Known(calls[c]) /\ ~Owned(calls[c])

LEMMA QuietCallsFit ==
    ASSUME IInv, NEW c \in Calls, Quiet(c), calls[c].at # "idle"
    PROVE  CallsFit'
<1>1. TypeOK /\ CallsFit /\ UNCHANGED <<opened, open, owner, body, overtaken>>
  BY DEF IInv, Quiet, Served, untouched, tables
<1> SUFFICES ASSUME NEW x \in Calls PROVE CallFits(x)'
  BY DEF CallsFit
<1>2. CallFits(c) /\ CallFits(x)
  BY <1>1 DEF CallsFit
<1>3. late'[x].cookie \in 0 .. opened'
  BY <1>1, <1>2 DEF CallFits, Quiet, TypeOK
<1>4. CASE x = c
  <2>1. ~ \E op \in Changes : Done(c, op, "ok")'
    BY DEF Quiet, Done
  <2>2. Done(c, "load", "ok")' => body'[calls'[c].id] = calls'[c].body
    BY <1>1 DEF Quiet, Served
  <2> QED BY <1>1, <1>2, <1>3, <1>4, <2>1, <2>2, BoundsAssumption
          DEF CallFits, Quiet, Served, TypeOK, Changes, Saves, None
<1>5. CASE x # c
  <2>1. calls'[x] = calls[x]
    BY <1>5 DEF Quiet, Served
  <2> QED BY <1>1, <1>2, <1>3, <2>1 DEF CallFits, Done
<1> QED BY <1>4, <1>5

LEMMA ServedOneAccount ==
    ASSUME IInv, ~crossed, NEW c \in Calls, Served(c),
           \A x \in Calls : calls[x].cookie \in open' => calls[x].cookie \in open,
           \A x \in Calls : late[x].cookie \in open' => late[x].cookie \in open,
           \A x \in Calls : late'[x] \in {late[x], calls[x]},
           \A p \in Profiles : owner'[p] \in open' => owner'[p] = cookie
    PROVE  OneAccount'
<1>1. TypeOK /\ OneAccount /\ UNCHANGED <<cookie, cut>>
  BY DEF IInv, Served, untouched
<1>2. Bootstrapping' = Bootstrapping
  BY <1>1, OneCallServed
<1>3. \A x \in Calls : late'[x].cookie \in open' => late'[x].cookie = cookie'
  BY <1>1 DEF OneAccount
<1> QED BY <1>1, <1>2, <1>3 DEF OneAccount, Served, Bootstrapping

LEMMA QuietSaves ==
    ASSUME IInv, NEW c \in Calls, Quiet(c), calm'
    PROVE  SaveIsAlone' /\ NothingLate'
<1>1. /\ TypeOK /\ SaveIsAlone /\ NothingLate /\ calm /\ Served(c)
      /\ UNCHANGED <<stored, open, owner, body>>
  BY DEF IInv, Quiet, Served, untouched, tables
<1>2. Under' = Under /\ Changing' = Changing /\ Saving' = Saving
  BY <1>1, OneCallServed
<1>3. \A x \in Calls : \A op \in Saves : Done(x, op, "ok")' => Done(x, op, "ok") /\ calls'[x] = calls[x]
  BY DEF Quiet, Served, Done, Changes
<1>4. SaveIsAlone'
  BY <1>1, <1>2, <1>3 DEF SaveIsAlone, Served, Saving, Under
<1>5. \A x \in Calls : late'[x].at # "asks"
  BY <1>1 DEF NothingLate, Quiet, TypeOK
<1>6. ASSUME NEW x \in Calls, Done(x, "load", "ok")', owner'[calls'[x].id] \in open'
      PROVE  body'[calls'[x].id] = calls'[x].body
  <2>1. CASE x = c
    BY <1>1, <1>6, <2>1 DEF Quiet, Served
  <2>2. CASE x # c
    <3>1. calls'[x] = calls[x]
      BY <1>1, <2>2 DEF Served
    <3> QED BY <1>1, <1>6, <3>1 DEF NothingLate, Done
  <2> QED BY <2>1, <2>2
<1> QED BY <1>4, <1>5, <1>6 DEF NothingLate

LEMMA QuietAgree ==
    ASSUME IInv, NEW c \in Calls, Quiet(c), calm', ~crossed
    PROVE  Agree'
<1>1. /\ TypeOK /\ Agree /\ OneAccount /\ Served(c)
      /\ UNCHANGED <<state, stored, cookie, open, owner, body>>
  BY DEF IInv, Quiet, Served, untouched, tables
<1>2. \A x \in Calls \ {c} : calls'[x] = calls[x]
  BY <1>1 DEF Served
<1>3. \A x \in Calls, op \in Changes : Done(x, op, "ok")' <=> Done(x, op, "ok")
  BY <1>2 DEF Quiet, Served, Done
<1>4. \A x \in Calls, op \in Changes : Done(x, op, "ok") => calls'[x] = calls[x]
  BY <1>2 DEF Quiet, Served, Done
<1>5. ASSUME NEW x \in Calls, Done(x, "clear", "ok")' \/ Done(x, "clear", "notfound")' \/ Done(x, "load", "notfound")'
      PROVE  ~Live(calls[x].id)'
  <2>1. CASE x # c
    <3>1. /\ calls'[x] = calls[x]
          /\ Done(x, "clear", "ok") \/ Done(x, "clear", "notfound") \/ Done(x, "load", "notfound")
      BY <1>2, <1>5, <2>1 DEF Done
    <3> QED BY <1>1, <3>1 DEF Agree, Live
  <2>2. CASE x = c /\ Done(c, "clear", "ok")'
    <3>1. Done(c, "clear", "ok")
      BY <1>3, <2>2 DEF Changes
    <3>2. calls'[c] = calls[c]
      BY <1>4, <3>1 DEF Changes
    <3> QED BY <1>1, <2>2, <3>1, <3>2 DEF Agree, Live
  <2>3. CASE x = c /\ ~Done(c, "clear", "ok")'
    <3>1. Known(calls[c]) /\ ~Owned(calls[c]) /\ calls'[c].id = calls[c].id
      BY <1>5, <2>3 DEF Quiet, Served
    <3>2. calls[c].id \in Profiles /\ calls[c].id # None
      BY <1>1, <1>5, <2>3 DEF TypeOK, CallRecord, Under, Done, Served
    <3> QED BY <1>1, <2>3, <3>1, <3>2 DEF OneAccount, Known, Owned, Live
  <2> QED BY <2>1, <2>2, <2>3
<1>6. ChangeDone' = ChangeDone
  BY <1>3 DEF ChangeDone
<1>7. cookie' \in open' => \A p \in Profiles : owner'[p] = cookie' /\ body'[p] # NoBody =>
         p = stored' \/ \E x \in Calls : Done(x, "create", "ok")' /\ calls'[x].gave = p
  BY <1>1, <1>3, <1>4 DEF Agree, Changes, Saves
<1> QED BY <1>1, <1>5, <1>6, <1>7 DEF Agree

LEMMA QuietKeeps ==
    ASSUME IInv, NEW c \in Calls, Quiet(c), calls[c].at # "idle"
    PROVE  IInv'
<1>1. TypeOK /\ Served(c) /\ UNCHANGED <<open, owner, crossed>>
  BY DEF IInv, Quiet, Served, untouched, tables
<1>2. PageFits' /\ BootstrapIsShared' /\ LoadIsAlone'
  BY <1>1, ServedPage
<1>3. TypeOK'
  BY <1>1, SameTablesTypes, ServedTypes DEF Quiet
<1>4. ~crossed' => OneAccount'
  <2>1. \A x \in Calls : late'[x] \in {late[x], calls[x]}
    BY <1>1 DEF Quiet, TypeOK
  <2> QED BY <1>1, <2>1, ServedOneAccount DEF IInv, OneAccount
<1>5. calm' => calm
  BY DEF Quiet
<1> QED BY <1>1, <1>2, <1>3, <1>4, <1>5, QuietCallsFit, QuietSaves, QuietAgree DEF IInv

LEMMA QuietServices ==
    ASSUME TypeOK, NEW c \in Calls,
           \/ ServeCheck(c) \/ ServeRefusal(c) \/ ServeNotFound(c) \/ ServeMetrics(c) \/ ServeFails(c)
           \/ ServeLoad(c) \/ Lose(c)
    PROVE  Quiet(c) /\ calls[c].at # "idle"
<1>1. calm \in BOOLEAN /\ calls[c] \in CallRecord
  BY DEF TypeOK
<1>2. ASSUME NEW answer \in {"ok", "unauthorized", "notfound", "fails"}, Answers(c, answer),
             UNCHANGED <<tables, calm>>, Sent(c),
             answer = "ok" => calls[c].at = "checks" \/ calls[c].op = "metrics",
             answer = "notfound" => Known(calls[c]) /\ ~Owned(calls[c])
      PROVE  Quiet(c) /\ calls[c].at # "idle"
  <2>1. Served(c) /\ calls'[c] = [calls[c] EXCEPT !.answer = answer] /\ UNCHANGED late
    BY <1>2, AnswersServe
  <2>2. calls'[c].at = calls[c].at /\ calls'[c].op = calls[c].op /\ calls'[c].gave = calls[c].gave
        /\ calls'[c].answer = answer
    BY <1>1, <2>1 DEF CallRecord
  <2> QED BY <1>1, <1>2, <2>1, <2>2 DEF Quiet, Sent, Done, Changes, Saves
<1>3. CASE ServeCheck(c)
  BY <1>2, <1>3 DEF ServeCheck
<1>4. CASE ServeRefusal(c)
  BY <1>2, <1>4 DEF ServeRefusal
<1>5. CASE ServeNotFound(c)
  BY <1>2, <1>5 DEF ServeNotFound, Asks
<1>6. CASE ServeMetrics(c)
  BY <1>2, <1>6 DEF ServeMetrics, Asks
<1>7. CASE ServeFails(c)
  BY <1>2, <1>7 DEF ServeFails
<1>8. CASE ServeLoad(c)
  <2> DEFINE n == [calls[c] EXCEPT !.answer = "ok", !.body = body[calls[c].id]]
  <2>1. /\ calls' = [calls EXCEPT ![c] = n] /\ UNCHANGED <<untouched, backend, calm>>
        /\ calls[c].at = "asks" /\ calls[c].op = "load" /\ Known(calls[c]) /\ Owned(calls[c])
    BY <1>8 DEF ServeLoad, Asks
  <2>2. calls[c].id \in Profiles /\ body[calls[c].id] \in Bodies \cup {NoBody}
    BY <1>1, <2>1 DEF TypeOK, CallRecord, Owned, Known, None
  <2>3. /\ n \in CallRecord /\ n.op = calls[c].op /\ n.at = calls[c].at /\ n.on = calls[c].on
        /\ n.id = calls[c].id /\ n.cookie = calls[c].cookie /\ n.gave = calls[c].gave
        /\ n.answer = "ok" /\ n.body = body[calls[c].id]
    BY <1>1, <2>2 DEF CallRecord
  <2> HIDE DEF n
  <2> QED BY <1>1, <2>1, <2>2, <2>3 DEF TypeOK, Quiet, Served, Done, Changes, Saves, untouched, backend
<1>9. CASE Lose(c)
  <2> DEFINE n == [calls[c] EXCEPT !.answer = "fails", !.gave = None]
  <2>1. /\ calls' = [calls EXCEPT ![c] = n] /\ UNCHANGED <<untouched, tables>>
        /\ late' = late \/ (late' = [late EXCEPT ![c] = calls[c]] /\ (calls[c].at = "asks" => calls[c].op \in Changes))
        /\ calls[c].at \in {"checks", "opens", "asks"}
        /\ calm' = (calm /\ ~(calls[c].at = "asks" /\ calls[c].op \in Changes))
    BY <1>9 DEF Lose, Outlives
  <2>2. /\ n \in CallRecord /\ n.op = calls[c].op /\ n.at = calls[c].at /\ n.on = calls[c].on
        /\ n.id = calls[c].id /\ n.cookie = calls[c].cookie /\ n.gave = None /\ n.answer = "fails"
    BY <1>1 DEF CallRecord, None
  <2> HIDE DEF n
  <2> QED BY <1>1, <2>1, <2>2 DEF TypeOK, Quiet, Served, Done, untouched
<1> QED BY <1>3, <1>4, <1>5, <1>6, <1>7, <1>8, <1>9

-----------------------------------------------------------------------------
(* A request is served and the tables change *)

LEMMA OthersFit ==
    ASSUME IInv, NEW c \in Under, Served(c), UNCHANGED late, opened' \in Nat, opened <= opened',
           \A u \in 0 .. opened : u \in open' => u \in open
    PROVE  \A x \in Calls : x # c => CallFits(x)'
<1>1. TypeOK /\ CallsFit /\ LoadIsAlone
  BY DEF IInv
<1> SUFFICES ASSUME NEW x \in Calls, x # c PROVE CallFits(x)'
  OBVIOUS
<1>2. calls'[x] = calls[x] /\ CallFits(x)
  BY <1>1 DEF Served, CallsFit
<1>3. ~Done(x, "load", "ok")'
  BY <1>1, <1>2 DEF LoadIsAlone, Done, Under
<1> QED BY <1>1, <1>2, <1>3 DEF CallFits, Done, TypeOK

\* A load is alone, so that no answer to one is on its way.
LEMMA NoLoadRead ==
    ASSUME IInv, calm, NEW c \in Under, calls[c].op # "load" \/ calls[c].at # "asks",
           Served(c), UNCHANGED late
    PROVE  NothingLate'
<1>1. \A x \in Calls : ~Done(x, "load", "ok")'
  BY DEF IInv, LoadIsAlone, Served, Done, Under
<1> QED BY <1>1 DEF IInv, NothingLate

\* A change that is under way finds no save of another call, while calm holds.
LEMMA NoOtherSave ==
    ASSUME IInv, calm, NEW c \in Changing
    PROVE  \A x \in Calls : x # c => x \notin Saving
BY DEF IInv, SaveIsAlone

\* Of the answers on their way, a service of c leaves those of the others.
LEMMA OthersDone ==
    ASSUME NEW c \in Calls, Served(c), NEW x \in Calls, x # c
    PROVE  calls'[x] = calls[x] /\ \A op, answer : Done(x, op, answer)' <=> Done(x, op, answer)
BY DEF Served, Done

LEMMA ServeOpenKeeps ==
    ASSUME IInv, NEW c \in Calls, ServeOpen(c)
    PROVE  IInv'
<1>1. TypeOK /\ CallsFit /\ calls[c] \in CallRecord /\ Sent(c) /\ calls[c].at = "opens"
  BY DEF IInv, TypeOK, ServeOpen
<1>2. CASE Known(calls[c]) /\ Answers(c, "ok") /\ UNCHANGED <<tables, calm>>
  <2>1. Served(c) /\ calls'[c] = [calls[c] EXCEPT !.answer = "ok"] /\ UNCHANGED late
    BY <1>1, <1>2, AnswersServe
  <2>2. calls'[c].at = "opens" /\ calls'[c].gave = calls[c].gave
    BY <1>1, <2>1 DEF CallRecord
  <2>3. Quiet(c)
    BY <1>1, <1>2, <2>1, <2>2 DEF Quiet, Done, TypeOK
  <2> QED BY <1>1, <2>3, QuietKeeps
<1>3. CASE ~Known(calls[c]) /\ Opens /\ AnswersWith(c, opened + 1)
  <2> DEFINE n == [calls[c] EXCEPT !.answer = "ok", !.gave = opened + 1]
  <2>1. /\ ~Known(calls[c]) /\ opened < MaxAccounts /\ opened' = opened + 1 /\ open' = open \cup {opened + 1}
        /\ calls' = [calls EXCEPT ![c] = n] /\ UNCHANGED <<untouched, owner, body, created, late, calm>>
    BY <1>3 DEF Opens, AnswersWith
  <2>2. opened \in 0 .. MaxAccounts /\ opened \in Nat /\ opened + 1 \in Nat /\ MaxAccounts \in Nat
    BY <1>1, BoundsAssumption DEF TypeOK
  <2>3. /\ n \in CallRecord /\ n.op = calls[c].op /\ n.at = "opens" /\ n.on = calls[c].on
        /\ n.id = calls[c].id /\ n.cookie = calls[c].cookie /\ n.gave = opened + 1 /\ n.answer = "ok"
    BY <1>1, <2>2 DEF CallRecord
  <2> HIDE DEF n
  <2>4. Served(c) /\ c \in Under
    BY <1>1, <2>1, <2>3 DEF Served, TypeOK, Under
  <2>5. PageFits' /\ BootstrapIsShared' /\ LoadIsAlone'
    BY <2>4, ServedPage
  <2>6. TypeOK'
    <3>1. opened' \in opened .. MaxAccounts /\ open' \subseteq 1 .. opened'
      BY <1>1, <2>1, <2>2 DEF TypeOK
    <3>2. owner' \in [Profiles -> 0 .. opened']
      BY <1>1, <2>1, <2>2 DEF TypeOK
    <3>3. /\ body' \in [Profiles -> Bodies \cup {NoBody}] /\ created' \in 0 .. MaxProfiles
          /\ calm' \in BOOLEAN /\ late' = late
      BY <1>1, <2>1 DEF TypeOK
    <3> QED BY <1>1, <2>4, <3>1, <3>2, <3>3, ServedTypes
  <2>7. \A u \in 0 .. opened : u \in open' => u \in open
    BY <2>1, <2>2
  <2>8. CallFits(c)'
    <3>1. calls'[c] = n /\ calls[c].cookie \in 0 .. opened /\ calls[c].cookie \notin open
          /\ late[c].cookie \in 0 .. opened
          /\ calls[c].op # "erase" /\ (calls[c].op = "create" => calls[c].id = None)
      BY <1>1, <2>1 DEF TypeOK, CallsFit, CallFits, Known
    <3> QED BY <2>1, <2>2, <2>3, <2>7, <3>1 DEF CallFits, Done
  <2>9. CallsFit'
    BY <2>1, <2>2, <2>4, <2>7, <2>8, OthersFit DEF CallsFit
  <2>10. \A p \in Profiles : owner[p] \in 0 .. opened
    BY <1>1 DEF TypeOK
  <2>11. ~crossed' => OneAccount'
    <3>1. \A x \in Calls : /\ calls[x].cookie \in open' => calls[x].cookie \in open
                           /\ late[x].cookie \in open' => late[x].cookie \in open
      BY <1>1, <2>7 DEF CallsFit, CallFits
    <3>2. ASSUME ~crossed PROVE \A p \in Profiles : owner'[p] \in open' => owner'[p] = cookie
      BY <2>1, <2>7, <2>10, <3>2 DEF IInv, OneAccount
    <3> QED BY <2>1, <2>4, <3>1, <3>2, ServedOneAccount DEF untouched
  <2>12. \A x \in Calls : \A op, answer : /\ Done(x, op, answer)' <=> Done(x, op, answer)
                                          /\ Done(x, op, answer) => calls'[x] = calls[x]
    BY <1>1, <2>4, OthersDone DEF Served, Done
  <2>13. ASSUME calm' PROVE SaveIsAlone' /\ NothingLate'
    <3>1. Under' = Under /\ Changing' = Changing /\ Saving' = Saving
      BY <1>1, <2>4, OneCallServed
    <3>2. SaveIsAlone /\ calm /\ UNCHANGED <<stored, owner, body>>
      BY <2>1, <2>13 DEF IInv, untouched
    <3>3. ASSUME NEW x \in Calls, NEW op \in Saves, Done(x, op, "ok")', owner'[calls'[x].gave] \in open'
          PROVE  body'[calls'[x].gave] = calls'[x].body
      <4>1. Done(x, op, "ok") /\ calls'[x] = calls[x]
        BY <2>12, <3>3
      <4>2. calls[x].gave \in Profiles
        BY <1>1, <4>1 DEF CallsFit, CallFits, Done, Saves
      <4>3. owner[calls[x].gave] \in open
        BY <2>7, <2>10, <3>2, <3>3, <4>1, <4>2
      <4> QED BY <3>2, <4>1, <4>3 DEF SaveIsAlone
    <3>4. SaveIsAlone'
      BY <2>4, <3>1, <3>2, <3>3 DEF SaveIsAlone, Served, Saving, Under
    <3>5. NothingLate'
      BY <1>1, <2>1, <2>4, <3>2, NoLoadRead
    <3> QED BY <3>4, <3>5
  <2>14. calm' /\ ~crossed' => Agree'
    <3> SUFFICES ASSUME calm, ~crossed PROVE Agree'
      BY <2>1 DEF untouched
    <3>1. Agree /\ UNCHANGED <<state, stored, cookie, owner, body>>
      BY <2>1 DEF IInv, untouched
    <3>2. \A x \in Calls : Done(x, "clear", "ok")' \/ Done(x, "clear", "notfound")' \/ Done(x, "load", "notfound")'
            => ~Live(calls[x].id)'
      <4>1. \A x \in Calls : \A op \in {"clear", "load"} : \A answer : Done(x, op, answer) => calls[x].id \in Profiles
        BY <1>1 DEF TypeOK, Done, Under, CallRecord
      <4> QED BY <2>7, <2>10, <2>12, <3>1, <4>1 DEF Agree, Live
    <3>3. ChangeDone' = ChangeDone
      BY <2>12 DEF ChangeDone
    <3>4. state'.profile # NoBody /\ owner'[stored'] \in open' =>
            body'[stored'] = state'.profile \/ ChangeDone'
      <4>1. state.profile # NoBody => owner[stored] \in 0 .. opened
        BY <1>1, <2>10 DEF IInv, PageFits, TypeOK
      <4> QED BY <2>7, <3>1, <3>3, <4>1 DEF Agree
    <3>5. cookie' \in open' => cookie \in open
      BY <1>1, <2>7, <3>1 DEF TypeOK
    <3> QED BY <2>12, <3>1, <3>2, <3>4, <3>5 DEF Agree
  <2> QED BY <2>5, <2>6, <2>9, <2>11, <2>13, <2>14 DEF IInv
<1> QED BY <1>2, <1>3 DEF ServeOpen

LEMMA ServeCreateKeeps ==
    ASSUME IInv, NEW c \in Calls, ServeCreate(c)
    PROVE  IInv'
<1> DEFINE n == [calls[c] EXCEPT !.answer = "ok", !.gave = created + 1]
<1>1. /\ TypeOK /\ CallsFit /\ calls[c] \in CallRecord
      /\ calls[c].at = "asks" /\ calls[c].op = "create" /\ calls[c].answer = "none"
      /\ calls[c].cookie \in open /\ created < MaxProfiles /\ created' = created + 1
  BY DEF IInv, TypeOK, ServeCreate, Creates, Asks, Sent, Known
<1>2. /\ calls' = [calls EXCEPT ![c] = n] /\ UNCHANGED <<untouched, open, opened, late, calm>>
      /\ owner' = [owner EXCEPT ![created + 1] = calls[c].cookie]
      /\ body' = [body EXCEPT ![created + 1] = calls[c].body]
  BY DEF ServeCreate, Creates, AnswersWith
<1>3. created + 1 \in Profiles /\ created + 1 \in Nat /\ created' \in 0 .. MaxProfiles
  BY <1>1, BoundsAssumption DEF TypeOK, Profiles
<1>4. /\ n \in CallRecord /\ n.op = "create" /\ n.at = "asks" /\ n.on = calls[c].on
      /\ n.id = calls[c].id /\ n.cookie = calls[c].cookie /\ n.gave = created + 1 /\ n.answer = "ok"
      /\ n.body = calls[c].body
  BY <1>1, <1>3 DEF CallRecord
<1> HIDE DEF n
<1>5. Served(c) /\ c \in Changing /\ c \in Under /\ calls'[c] = n
  BY <1>1, <1>2, <1>4 DEF Served, TypeOK, Changing, Under, Changes, Saves
<1>6. PageFits' /\ BootstrapIsShared' /\ LoadIsAlone'
  BY <1>5, ServedPage
<1>7. /\ calls[c].cookie \in 0 .. opened /\ calls[c].cookie # None
      /\ calls[c].body \in Bodies \cup {NoBody}
      /\ opened \in Nat
  BY <1>1, BoundsAssumption DEF TypeOK, CallsFit, CallFits, CallRecord, None
<1>8. owner' \in [Profiles -> 0 .. opened] /\ body' \in [Profiles -> Bodies \cup {NoBody}]
  BY <1>1, <1>2, <1>7 DEF TypeOK
<1>9. TypeOK'
  BY <1>1, <1>2, <1>3, <1>5, <1>7, <1>8, BoundsAssumption, ServedTypes DEF TypeOK
<1>10. CallsFit'
  <2>1. CallFits(c) /\ calls[c].id = None /\ late[c].cookie \in 0 .. opened
    BY <1>1 DEF CallsFit, CallFits
  <2>2. CallFits(c)'
    BY <1>2, <1>3, <1>4, <1>5, <1>7, <2>1 DEF CallFits, Done
  <2> QED BY <1>2, <1>5, <1>7, <2>2, OthersFit DEF CallsFit
<1>11. ~crossed' => OneAccount'
  <2>1. ASSUME ~crossed PROVE \A p \in Profiles : owner'[p] \in open' => owner'[p] = cookie
    BY <1>1, <1>2, <1>3, <2>1 DEF IInv, OneAccount, TypeOK
  <2> QED BY <1>2, <1>5, <2>1, ServedOneAccount DEF untouched
<1>12. ASSUME calm, NEW x \in Calls, x # c PROVE x \notin Changing
  <2>1. c \in Saving
    BY <1>1 DEF Saving, Under, Saves
  <2> QED BY <1>12, <2>1 DEF IInv, SaveIsAlone
<1>13. /\ Under' = Under /\ Changing' = Changing /\ Saving' = Saving
  BY <1>1, <1>5, OneCallServed
<1>14. calm' => SaveIsAlone' /\ NothingLate'
  <2> SUFFICES ASSUME calm PROVE SaveIsAlone' /\ NothingLate'
    BY <1>2
  <2>1. \A x \in Calls : \A op \in Saves : Done(x, op, "ok")' => x = c
    BY <1>5, <1>12 DEF Done, Served, Changing, Under, Changes
  <2>2. body'[created + 1] = calls[c].body
    BY <1>1, <1>2, <1>3, <1>7 DEF TypeOK
  <2>3. SaveIsAlone'
    BY <1>2, <1>4, <1>5, <1>13, <2>1, <2>2 DEF IInv, SaveIsAlone, Served, untouched, Saving, Under
  <2>4. NothingLate'
    BY <1>1, <1>2, <1>5, NoLoadRead
  <2> QED BY <2>3, <2>4
<1>15. calm' /\ ~crossed' => Agree'
  <2> SUFFICES ASSUME calm, ~crossed PROVE Agree'
    BY <1>2 DEF untouched
  <2>1. Agree /\ UNCHANGED <<state, stored, cookie, open>>
    BY <1>2 DEF IInv, untouched
  <2>2. ASSUME NEW x \in Calls,
               Done(x, "clear", "ok")' \/ Done(x, "clear", "notfound")' \/ Done(x, "load", "notfound")'
        PROVE  FALSE
    <3>1. x # c
      BY <1>4, <1>5, <2>2 DEF Done
    <3>2. x \in Under /\ calls[x].op \in {"clear", "load"}
      BY <1>5, <2>2 DEF Done, Served, Under
    <3> QED BY <1>5, <1>12, <3>1, <3>2 DEF IInv, LoadIsAlone, Changing, Changes
  <2>3. Done(c, "create", "ok")' /\ ChangeDone'
    BY <1>4, <1>5 DEF Done, ChangeDone, Changes, Saves
  <2>4. \A x \in Calls : ~Done(x, "create", "ok")
    BY <1>1, <1>12 DEF Done, Changing, Under, Changes, Saves
  <2>5. cookie' \in open' => \A p \in Profiles : owner'[p] = cookie' /\ body'[p] # NoBody =>
           p = stored' \/ \E x \in Calls : Done(x, "create", "ok")' /\ calls'[x].gave = p
    <3> SUFFICES ASSUME cookie \in open, NEW p \in Profiles, owner'[p] = cookie, body'[p] # NoBody,
                        p # stored
                 PROVE  p = created + 1
      BY <1>4, <1>5, <2>1, <2>3
    <3>1. ASSUME p # created + 1 PROVE owner[p] = cookie /\ body[p] # NoBody
      BY <1>1, <1>2, <3>1 DEF TypeOK
    <3> QED BY <2>1, <2>4, <3>1 DEF Agree
  <2> QED BY <2>2, <2>3, <2>5 DEF Agree
<1> QED BY <1>6, <1>9, <1>10, <1>11, <1>14, <1>15 DEF IInv

LEMMA ServeReplaceKeeps ==
    ASSUME IInv, NEW c \in Calls, ServeReplace(c)
    PROVE  IInv'
<1> DEFINE n == [calls[c] EXCEPT !.answer = "ok", !.gave = calls[c].id]
<1>1. /\ TypeOK /\ CallsFit /\ calls[c] \in CallRecord
      /\ calls[c].at = "asks" /\ calls[c].op = "replace" /\ calls[c].answer = "none"
      /\ calls[c].cookie \in open /\ calls[c].id # None /\ owner[calls[c].id] = calls[c].cookie
      /\ body[calls[c].id] # NoBody
  BY DEF IInv, TypeOK, ServeReplace, Asks, Sent, Known, Owned
<1>2. /\ calls' = [calls EXCEPT ![c] = n] /\ UNCHANGED <<untouched, open, opened, owner, created, late, calm>>
      /\ body' = [body EXCEPT ![calls[c].id] = calls[c].body]
  BY DEF ServeReplace, Replaces, AnswersWith
<1>3. calls[c].id \in Profiles /\ calls[c].id \in Nat
  BY <1>1, BoundsAssumption DEF CallRecord, Profiles
<1>4. /\ n \in CallRecord /\ n.op = "replace" /\ n.at = "asks" /\ n.on = calls[c].on
      /\ n.id = calls[c].id /\ n.cookie = calls[c].cookie /\ n.gave = calls[c].id /\ n.answer = "ok"
      /\ n.body = calls[c].body
  BY <1>1, <1>3 DEF CallRecord
<1> HIDE DEF n
<1>5. Served(c) /\ c \in Changing /\ c \in Under /\ calls'[c] = n
  BY <1>1, <1>2, <1>4 DEF Served, TypeOK, Changing, Under, Changes, Saves
<1>6. PageFits' /\ BootstrapIsShared' /\ LoadIsAlone'
  BY <1>5, ServedPage
<1>7. /\ calls[c].cookie \in 0 .. opened /\ calls[c].cookie # None
      /\ calls[c].body \in Bodies \cup {NoBody}
      /\ opened \in Nat
  BY <1>1, BoundsAssumption DEF TypeOK, CallsFit, CallFits, CallRecord, None
<1>8. body' \in [Profiles -> Bodies \cup {NoBody}]
  BY <1>1, <1>2, <1>7 DEF TypeOK
<1>9. TypeOK'
  BY <1>1, <1>2, <1>5, <1>7, <1>8, BoundsAssumption, ServedTypes DEF TypeOK
<1>10. CallsFit'
  <2>1. CallFits(c)
    BY <1>1 DEF CallsFit
  <2>2. CallFits(c)'
    BY <1>2, <1>3, <1>4, <1>5, <1>7, <2>1 DEF CallFits, Done
  <2> QED BY <1>2, <1>5, <1>7, <2>2, OthersFit DEF CallsFit
<1>11. ~crossed' => OneAccount'
  BY <1>2, <1>5, ServedOneAccount DEF untouched, IInv, OneAccount
<1>12. ASSUME calm, NEW x \in Calls, x # c PROVE x \notin Changing
  <2>1. c \in Saving
    BY <1>1 DEF Saving, Under, Saves
  <2> QED BY <1>12, <2>1 DEF IInv, SaveIsAlone
<1>13. /\ Under' = Under /\ Changing' = Changing /\ Saving' = Saving
  BY <1>1, <1>5, OneCallServed
<1>14. calm' => SaveIsAlone' /\ NothingLate'
  <2> SUFFICES ASSUME calm PROVE SaveIsAlone' /\ NothingLate'
    BY <1>2
  <2>1. \A x \in Calls : \A op \in Saves : Done(x, op, "ok")' => x = c
    BY <1>5, <1>12 DEF Done, Served, Changing, Under, Changes
  <2>2. body'[calls[c].id] = calls[c].body
    BY <1>1, <1>2, <1>3, <1>7 DEF TypeOK
  <2>3. SaveIsAlone'
    BY <1>2, <1>4, <1>5, <1>13, <2>1, <2>2 DEF IInv, SaveIsAlone, Served, untouched, Saving, Under
  <2>4. NothingLate'
    BY <1>1, <1>2, <1>5, NoLoadRead
  <2> QED BY <2>3, <2>4
<1>15. calm' /\ ~crossed' => Agree'
  <2> SUFFICES ASSUME calm, ~crossed PROVE Agree'
    BY <1>2 DEF untouched
  <2>1. Agree /\ UNCHANGED <<state, stored, cookie, open, owner>>
    BY <1>2 DEF IInv, untouched
  <2>2. ASSUME NEW x \in Calls,
               Done(x, "clear", "ok")' \/ Done(x, "clear", "notfound")' \/ Done(x, "load", "notfound")'
        PROVE  FALSE
    <3>1. x # c
      BY <1>4, <1>5, <2>2 DEF Done
    <3>2. x \in Under /\ calls[x].op \in {"clear", "load"}
      BY <1>5, <2>2 DEF Done, Served, Under
    <3> QED BY <1>5, <1>12, <3>1, <3>2 DEF IInv, LoadIsAlone, Changing, Changes
  <2>3. ChangeDone'
    BY <1>4, <1>5 DEF Done, ChangeDone, Changes, Saves
  <2>4. \A x \in Calls : ~Done(x, "create", "ok")
    BY <1>1, <1>12 DEF Done, Changing, Under, Changes, Saves
  <2>5. \A p \in Profiles : body'[p] # NoBody => body[p] # NoBody
    BY <1>1, <1>2 DEF TypeOK
  <2> QED BY <2>1, <2>2, <2>3, <2>4, <2>5 DEF Agree
<1> QED BY <1>6, <1>9, <1>10, <1>11, <1>14, <1>15 DEF IInv

\* With a clear or an erasure under way nothing is being saved, while calm holds.
LEMMA NothingSaved ==
    ASSUME IInv, calm, NEW c \in Changing, c \notin Saving
    PROVE  Saving = {} /\ \A x \in Calls : \A op \in Saves : ~Done(x, op, "ok")
<1>1. Saving = {}
  BY DEF IInv, SaveIsAlone, Saving
<1> QED BY <1>1 DEF Saving, Under, Done, Saves

\* The tables lose rows to a clear or an erasure: nothing is being saved.
LEMMA RemovalSaves ==
    ASSUME IInv, calm, NEW c \in Calls, Served(c), calls[c].at = "asks",
           calls[c].op \in {"clear", "erase"}, UNCHANGED late
    PROVE  SaveIsAlone' /\ NothingLate'
<1>1. TypeOK /\ SaveIsAlone /\ UNCHANGED stored
  BY DEF IInv, Served, untouched
<1>2. /\ Under' = Under /\ Changing' = Changing /\ Saving' = Saving
  BY <1>1, OneCallServed
<1>3. c \in Changing /\ c \notin Saving
  BY DEF Changing, Under, Saving, Changes, Saves
<1>4. Saving = {}
  BY <1>3, NothingSaved
<1>5. \A x \in Calls : \A op \in Saves : ~Done(x, op, "ok")'
  BY <1>2, <1>4 DEF Saving, Under, Done, Saves
<1>6. SaveIsAlone'
  BY <1>1, <1>2, <1>4, <1>5 DEF SaveIsAlone, Served, Under
<1>7. NothingLate'
  BY NoLoadRead DEF Under
<1> QED BY <1>6, <1>7

\* And with the answer on its way, the page and the backend agree.
LEMMA RemovalAgrees ==
    ASSUME IInv, calm, ~crossed, NEW c \in Calls, Served(c), calls[c].at = "asks",
           NEW op \in {"clear", "erase"}, calls[c].op = op, Done(c, op, "ok")',
           open' \subseteq open, UNCHANGED owner, \A p \in Profiles : body'[p] \in {body[p], NoBody},
           op = "clear" => body'[calls[c].id] = NoBody
    PROVE  Agree'
<1>1. TypeOK /\ Agree /\ UNCHANGED <<state, stored, cookie>>
  BY DEF IInv, Served, untouched
<1>2. \A x \in Calls : ~Done(x, "create", "ok")
  <2>1. c \in Changing /\ c \notin Saving
    BY DEF Changing, Under, Saving, Changes, Saves
  <2> QED BY <2>1, NothingSaved DEF Saves
<1>3. ASSUME NEW x \in Calls,
             Done(x, "clear", "ok")' \/ Done(x, "clear", "notfound")' \/ Done(x, "load", "notfound")'
      PROVE  ~Live(calls[x].id)'
  <2>1. calls'[x].id = calls[x].id
    BY DEF Served
  <2>2. calls[x].id \in Profiles
    BY <1>1, <1>3, <2>1 DEF TypeOK, CallRecord, Done, Under, Served
  <2>3. CASE x = c
    <3>1. op = "clear"
      BY <1>3, <2>3 DEF Done, Served
    <3> QED BY <2>1, <2>3, <3>1 DEF Live
  <2>4. CASE x # c
    <3>1. Done(x, "clear", "ok") \/ Done(x, "clear", "notfound") \/ Done(x, "load", "notfound")
      BY <1>3, <2>4 DEF Done, Served
    <3>2. ~Live(calls[x].id)
      BY <1>1, <3>1 DEF Agree
    <3> QED BY <2>1, <2>2, <3>2 DEF Live
  <2> QED BY <2>3, <2>4
<1>4. ChangeDone'
  BY DEF ChangeDone, Changes, Saves
<1>5. cookie' \in open' => \A p \in Profiles : owner'[p] = cookie' /\ body'[p] # NoBody => p = stored'
  <2> SUFFICES ASSUME cookie \in open', NEW p \in Profiles, owner[p] = cookie, body'[p] # NoBody
               PROVE  p = stored
    BY <1>1
  <2>1. cookie \in open /\ body[p] # NoBody
    OBVIOUS
  <2> QED BY <1>1, <1>2, <2>1 DEF Agree
<1> QED BY <1>1, <1>3, <1>4, <1>5 DEF Agree

LEMMA ServeClearKeeps ==
    ASSUME IInv, NEW c \in Calls, ServeClear(c)
    PROVE  IInv'
<1>1. /\ TypeOK /\ CallsFit /\ calls[c] \in CallRecord
      /\ calls[c].at = "asks" /\ calls[c].op = "clear" /\ calls[c].answer = "none"
      /\ calls[c].id # None
  BY DEF IInv, TypeOK, ServeClear, Asks, Sent, Owned
<1>2. /\ Answers(c, "ok") /\ UNCHANGED <<open, opened, owner, created, calm>>
      /\ body' = [body EXCEPT ![calls[c].id] = NoBody]
  BY DEF ServeClear, Clears
<1>3. calls[c].id \in Profiles /\ opened \in Nat
  BY <1>1, BoundsAssumption DEF CallRecord, TypeOK
<1>4. /\ Served(c) /\ calls'[c] = [calls[c] EXCEPT !.answer = "ok"] /\ c \in Under
      /\ UNCHANGED late
  BY <1>1, <1>2, AnswersServe DEF Under
<1>5. /\ calls'[c].op = "clear" /\ calls'[c].at = "asks" /\ calls'[c].answer = "ok"
      /\ calls'[c].cookie = calls[c].cookie /\ calls'[c].gave = calls[c].gave
  BY <1>1, <1>4 DEF CallRecord
<1>6. PageFits' /\ BootstrapIsShared' /\ LoadIsAlone'
  BY <1>4, ServedPage
<1>7. body' \in [Profiles -> Bodies \cup {NoBody}] /\ body'[calls[c].id] = NoBody
      /\ \A p \in Profiles : body'[p] \in {body[p], NoBody}
  BY <1>1, <1>2, <1>3 DEF TypeOK
<1>8. TypeOK'
  BY <1>1, <1>2, <1>3, <1>4, <1>7, BoundsAssumption, ServedTypes DEF TypeOK
<1>9. CallsFit'
  <2>1. CallFits(c)
    BY <1>1 DEF CallsFit
  <2>2. CallFits(c)'
    BY <1>2, <1>4, <1>5, <2>1 DEF CallFits, Done
  <2> QED BY <1>2, <1>3, <1>4, <2>2, OthersFit DEF CallsFit
<1>10. ~crossed' => OneAccount'
  BY <1>2, <1>4, ServedOneAccount DEF IInv, OneAccount, untouched, Answers
<1>11. calm' => SaveIsAlone' /\ NothingLate'
  BY <1>1, <1>2, <1>4, RemovalSaves
<1>12. calm' /\ ~crossed' => Agree'
  <2> SUFFICES ASSUME calm, ~crossed PROVE Agree'
    BY <1>2 DEF Answers, untouched
  <2>1. Done(c, "clear", "ok")'
    BY <1>5 DEF Done
  <2> QED BY <1>1, <1>2, <1>4, <1>7, <2>1, RemovalAgrees
<1> QED BY <1>6, <1>8, <1>9, <1>10, <1>11, <1>12 DEF IInv

LEMMA ServeEraseKeeps ==
    ASSUME IInv, NEW c \in Calls, ServeErase(c)
    PROVE  IInv'
<1>1. /\ TypeOK /\ CallsFit /\ calls[c] \in CallRecord
      /\ calls[c].at = "asks" /\ calls[c].op = "erase" /\ calls[c].answer = "none"
  BY DEF IInv, TypeOK, ServeErase, Asks, Sent
<1>2. PICK answer \in {"ok", "fails"} :
          /\ Answers(c, answer)
          /\ UNCHANGED <<opened, owner, created>>
          /\ body' = [p \in Profiles |-> IF owner[p] = calls[c].cookie THEN NoBody ELSE body[p]]
          /\ answer = "ok" => open' = open \ {calls[c].cookie} /\ calm' = calm
          /\ answer = "fails" => open' = open /\ calm' = FALSE
  BY DEF ServeErase, Erases
<1>3. Served(c) /\ calls'[c] = [calls[c] EXCEPT !.answer = answer] /\ c \in Under /\ UNCHANGED late
  BY <1>1, <1>2, AnswersServe DEF Under
<1>4. /\ calls'[c].op = "erase" /\ calls'[c].at = "asks" /\ calls'[c].answer = answer
      /\ calls'[c].cookie = calls[c].cookie /\ calls'[c].gave = calls[c].gave
  BY <1>1, <1>3 DEF CallRecord
<1>5. PageFits' /\ BootstrapIsShared' /\ LoadIsAlone'
  BY <1>3, ServedPage
<1>6. /\ body' \in [Profiles -> Bodies \cup {NoBody}] /\ opened \in Nat
      /\ \A p \in Profiles : body'[p] \in {body[p], NoBody}
  BY <1>1, <1>2, BoundsAssumption DEF TypeOK
<1>7. open' \subseteq open
  BY <1>2
<1>8. calm' \in BOOLEAN /\ (calm' => calm /\ answer = "ok")
  <2>1. calm \in BOOLEAN
    BY <1>1 DEF TypeOK
  <2>2. CASE answer = "ok"
    <3>1. calm' = calm
      BY <1>2, <2>2
    <3> QED BY <2>1, <2>2, <3>1
  <2>3. CASE answer = "fails"
    <3>1. calm' = FALSE
      BY <1>2, <2>3
    <3> QED BY <3>1
  <2> QED BY <2>2, <2>3
<1>9. TypeOK'
  BY <1>1, <1>2, <1>3, <1>6, <1>7, <1>8, BoundsAssumption, ServedTypes DEF TypeOK
<1>10. CallsFit'
  <2>1. CallFits(c)
    BY <1>1 DEF CallsFit
  <2>2. CallFits(c)'
    BY <1>2, <1>3, <1>4, <2>1 DEF CallFits, Done
  <2> QED BY <1>2, <1>3, <1>6, <1>7, <2>2, OthersFit DEF CallsFit
<1>11. ~crossed' => OneAccount'
  BY <1>2, <1>3, <1>7, ServedOneAccount DEF IInv, OneAccount, untouched, Served
<1>12. calm' => SaveIsAlone' /\ NothingLate'
  BY <1>1, <1>3, <1>8, RemovalSaves
<1>13. calm' /\ ~crossed' => Agree'
  <2> SUFFICES ASSUME calm', ~crossed' PROVE Agree'
    OBVIOUS
  <2>1. calm /\ ~crossed /\ Done(c, "erase", "ok")'
    BY <1>3, <1>4, <1>8 DEF Done, Served, untouched
  <2> QED BY <1>1, <1>2, <1>3, <1>6, <1>7, <2>1, RemovalAgrees
<1> QED BY <1>5, <1>9, <1>10, <1>11, <1>12, <1>13 DEF IInv

-----------------------------------------------------------------------------
(* A call ends with its answer *)

LEMMA EndsEnded ==
    ASSUME TypeOK, NEW c \in Calls, NEW ops, NEW answers, Ends(c, ops, answers)
    PROVE  /\ Ended(c) /\ UNCHANGED <<backend, crossed, calm>>
           /\ calls[c].op \in ops /\ calls[c].answer \in answers /\ c \in Under
BY NoRequestIsACall DEF TypeOK, Ends, Answered, Ended, Under

LEMMA EndedTypes ==
    ASSUME TypeOK, NEW c \in Calls, Ended(c), UNCHANGED <<backend, crossed, calm>>,
           state' \in [profileId : Profiles \cup {None}, profile : Bodies \cup {NoBody}, status : Statuses],
           stored' \in Profiles \cup {None}, bootstrapPromise' \in Calls \cup {NoCall},
           cookie' \in 0 .. opened, cut' \subseteq Calls
    PROVE  TypeOK'
<1>1. \A x \in Under' : x # c /\ x \in Under /\ calls'[x] = calls[x]
  BY DEF Ended, Under, NoRequest
<1> QED BY <1>1 DEF TypeOK, Ended, backend, tables

LEMMA EndedCallsFit ==
    ASSUME IInv, NEW c \in Calls, Ended(c), UNCHANGED backend
    PROVE  CallsFit'
<1>1. TypeOK /\ CallsFit /\ UNCHANGED <<open, opened, owner, body, late>>
  BY DEF IInv, backend, tables
<1>2. 0 \in 0 .. opened
  BY <1>1, BoundsAssumption DEF TypeOK
<1> SUFFICES ASSUME NEW x \in Calls PROVE CallFits(x)'
  BY DEF CallsFit
<1>3. CallFits(x)
  BY <1>1 DEF CallsFit
<1>4. CASE x = c
  <2>1. calls'[x] = NoRequest /\ late[x].cookie \in 0 .. opened
    BY <1>3, <1>4 DEF Ended, CallFits
  <2> QED BY <1>1, <1>2, <2>1 DEF CallFits, Done, NoRequest, None
<1>5. CASE x # c
  <2>1. calls'[x] = calls[x] /\ (x \notin overtaken' => x \notin overtaken)
    BY <1>5 DEF Ended
  <2> QED BY <1>1, <1>3, <2>1 DEF CallFits, Done
<1> QED BY <1>4, <1>5

LEMMA EndedPage ==
    ASSUME IInv, NEW c \in Calls, Ended(c),
           state'.profileId = stored', state'.profile # NoBody => stored' # None,
           state' # state => state'.status \notin {"idle", "loading"} \/ state'.profile = NoBody,
           state' # state => state'.status # "idle"
    PROVE  PageFits' /\ LoadIsAlone'
<1>1. TypeOK /\ PageFits /\ LoadIsAlone
  BY DEF IInv
<1>2. Under' = Under \ {c} /\ c \in Under
  BY <1>1, OneCallEnded DEF Ended, Under
<1>3. \A x \in Under' : calls'[x].op # "load"
  BY <1>1, <1>2 DEF LoadIsAlone, Ended, Under
<1>4. state.status # "idle"
  BY <1>1, <1>2 DEF PageFits
<1>5. PageFits'
  BY <1>1, <1>4 DEF PageFits
<1>6. LoadIsAlone'
  BY <1>3 DEF LoadIsAlone
<1> QED BY <1>5, <1>6

LEMMA EndedShared ==
    ASSUME IInv, NEW c \in Calls, Ended(c), UNCHANGED <<bootstrapPromise, cut>>
    PROVE  BootstrapIsShared'
<1>1. TypeOK /\ BootstrapIsShared
  BY DEF IInv
<1>2. Bootstrapping' = Bootstrapping
  BY <1>1, OneCallEnded
<1>3. \A x \in Calls : calls'[x].at = "waits" => calls'[x] = calls[x]
  BY DEF Ended, NoRequest
<1> QED BY <1>1, <1>2, <1>3 DEF BootstrapIsShared

LEMMA EndedOneAccount ==
    ASSUME IInv, ~crossed, NEW c \in Calls, Ended(c), UNCHANGED <<backend, cookie, cut>>
    PROVE  OneAccount'
<1>1. TypeOK /\ OneAccount /\ UNCHANGED <<open, owner, late>>
  BY DEF IInv, backend, tables
<1>2. Bootstrapping' = Bootstrapping /\ c \notin Bootstrapping
  BY <1>1, OneCallEnded DEF Ended, Bootstrapping
<1>3. calls'[c].cookie \notin open /\ calls'[c].op # "erase"
  BY <1>1 DEF Ended, NoRequest, TypeOK, None
<1>4. \A x \in Calls : x # c => calls'[x] = calls[x]
  BY DEF Ended
<1> QED BY <1>1, <1>2, <1>3, <1>4 DEF OneAccount, Bootstrapping

LEMMA EndedSaves ==
    ASSUME IInv, calm, NEW c \in Calls, Ended(c), UNCHANGED backend,
           \/ stored' = stored
           \/ Saving \ {c} = {} /\ (stored' = None \/ Changing \ {c} = {})
    PROVE  SaveIsAlone' /\ NothingLate'
<1>1. TypeOK /\ SaveIsAlone /\ UNCHANGED <<open, owner, body>>
  BY DEF IInv, backend, tables
<1>2. /\ Under' = Under \ {c} /\ Changing' = Changing \ {c} /\ Saving' = Saving \ {c}
  BY <1>1, OneCallEnded
<1>3. \A x \in Calls : x # c => calls'[x] = calls[x]
  BY DEF Ended
<1>4. ASSUME NEW x \in Saving' PROVE Changing' = {x} /\ stored' = calls'[x].id
  <2>1. Changing = {x} /\ stored = calls[x].id /\ x # c /\ x \in Calls
    BY <1>1, <1>2, <1>4 DEF SaveIsAlone, Saving, Under
  <2> QED BY <1>2, <1>3, <1>4, <2>1
<1>5. ASSUME NEW x \in Under', calls'[x].op = "clear" PROVE stored' \in {calls'[x].id, None}
  <2>1. x \in Under /\ x \in Calls /\ x # c /\ calls[x].op = "clear" /\ calls'[x] = calls[x]
    BY <1>2, <1>3, <1>5 DEF Under
  <2>2. x \in Changing \ {c}
    BY <2>1 DEF Changing, Changes
  <2> QED BY <1>1, <2>1, <2>2 DEF SaveIsAlone
<1>6. \A x \in Calls : \A op \in Saves \cup {"load"} : Done(x, op, "ok")' => Done(x, op, "ok") /\ calls'[x] = calls[x]
  BY DEF Ended, Done, NoRequest
<1>7. \A x \in Calls : \A op \in Saves : Done(x, op, "ok")' /\ owner'[calls'[x].gave] \in open' =>
          body'[calls'[x].gave] = calls'[x].body
  BY <1>1, <1>6 DEF SaveIsAlone
<1>8. SaveIsAlone'
  BY <1>4, <1>5, <1>7 DEF SaveIsAlone
<1>9. NothingLate'
  BY <1>6, NothingLateStays
<1> QED BY <1>8, <1>9

\* Of the answers on their way, the end of c takes its own.
LEMMA EndedDone ==
    ASSUME NEW c \in Calls, Ended(c), NEW x \in Calls
    PROVE  \A op, answer : Done(x, op, answer)' <=> x # c /\ Done(x, op, answer) /\ calls'[x] = calls[x]
BY DEF Ended, Done, NoRequest

LEMMA EndedAnswers ==
    ASSUME IInv, calm, ~crossed, NEW c \in Calls, Ended(c), UNCHANGED backend
    PROVE  \A x \in Calls : Done(x, "clear", "ok")' \/ Done(x, "clear", "notfound")' \/ Done(x, "load", "notfound")'
             => ~Live(calls[x].id)'
<1>1. Agree /\ UNCHANGED <<open, owner, body>>
  BY DEF IInv, backend, tables
<1>2. ASSUME NEW x \in Calls, Done(x, "clear", "ok")' \/ Done(x, "clear", "notfound")' \/ Done(x, "load", "notfound")'
      PROVE  ~Live(calls[x].id)'
  <2>1. /\ calls'[x] = calls[x]
        /\ Done(x, "clear", "ok") \/ Done(x, "clear", "notfound") \/ Done(x, "load", "notfound")
    BY <1>2, EndedDone
  <2> QED BY <1>1, <2>1 DEF Agree, Live
<1> QED BY <1>2

\* What ends without a change that was made leaves the page and the backend agreed.
LEMMA EndedAgree ==
    ASSUME IInv, calm, ~crossed, NEW c \in Calls, Ended(c), UNCHANGED <<backend, stored, cookie>>,
           state'.profile = state.profile, \A op \in Changes : ~Done(c, op, "ok")
    PROVE  Agree'
<1>1. Agree /\ UNCHANGED <<open, owner, body>>
  BY DEF IInv, backend, tables
<1>2. \A x \in Calls, op \in Changes : /\ Done(x, op, "ok")' <=> Done(x, op, "ok")
                                       /\ Done(x, op, "ok") => calls'[x] = calls[x]
  BY EndedDone DEF Ended
<1>3. ChangeDone' = ChangeDone
  BY <1>2 DEF ChangeDone
<1>4. cookie' \in open' => \A p \in Profiles : owner'[p] = cookie' /\ body'[p] # NoBody =>
         p = stored' \/ \E x \in Calls : Done(x, "create", "ok")' /\ calls'[x].gave = p
  BY <1>1, <1>2 DEF Agree, Changes, Saves
<1> QED BY <1>1, <1>3, <1>4, EndedAnswers DEF Agree

\* The page is left as it is but for the status, which is no longer "loading"
LEMMA EndedQuietly ==
    ASSUME IInv, NEW c \in Calls, Ended(c), UNCHANGED <<backend, crossed, calm>>,
           UNCHANGED <<stored, bootstrapPromise, cookie, cut>>,
           state' = state \/ state' = LoadFailed,
           \A op \in Changes : ~Done(c, op, "ok")
    PROVE  IInv'
<1>1. TypeOK /\ PageFits
  BY DEF IInv
<1>2. /\ state' \in [profileId : Profiles \cup {None}, profile : Bodies \cup {NoBody}, status : Statuses]
      /\ state'.profileId = state.profileId /\ state'.profile = state.profile
      /\ state' # state => state'.status = "error"
  BY <1>1 DEF TypeOK, LoadFailed, Statuses
<1>3. TypeOK'
  BY <1>1, <1>2, EndedTypes DEF TypeOK
<1>4. PageFits' /\ LoadIsAlone'
  BY <1>1, <1>2, EndedPage DEF PageFits
<1> QED BY <1>1, <1>2, <1>3, <1>4, EndedCallsFit, EndedShared, EndedOneAccount, EndedSaves, EndedAgree
        DEF IInv

LEMMA ForgetTypes ==
    ASSUME NEW status \in {"empty", "error"}, Forget(status)
    PROVE  /\ state' \in [profileId : Profiles \cup {None}, profile : Bodies \cup {NoBody}, status : Statuses]
           /\ state'.profileId = None /\ state'.profile = NoBody /\ state'.status = status
           /\ stored' = None
BY DEF Forget, Empty, Statuses

\* A load or a clear that finds the profile gone, or a clear that was done
LEMMA EndedForgets ==
    ASSUME IInv, NEW c \in Calls, Ended(c), UNCHANGED <<backend, crossed, calm>>,
           UNCHANGED <<bootstrapPromise, cookie, cut>>, NEW status \in {"empty", "error"}, Forget(status),
           Done(c, "clear", "ok") \/ Done(c, "clear", "notfound") \/ Done(c, "load", "notfound")
    PROVE  IInv'
<1>1. TypeOK /\ LoadIsAlone /\ c \in Under
  BY DEF IInv, Ended, Under
<1>2. TypeOK'
  BY <1>1, ForgetTypes, EndedTypes DEF TypeOK
<1>3. PageFits' /\ LoadIsAlone'
  BY ForgetTypes, EndedPage
<1>4. calm => Saving = {} /\ stored \in {calls[c].id, None}
  <2>1. CASE calls[c].op = "load"
    BY <1>1, <2>1 DEF LoadIsAlone, Saving, Saves
  <2>2. CASE calls[c].op = "clear"
    <3>1. c \in Changing /\ c \notin Saving
      BY <1>1, <2>2 DEF Changing, Saving, Changes, Saves
    <3>2. calm => Saving = {}
      BY <3>1, NothingSaved
    <3> QED BY <1>1, <2>2, <3>2 DEF IInv, SaveIsAlone
  <2> QED BY <2>1, <2>2 DEF Done
<1>5. calm' => SaveIsAlone' /\ NothingLate'
  BY <1>4, ForgetTypes, EndedSaves
<1>6. ASSUME calm, ~crossed PROVE Agree'
  <2>1. Agree /\ ~Live(calls[c].id) /\ UNCHANGED <<open, owner, body, cookie>>
    BY <1>6 DEF IInv, Agree, backend, tables
  <2>2. \A x \in Calls : ~Done(x, "create", "ok")
    BY <1>4, <1>6 DEF Done, Saving, Under, Saves
  <2>3. cookie \in open => \A p \in Profiles : owner[p] = cookie => body[p] = NoBody
    <3> SUFFICES ASSUME cookie \in open, NEW p \in Profiles, owner[p] = cookie, body[p] # NoBody PROVE FALSE
      OBVIOUS
    <3>1. p = stored /\ p # None
      BY <2>1, <2>2 DEF Agree, Profiles, None
    <3> QED BY <1>4, <1>6, <2>1, <3>1 DEF Live
  <2> QED BY <1>6, <2>1, <2>3, ForgetTypes, EndedAnswers DEF Agree
<1> QED BY <1>2, <1>3, <1>5, <1>6, EndedCallsFit, EndedShared, EndedOneAccount DEF IInv

LEMMA MetricsAnsweredKeeps ==
    ASSUME IInv, NEW c \in Calls, MetricsAnswered(c)
    PROVE  IInv'
<1>1. TypeOK
  BY DEF IInv
<1>2. Ended(c) /\ UNCHANGED <<backend, crossed, calm>> /\ calls[c].op = "metrics"
  BY <1>1, EndsEnded DEF MetricsAnswered
<1>3. \A op \in Changes : ~Done(c, op, "ok")
  BY <1>2 DEF Done, Changes, Saves
<1> QED BY <1>2, <1>3, EndedQuietly DEF MetricsAnswered

LEMMA LoadAnsweredKeeps ==
    ASSUME IInv, NEW c \in Calls, LoadAnswered(c)
    PROVE  IInv'
<1>1. TypeOK /\ PageFits /\ LoadIsAlone /\ CallFits(c) /\ UNCHANGED <<bootstrapPromise, cookie, cut>>
  BY DEF IInv, CallsFit, LoadAnswered
<1>2. /\ Ended(c) /\ UNCHANGED <<backend, crossed, calm>> /\ calls[c].op = "load" /\ calls[c].at = "asks"
      /\ c \in Under
  BY <1>1, EndsEnded DEF LoadAnswered, Ended
<1>3. /\ state.status = "loading" /\ stored = calls[c].id /\ Under = {c} /\ stored # None
      /\ state.profile = NoBody
  BY <1>1, <1>2 DEF LoadIsAlone, TypeOK, PageFits
<1>4. \A op \in Changes : ~Done(c, op, "ok")
  BY <1>2 DEF Done, Changes, Saves
<1>5. CASE Done(c, "load", "ok")
  <2>1. /\ state' = [profileId |-> stored, profile |-> calls[c].body, status |-> "ready"] /\ stored' = stored
    BY <1>3, <1>5 DEF LoadAnswered, Ends, Answered, Done, Keep
  <2>2. /\ state' \in [profileId : Profiles \cup {None}, profile : Bodies \cup {NoBody}, status : Statuses]
        /\ state'.profileId = stored /\ state'.profile = calls[c].body /\ state'.status = "ready"
    BY <1>1, <2>1 DEF TypeOK, CallRecord, Statuses
  <2>3. TypeOK'
    BY <1>1, <1>2, <2>1, <2>2, EndedTypes DEF TypeOK
  <2>4. PageFits' /\ LoadIsAlone'
    BY <1>2, <1>3, <2>1, <2>2, EndedPage
  <2>5. calm' => SaveIsAlone' /\ NothingLate'
    BY <1>2, <2>1, EndedSaves
  <2>6. ASSUME calm, ~crossed PROVE Agree'
    <3>1. owner[stored] \in open => body[stored] = calls[c].body
      BY <1>3, <1>5, <2>6 DEF IInv, NothingLate
    <3>2. Agree /\ UNCHANGED <<open, owner, body>>
      BY <1>2, <2>6 DEF IInv, backend, tables
    <3>3. \A x \in Calls : ~Done(x, "create", "ok")
      BY <1>3, <1>4 DEF Done, Under, Changes, Saves
    <3> QED BY <1>1, <1>2, <2>1, <2>2, <2>6, <3>1, <3>2, <3>3, EndedAnswers DEF Agree
  <2> QED BY <1>1, <1>2, <2>3, <2>4, <2>5, <2>6, EndedCallsFit, EndedShared, EndedOneAccount DEF IInv
<1>6. CASE Done(c, "load", "notfound")
  <2>1. Forget("error")
    BY <1>6 DEF LoadAnswered, Ends, Answered, Done
  <2> QED BY <1>1, <1>2, <1>6, <2>1, EndedForgets
<1>7. CASE ~Done(c, "load", "ok") /\ ~Done(c, "load", "notfound")
  <2>1. state' = LoadFailed /\ stored' = stored
    BY <1>7 DEF LoadAnswered, Ends, Answered, Done
  <2> QED BY <1>1, <1>2, <1>4, <2>1, EndedQuietly
<1> QED BY <1>5, <1>6, <1>7

LEMMA SaveAnsweredKeeps ==
    ASSUME IInv, NEW c \in Calls, SaveAnswered(c)
    PROVE  IInv'
<1>1. TypeOK /\ PageFits /\ CallFits(c) /\ UNCHANGED <<bootstrapPromise, cookie, cut>>
  BY DEF IInv, CallsFit, SaveAnswered
<1>2. /\ Ended(c) /\ UNCHANGED <<backend, crossed, calm>> /\ calls[c].op \in Saves /\ calls[c].at = "asks"
      /\ c \in Under
  BY <1>1, EndsEnded DEF SaveAnswered, Ended
<1>3. CASE calls[c].answer = "ok"
  <2>1. /\ state' = [profileId |-> calls[c].gave, profile |-> calls[c].body, status |-> "ready"]
        /\ stored' = calls[c].gave
    BY <1>3 DEF SaveAnswered, Ends, Answered, Keep
  <2>2. calls[c].gave \in Profiles /\ calls[c].gave # None /\ Done(c, calls[c].op, "ok")
        /\ (calls[c].op = "replace" => calls[c].gave = calls[c].id)
        /\ (calls[c].op = "create" => calls[c].id = None)
    BY <1>1, <1>2, <1>3 DEF CallFits, Done, Saves, Profiles, None
  <2>3. /\ state' \in [profileId : Profiles \cup {None}, profile : Bodies \cup {NoBody}, status : Statuses]
        /\ state'.profileId = stored' /\ state'.profile = calls[c].body /\ state'.status = "ready"
    BY <1>1, <2>1, <2>2 DEF TypeOK, CallRecord, Statuses
  <2>4. TypeOK'
    BY <1>1, <1>2, <2>1, <2>2, <2>3, EndedTypes DEF TypeOK
  <2>5. PageFits' /\ LoadIsAlone'
    BY <1>2, <2>1, <2>2, <2>3, EndedPage
  <2>6. calm => Changing = {c} /\ stored = calls[c].id /\ Saving \subseteq {c}
    BY <1>2 DEF IInv, SaveIsAlone, Saving, Changing, Changes
  <2>7. calm' => SaveIsAlone' /\ NothingLate'
    BY <1>2, <2>6, EndedSaves
  <2>8. ASSUME calm, ~crossed PROVE Agree'
    <3>1. owner[calls[c].gave] \in open => body[calls[c].gave] = calls[c].body
      BY <1>2, <2>2, <2>8 DEF IInv, SaveIsAlone
    <3>2. Agree /\ UNCHANGED <<open, owner, body, cookie>>
      BY <1>1, <1>2, <2>8 DEF IInv, backend, tables
    <3>3. \A x \in Calls : Done(x, "create", "ok") => x = c
      BY <2>6, <2>8 DEF Done, Changing, Under, Changes, Saves
    <3>4. cookie \in open => \A p \in Profiles : owner[p] = cookie /\ body[p] # NoBody => p = calls[c].gave
      <4> SUFFICES ASSUME cookie \in open, NEW p \in Profiles, owner[p] = cookie, body[p] # NoBody
                   PROVE  p = calls[c].gave
        OBVIOUS
      <4>1. p = stored \/ p = calls[c].gave
        BY <3>2, <3>3 DEF Agree
      <4>2. p # None
        BY DEF Profiles, None
      <4> QED BY <1>2, <2>2, <2>6, <2>8, <4>1, <4>2 DEF Saves
    <3> QED BY <1>2, <2>1, <2>3, <2>8, <3>1, <3>2, <3>4, EndedAnswers DEF Agree
  <2> QED BY <1>1, <1>2, <2>4, <2>5, <2>7, <2>8, EndedCallsFit, EndedShared, EndedOneAccount DEF IInv
<1>4. CASE calls[c].answer # "ok"
  <2>1. UNCHANGED <<stored, state>>
    BY <1>4 DEF SaveAnswered, Ends, Answered
  <2> QED BY <1>1, <1>2, <1>4, <2>1, EndedQuietly DEF Done
<1> QED BY <1>3, <1>4

LEMMA ClearAnsweredKeeps ==
    ASSUME IInv, NEW c \in Calls, ClearAnswered(c)
    PROVE  IInv'
<1>1. TypeOK /\ UNCHANGED <<bootstrapPromise, cookie, cut>>
  BY DEF IInv, ClearAnswered
<1>2. Ended(c) /\ UNCHANGED <<backend, crossed, calm>> /\ calls[c].op = "clear"
  BY <1>1, EndsEnded DEF ClearAnswered
<1>3. CASE Ends(c, {"clear"}, {"ok", "notfound"}) /\ Forget("empty")
  <2>1. Done(c, "clear", "ok") \/ Done(c, "clear", "notfound")
    BY <1>3 DEF Ends, Answered, Done
  <2> QED BY <1>1, <1>2, <1>3, <2>1, EndedForgets
<1>4. CASE Ends(c, {"clear"}, {"unauthorized", "fails"}) /\ UNCHANGED <<stored, state>>
  <2>1. \A op \in Changes : ~Done(c, op, "ok")
    BY <1>4 DEF Ends, Answered, Done
  <2> QED BY <1>1, <1>2, <1>4, <2>1, EndedQuietly
<1> QED BY <1>3, <1>4 DEF ClearAnswered

\* The answer to an erasure takes the cookie of an account that is open no more,
\* unless an erasure and a bootstrap crossed.
LEMMA EraseTakesNothing ==
    ASSUME IInv, ~crossed, NEW c \in Calls, Done(c, "erase", "ok")
    PROVE  cookie \notin open /\ Bootstrapping = {}
<1>1. TypeOK /\ OneAccount /\ CallFits(c)
  BY DEF IInv, CallsFit
<1>2. None \notin open /\ calls[c].cookie \notin open /\ calls[c].op = "erase"
  BY <1>1 DEF TypeOK, CallFits, Done, None
<1> QED BY <1>1, <1>2 DEF OneAccount

LEMMA EraseAnsweredKeeps ==
    ASSUME IInv, NEW c \in Calls, EraseAnswered(c)
    PROVE  IInv'
<1>1. TypeOK /\ BootstrapIsShared
  BY DEF IInv
<1>2. CASE /\ Ends(c, {"erase"}, {"unauthorized", "fails"})
           /\ UNCHANGED <<stored, state, bootstrapPromise, cookie, cut>>
  <2>1. Ended(c) /\ UNCHANGED <<backend, crossed, calm>> /\ \A op \in Changes : ~Done(c, op, "ok")
    BY <1>1, <1>2, EndsEnded DEF Ends, Answered, Done
  <2> QED BY <1>2, <2>1, EndedQuietly
<1>3. CASE /\ Ends(c, {"erase"}, {"ok"}) /\ Forget("empty") /\ cookie' = None
           /\ bootstrapPromise' = NoCall /\ cut' = Bootstrapping
  <2>1. /\ Ended(c) /\ UNCHANGED <<backend, crossed, calm>> /\ Done(c, "erase", "ok") /\ c \in Under
    BY <1>1, <1>3, EndsEnded DEF Ends, Answered, Done
  <2>2. Bootstrapping' = Bootstrapping /\ Bootstrapping \subseteq Calls
    BY <1>1, <2>1, OneCallEnded DEF Bootstrapping
  <2>3. TypeOK'
    <3>1. cookie' \in 0 .. opened
      BY <1>1, <1>3, BoundsAssumption DEF TypeOK, None
    <3> QED BY <1>1, <1>3, <2>1, <2>2, <3>1, ForgetTypes, EndedTypes DEF TypeOK
  <2>4. PageFits' /\ LoadIsAlone'
    BY <1>3, <2>1, ForgetTypes, EndedPage
  <2>5. BootstrapIsShared'
    <3>1. \A x \in Calls : calls'[x].at = "waits" => calls'[x] = calls[x]
      BY <2>1 DEF Ended, NoRequest
    <3> QED BY <1>1, <1>3, <2>2, <3>1 DEF BootstrapIsShared
  <2>6. ~crossed' => OneAccount'
    <3> SUFFICES ASSUME ~crossed PROVE OneAccount'
      BY <2>1
    <3>1. OneAccount /\ cookie \notin open /\ Bootstrapping = {} /\ UNCHANGED <<open, owner, late>>
      BY <2>1, EraseTakesNothing DEF IInv, backend, tables
    <3>2. \A x \in Calls : calls'[x].cookie \in open => x # c /\ calls'[x] = calls[x]
      BY <1>1, <2>1 DEF Ended, NoRequest, TypeOK, None
    <3> QED BY <1>3, <2>2, <3>1, <3>2 DEF OneAccount
  <2>7. c \in Changing /\ c \notin Saving
    BY <2>1 DEF Changing, Saving, Done, Changes, Saves
  <2>8. calm' => SaveIsAlone' /\ NothingLate'
    BY <1>3, <2>1, <2>7, NothingSaved, ForgetTypes, EndedSaves
  <2>9. ASSUME calm, ~crossed PROVE Agree'
    <3>1. UNCHANGED open /\ cookie' \notin open
      BY <1>1, <1>3, <2>1 DEF backend, tables, TypeOK, None
    <3> QED BY <1>3, <2>1, <2>9, <3>1, ForgetTypes, EndedAnswers DEF Agree
  <2> QED BY <2>1, <2>3, <2>4, <2>5, <2>6, <2>8, <2>9, EndedCallsFit DEF IInv
<1> QED BY <1>2, <1>3 DEF EraseAnswered

-----------------------------------------------------------------------------
(* A bootstrap goes on or ends *)

LEMMA OpenSessionKeeps ==
    ASSUME IInv, NEW c \in Calls, OpenSession(c)
    PROVE  IInv'
<1> DEFINE n == [calls[c] EXCEPT !.at = "opens", !.cookie = cookie, !.answer = "none"]
<1>1. /\ TypeOK /\ CallsFit /\ calls[c] \in CallRecord /\ calls[c].at = "checks" /\ calls[c].gave = None
      /\ calls[c].op # "erase" /\ (calls[c].op = "create" => calls[c].id = None)
  BY DEF IInv, TypeOK, CallsFit, CallFits, OpenSession, Answered
<1>2. /\ calls' = [calls EXCEPT ![c] = n]
      /\ UNCHANGED <<state, stored, bootstrapPromise, cookie, backend, history>>
  BY DEF OpenSession
<1>3. cookie \in Accounts \cup {None} /\ cookie \in 0 .. opened /\ None \in 0 .. opened
  BY <1>1, BoundsAssumption DEF TypeOK, Accounts, None
<1>4. /\ n \in CallRecord /\ n.op = calls[c].op /\ n.at = "opens" /\ n.on = calls[c].on
      /\ n.id = calls[c].id /\ n.cookie = cookie /\ n.gave = None /\ n.answer = "none"
  BY <1>1, <1>3 DEF CallRecord
<1> HIDE DEF n
<1>5. /\ calls' \in [Calls -> CallRecord] /\ calls'[c] = n
      /\ \A x \in Calls : x # c => calls'[x] = calls[x]
  BY <1>1, <1>2, <1>4 DEF TypeOK
<1>6. /\ Under' = Under /\ Changing' = Changing /\ Saving' = Saving /\ Bootstrapping' = Bootstrapping
      /\ c \in Under /\ c \in Bootstrapping
  BY <1>1, <1>4, <1>5 DEF Under, Changing, Saving, Bootstrapping
<1>7. \A x \in Calls : /\ calls'[x].op = calls[x].op /\ calls'[x].id = calls[x].id
                       /\ calls'[x].at = "waits" => calls'[x] = calls[x]
  BY <1>4, <1>5
<1>8. \A x \in Calls : \A op, answer : /\ Done(x, op, answer)' <=> Done(x, op, answer)
                                       /\ Done(x, op, answer) => calls'[x] = calls[x]
  BY <1>1, <1>4, <1>5 DEF Done
<1>9. TypeOK'
  BY <1>1, <1>2, <1>5, <1>6, <1>7 DEF TypeOK, backend, tables, history
<1>10. CallsFit'
  <2>1. UNCHANGED <<open, opened, owner, body, late, overtaken>>
    BY <1>2 DEF backend, tables, history
  <2>2. CallFits(c)'
    <3>1. CallFits(c)
      BY <1>1 DEF CallsFit
    <3> QED BY <1>1, <1>3, <1>4, <1>5, <2>1, <3>1 DEF CallFits, Done
  <2>3. ASSUME NEW x \in Calls, x # c PROVE CallFits(x)'
    <3>1. CallFits(x) /\ calls'[x] = calls[x]
      BY <1>1, <1>5, <2>3 DEF CallsFit
    <3> QED BY <2>1, <3>1 DEF CallFits, Done
  <2> QED BY <2>2, <2>3 DEF CallsFit
<1>11. PageFits' /\ LoadIsAlone' /\ BootstrapIsShared'
  BY <1>2, <1>6, <1>7 DEF IInv, PageFits, LoadIsAlone, BootstrapIsShared, Under, history
<1>12. ~crossed' => OneAccount'
  BY <1>2, <1>4, <1>5, <1>6, <1>7 DEF IInv, OneAccount, Bootstrapping, backend, tables, history
<1>13. calm' => SaveIsAlone' /\ NothingLate'
  <2>1. calm' => SaveIsAlone'
    BY <1>2, <1>6, <1>7, <1>8 DEF IInv, SaveIsAlone, Saving, Under, backend, tables, history
  <2>2. calm' => NothingLate'
    BY <1>2, <1>8, NothingLateStays DEF history
  <2> QED BY <2>1, <2>2
<1>14. calm' /\ ~crossed' => Agree'
  BY <1>2, <1>8 DEF IInv, Agree, Live, ChangeDone, backend, tables, history
<1> QED BY <1>9, <1>10, <1>11, <1>12, <1>13, <1>14 DEF IInv

\* The calls that go on, or end, with the bootstrap of c
LEMMA SharingIs ==
    ASSUME TypeOK, NEW c \in Calls, calls[c].at \in {"checks", "opens"}
    PROVE  /\ c \in Sharing(c) /\ Sharing(c) \subseteq Under
           /\ \A x \in Sharing(c) : /\ \A op, answer : ~Done(x, op, answer)
                                    /\ x \in Bootstrapping => x = c
           /\ \A x \in Calls \ Sharing(c) : calls[x].at = "waits" => calls[x].on # c
BY DEF Sharing, Under, Done, Bootstrapping

\* The answer to a bootstrap never replaces the cookie of an open account,
\* unless an erasure and a bootstrap crossed.
LEMMA SessionTakesNothing ==
    ASSUME IInv, ~crossed, NEW c \in Calls, SessionReady(c), cookie \in open
    PROVE  cookie' = cookie
<1>1. OneAccount /\ CallFits(c) /\ calls[c].at \in {"checks", "opens"} /\ c \in Bootstrapping
  BY DEF IInv, CallsFit, SessionReady, Answered, Bootstrapping
<1>2. calls[c].gave = None
  BY <1>1 DEF OneAccount, CallFits
<1> QED BY <1>2 DEF SessionReady

LEMMA SessionReadyKeeps ==
    ASSUME IInv, NEW c \in Calls, SessionReady(c)
    PROVE  IInv'
<1> DEFINE S == Sharing(c)
           n(x) == [calls[x] EXCEPT !.at = "asks", !.on = NoCall, !.cookie = cookie',
                                    !.answer = "none", !.gave = None]
<1>1. TypeOK /\ CallsFit /\ BootstrapIsShared /\ calls[c].at \in {"checks", "opens"} /\ CallFits(c)
  BY DEF IInv, CallsFit, SessionReady, Answered
<1>2. /\ calls' = [x \in Calls |-> IF x \notin S THEN calls[x] ELSE n(x)]
      /\ bootstrapPromise' = Settled(c) /\ cut' = cut \ {c}
      /\ cookie' = IF calls[c].gave = None THEN cookie ELSE calls[c].gave
      /\ UNCHANGED <<state, stored, backend, crossed, calm, overtaken>>
  BY DEF SessionReady
<1>3. /\ c \in S /\ S \subseteq Under
      /\ \A x \in S : (\A op, answer : ~Done(x, op, answer)) /\ (x \in Bootstrapping => x = c)
      /\ \A x \in Calls \ S : calls[x].at = "waits" => calls[x].on # c
  BY <1>1, SharingIs
<1>4. cookie' \in 0 .. opened /\ cookie' \in Accounts \cup {None}
  <2>1. cookie \in 0 .. opened /\ (calls[c].gave # None => calls[c].gave \in 0 .. opened)
    BY <1>1 DEF TypeOK, CallFits
  <2>2. cookie' \in 0 .. opened
    BY <1>2, <2>1
  <2> QED BY <1>1, <2>2, BoundsAssumption DEF TypeOK, Accounts, None
<1> HIDE DEF S
<1>5. \A x \in Calls : calls[x] \in CallRecord
  BY <1>1 DEF TypeOK
<1>6. ASSUME NEW x \in Calls
      PROVE  /\ n(x) \in CallRecord /\ n(x).op = calls[x].op /\ n(x).id = calls[x].id
             /\ n(x).body = calls[x].body /\ n(x).at = "asks" /\ n(x).cookie = cookie'
             /\ n(x).answer = "none" /\ n(x).gave = None
  BY <1>4, <1>5 DEF CallRecord, None
<1> HIDE DEF n
<1>7. /\ calls' \in [Calls -> CallRecord]
      /\ \A x \in Calls \ S : calls'[x] = calls[x]
      /\ \A x \in Calls : calls'[x].op = calls[x].op /\ calls'[x].id = calls[x].id
      /\ \A x \in S : /\ calls'[x].at = "asks" /\ calls'[x].cookie = cookie'
                      /\ calls'[x].answer = "none" /\ calls'[x].gave = None
  BY <1>2, <1>3, <1>5, <1>6 DEF Under
<1>8. Under' = Under
  BY <1>3, <1>7 DEF Under
<1>9. Changing' = Changing /\ Saving' = Saving
  BY <1>7, <1>8 DEF Changing, Saving, Under
<1>10. Bootstrapping' = Bootstrapping \ {c} /\ c \in Bootstrapping
  BY <1>1, <1>3, <1>7 DEF Bootstrapping
<1>11. \A x \in Calls : \A op, answer : /\ Done(x, op, answer)' => answer = "none" \/ Done(x, op, answer)
                                        /\ Done(x, op, answer) => Done(x, op, answer)' /\ calls'[x] = calls[x]
  BY <1>3, <1>7 DEF Done
<1>12. TypeOK'
  <2>1. bootstrapPromise' \in Calls \cup {NoCall} /\ cut' \subseteq Calls
    BY <1>1, <1>2 DEF Settled, TypeOK
  <2>2. \A x \in Under' : calls'[x].op \in {"load", "replace", "clear", "metrics"} => calls'[x].id # None
    BY <1>1, <1>7, <1>8 DEF TypeOK, Under
  <2> QED BY <1>1, <1>2, <1>4, <1>7, <2>1, <2>2 DEF TypeOK, backend, tables
<1>13. CallsFit'
  <2>1. ASSUME NEW x \in Calls \ S PROVE CallFits(x)'
    BY <1>1, <1>2, <1>7, <2>1 DEF CallsFit, CallFits, Done, backend, tables
  <2>2. ASSUME NEW x \in S PROVE CallFits(x)'
    <3>1. x \in Calls /\ CallFits(x)
      BY <1>1, <1>3 DEF CallsFit, Under
    <3> QED BY <1>2, <1>4, <1>7, <2>2, <3>1 DEF CallFits, Done, backend, tables
  <2> QED BY <2>1, <2>2 DEF CallsFit
<1>14. PageFits' /\ LoadIsAlone'
  BY <1>2, <1>7, <1>8 DEF IInv, PageFits, LoadIsAlone, Under
<1>15. BootstrapIsShared'
  <2>1. \A x \in Calls : calls'[x].at = "waits" => calls'[x].on \in Bootstrapping'
    BY <1>1, <1>3, <1>7, <1>10 DEF BootstrapIsShared
  <2>2. Bootstrapping' \subseteq {bootstrapPromise'} \cup cut'
    BY <1>1, <1>2, <1>10 DEF BootstrapIsShared, Settled
  <2>3. bootstrapPromise' # NoCall => bootstrapPromise' \in Bootstrapping'
    BY <1>1, <1>2, <1>10 DEF BootstrapIsShared, Settled
  <2> QED BY <2>1, <2>2, <2>3 DEF BootstrapIsShared
<1>16. ~crossed' => OneAccount'
  <2> SUFFICES ASSUME ~crossed PROVE OneAccount'
    BY <1>2
  <2>1. OneAccount /\ (cookie \in open => cookie' = cookie) /\ UNCHANGED <<open, owner, late>>
    BY <1>2, SessionTakesNothing DEF IInv, backend, tables
  <2>2. Bootstrapping' = {} /\ cut' = {} /\ \A x \in Calls : calls'[x].op # "erase"
    BY <1>1, <1>2, <1>7, <1>10, <2>1 DEF OneAccount, BootstrapIsShared
  <2>3. \A x \in Calls : /\ calls'[x].cookie \in open' => calls'[x].cookie = cookie'
                         /\ late'[x].cookie \in open' => late'[x].cookie = cookie'
    BY <1>7, <2>1 DEF OneAccount
  <2>4. \A p \in Profiles : owner'[p] \in open' => owner'[p] = cookie'
    BY <2>1 DEF OneAccount
  <2> QED BY <2>2, <2>3, <2>4 DEF OneAccount
<1>17. calm' => SaveIsAlone' /\ NothingLate'
  <2> SUFFICES ASSUME calm PROVE SaveIsAlone' /\ NothingLate'
    BY <1>2
  <2>1. SaveIsAlone /\ UNCHANGED <<stored, open, owner, body>>
    BY <1>2 DEF IInv, backend, tables
  <2>2. \A x \in Calls : \A op \in Saves \cup {"load"} : Done(x, op, "ok")' => Done(x, op, "ok") /\ calls'[x] = calls[x]
    BY <1>11
  <2>3. \A x \in Saving' : Changing' = {x} /\ stored' = calls'[x].id
    BY <1>7, <1>9, <2>1 DEF SaveIsAlone, Saving, Under
  <2>4. \A x \in Under' : calls'[x].op = "clear" => stored' \in {calls'[x].id, None}
    BY <1>7, <1>8, <2>1 DEF SaveIsAlone, Under
  <2>5. SaveIsAlone'
    BY <2>1, <2>2, <2>3, <2>4 DEF SaveIsAlone
  <2>6. NothingLate'
    BY <1>2, <2>2, NothingLateStays
  <2> QED BY <2>5, <2>6
<1>18. calm' /\ ~crossed' => Agree'
  <2> SUFFICES ASSUME calm, ~crossed PROVE Agree'
    BY <1>2
  <2>1. /\ Agree /\ OneAccount /\ UNCHANGED <<open, owner, body>>
        /\ cookie \in open => cookie' = cookie
    BY <1>2, SessionTakesNothing DEF IInv, backend, tables
  <2>2. \A x \in Calls : \A op \in Changes \cup {"load"} : \A a \in {"ok", "notfound"} :
           /\ Done(x, op, a)' <=> Done(x, op, a)
           /\ Done(x, op, a) => calls'[x] = calls[x]
    BY <1>11
  <2>3. ChangeDone' = ChangeDone
    BY <2>2 DEF ChangeDone
  <2>4. \A x \in Calls : Done(x, "clear", "ok")' \/ Done(x, "clear", "notfound")' \/ Done(x, "load", "notfound")'
          => ~Live(calls[x].id)'
    BY <2>1, <2>2 DEF Agree, Live, Changes
  <2>5. cookie' \in open' => \A p \in Profiles : owner'[p] = cookie' /\ body'[p] # NoBody =>
          p = stored' \/ \E x \in Calls : Done(x, "create", "ok")' /\ calls'[x].gave = p
    <3> SUFFICES ASSUME cookie' \in open, NEW p \in Profiles, owner[p] = cookie', body[p] # NoBody
                 PROVE  p = stored \/ \E x \in Calls : Done(x, "create", "ok") /\ calls[x].gave = p
      BY <1>2, <2>1, <2>2 DEF Changes, Saves
    <3>1. owner[p] = cookie /\ cookie \in open
      BY <2>1 DEF OneAccount
    <3> QED BY <2>1, <3>1 DEF Agree
  <2> QED BY <1>2, <2>1, <2>3, <2>4, <2>5 DEF Agree
<1> QED BY <1>12, <1>13, <1>14, <1>15, <1>16, <1>17, <1>18 DEF IInv

LEMMA SessionFailsKeeps ==
    ASSUME IInv, NEW c \in Calls, SessionFails(c)
    PROVE  IInv'
<1> DEFINE S == Sharing(c)
<1>1. TypeOK /\ CallsFit /\ BootstrapIsShared /\ PageFits /\ LoadIsAlone /\ calls[c].at \in {"checks", "opens"}
  BY DEF IInv, SessionFails, Answered
<1>2. /\ calls' = [x \in Calls |-> IF x \in S THEN NoRequest ELSE calls[x]]
      /\ bootstrapPromise' = Settled(c) /\ cut' = cut \ {c}
      /\ state' = state \/ state' = LoadFailed
      /\ UNCHANGED <<stored, cookie, backend, crossed, calm, overtaken>>
  BY DEF SessionFails
<1>3. /\ c \in S /\ S \subseteq Under /\ c \in Under
      /\ \A x \in S : (\A op, answer : ~Done(x, op, answer)) /\ (x \in Bootstrapping => x = c)
      /\ \A x \in Calls \ S : calls[x].at = "waits" => calls[x].on # c
  BY <1>1, SharingIs
<1> HIDE DEF S
<1>4. /\ calls' \in [Calls -> CallRecord]
      /\ \A x \in Calls \ S : calls'[x] = calls[x]
      /\ \A x \in S : calls'[x] = NoRequest
  BY <1>1, <1>2, <1>3, NoRequestIsACall DEF TypeOK, Under
<1>5. /\ NoRequest.op = "none" /\ NoRequest.at = "idle" /\ NoRequest.cookie = None
  BY DEF NoRequest
<1>6. Under' = Under \ S
  BY <1>3, <1>4, <1>5 DEF Under
<1>7. Changing' = Changing \ S /\ Saving' = Saving \ S
  BY <1>3, <1>4, <1>6 DEF Changing, Saving, Under
<1>8. Bootstrapping' = Bootstrapping \ {c} /\ c \in Bootstrapping
  BY <1>1, <1>3, <1>4, <1>5 DEF Bootstrapping
<1>9. \A x \in Calls : \A op, answer : /\ Done(x, op, answer)' => Done(x, op, answer)
                                       /\ Done(x, op, answer) => Done(x, op, answer)' /\ calls'[x] = calls[x]
  BY <1>3, <1>4, <1>5 DEF Done
<1>10. /\ state' \in [profileId : Profiles \cup {None}, profile : Bodies \cup {NoBody}, status : Statuses]
       /\ state'.profileId = state.profileId /\ state'.profile = state.profile
       /\ state' # state => state'.status = "error"
  BY <1>1, <1>2 DEF TypeOK, LoadFailed, Statuses
<1>11. TypeOK'
  <2>1. bootstrapPromise' \in Calls \cup {NoCall} /\ cut' \subseteq Calls
    BY <1>1, <1>2 DEF Settled, TypeOK
  <2>2. \A x \in Under' : calls'[x].op \in {"load", "replace", "clear", "metrics"} => calls'[x].id # None
    BY <1>1, <1>4, <1>6 DEF TypeOK, Under
  <2> QED BY <1>1, <1>2, <1>4, <1>10, <2>1, <2>2 DEF TypeOK, backend, tables
<1>12. CallsFit'
  <2>1. ASSUME NEW x \in Calls \ S PROVE CallFits(x)'
    BY <1>1, <1>2, <1>4, <2>1 DEF CallsFit, CallFits, Done, backend, tables
  <2>2. 0 \in 0 .. opened
    BY <1>1, BoundsAssumption DEF TypeOK
  <2>3. ASSUME NEW x \in S PROVE CallFits(x)'
    <3>1. x \in Calls /\ calls'[x] = NoRequest /\ UNCHANGED <<opened, late>>
      BY <1>2, <1>3, <1>4, <2>3 DEF Under, backend, tables
    <3>2. late[x].cookie \in 0 .. opened
      BY <1>1, <3>1 DEF CallsFit, CallFits
    <3> QED BY <2>2, <3>1, <3>2 DEF CallFits, Done, NoRequest, None
  <2> QED BY <2>1, <2>3 DEF CallsFit
<1>13. PageFits'
  BY <1>1, <1>2, <1>3, <1>10 DEF PageFits
<1>14. LoadIsAlone'
  <2>1. \A x \in Under' : x \in Under /\ x # c /\ calls'[x] = calls[x]
    BY <1>3, <1>4, <1>6 DEF Under
  <2> QED BY <1>1, <1>3, <2>1 DEF LoadIsAlone
<1>15. BootstrapIsShared'
  <2>1. \A x \in Calls : calls'[x].at = "waits" => calls'[x].on \in Bootstrapping'
    BY <1>1, <1>3, <1>4, <1>5, <1>8 DEF BootstrapIsShared
  <2>2. Bootstrapping' \subseteq {bootstrapPromise'} \cup cut'
    BY <1>1, <1>2, <1>8 DEF BootstrapIsShared, Settled
  <2>3. bootstrapPromise' # NoCall => bootstrapPromise' \in Bootstrapping'
    BY <1>1, <1>2, <1>8 DEF BootstrapIsShared, Settled
  <2> QED BY <2>1, <2>2, <2>3 DEF BootstrapIsShared
<1>16. ~crossed' => OneAccount'
  <2> SUFFICES ASSUME ~crossed PROVE OneAccount'
    BY <1>2
  <2>1. OneAccount /\ UNCHANGED <<open, owner, late>> /\ None \notin open
    BY <1>1, <1>2 DEF IInv, backend, tables, TypeOK, None
  <2>2. Bootstrapping' = {} /\ cut' = {} /\ \A x \in Calls : calls'[x].op # "erase"
    BY <1>1, <1>2, <1>3, <1>4, <1>5, <1>8, <2>1 DEF OneAccount, BootstrapIsShared
  <2>3. \A x \in Calls : calls'[x].cookie \in open' => calls'[x].cookie = cookie'
    BY <1>2, <1>4, <1>5, <2>1 DEF OneAccount
  <2> QED BY <1>2, <2>1, <2>2, <2>3 DEF OneAccount
<1>17. calm' => SaveIsAlone' /\ NothingLate'
  <2> SUFFICES ASSUME calm PROVE SaveIsAlone' /\ NothingLate'
    BY <1>2
  <2>1. SaveIsAlone /\ UNCHANGED <<stored, open, owner, body>>
    BY <1>2 DEF IInv, backend, tables
  <2>2. \A x \in Under' : x \in Under /\ x \notin S /\ calls'[x] = calls[x]
    BY <1>4, <1>6 DEF Under
  <2>3. \A x \in Saving' : Changing' = {x} /\ stored' = calls'[x].id
    <3> SUFFICES ASSUME NEW x \in Saving' PROVE Changing' = {x} /\ stored' = calls'[x].id
      OBVIOUS
    <3>1. x \in Saving /\ x \notin S /\ calls'[x] = calls[x]
      BY <1>4, <1>7 DEF Saving, Under
    <3>2. Changing = {x} /\ stored = calls[x].id
      BY <2>1, <3>1 DEF SaveIsAlone
    <3> QED BY <1>7, <2>1, <3>1, <3>2
  <2>4. SaveIsAlone'
    BY <1>9, <2>1, <2>2, <2>3 DEF SaveIsAlone
  <2>5. NothingLate'
    BY <1>2, <1>9, NothingLateStays
  <2> QED BY <2>4, <2>5
<1>18. calm' /\ ~crossed' => Agree'
  <2> SUFFICES ASSUME calm, ~crossed PROVE Agree'
    BY <1>2
  <2>1. Agree /\ UNCHANGED <<stored, cookie, open, owner, body>>
    BY <1>2 DEF IInv, backend, tables
  <2>2. ChangeDone' = ChangeDone
    BY <1>9 DEF ChangeDone
  <2> QED BY <1>9, <1>10, <2>1, <2>2 DEF Agree, Live
<1> QED BY <1>11, <1>12, <1>13, <1>14, <1>15, <1>16, <1>17, <1>18 DEF IInv

-----------------------------------------------------------------------------
(* The page is opened anew, the tables change beside it *)

LEMMA ReloadKeeps ==
    ASSUME IInv, Reload
    PROVE  IInv'
<1>1. TypeOK /\ CallsFit
  BY DEF IInv
<1>2. /\ calls' = [x \in Calls |-> NoRequest] /\ bootstrapPromise' = NoCall
      /\ state' = Reconciled /\ cut' = {} /\ overtaken' = {}
      /\ UNCHANGED <<stored, cookie, backend, crossed>>
      /\ calm' = (calm /\ ~\E c \in Changing : calls[c].at = "asks")
  BY DEF Reload
<1>3. /\ calls' \in [Calls -> CallRecord]
      /\ \A x \in Calls : /\ calls'[x].op = "none" /\ calls'[x].at = "idle" /\ calls'[x].cookie = None
  BY <1>2, NoRequestIsACall DEF NoRequest
<1>4. Under' = {} /\ Changing' = {} /\ Saving' = {} /\ Bootstrapping' = {}
  BY <1>3 DEF Under, Changing, Saving, Bootstrapping
<1>5. \A x \in Calls : \A op, answer : ~Done(x, op, answer)'
  BY <1>3 DEF Done
<1>6. /\ state'.profileId = stored /\ state'.profile = NoBody
      /\ state'.status = IF stored = None THEN "empty" ELSE "idle"
      /\ state' \in [profileId : Profiles \cup {None}, profile : Bodies \cup {NoBody}, status : Statuses]
  BY <1>1, <1>2 DEF Reconciled, Empty, TypeOK, Statuses
<1>7. TypeOK'
  BY <1>1, <1>2, <1>3, <1>4, <1>6 DEF TypeOK, backend, tables
<1>8. CallsFit'
  <2>1. 0 \in 0 .. opened
    BY <1>1, BoundsAssumption DEF TypeOK
  <2>2. \A x \in Calls : late'[x].cookie \in 0 .. opened'
    BY <1>1, <1>2 DEF CallsFit, CallFits, backend, tables
  <2> QED BY <1>2, <1>3, <1>5, <2>1, <2>2 DEF CallsFit, CallFits, backend, tables, None
<1>9. PageFits' /\ LoadIsAlone' /\ BootstrapIsShared'
  BY <1>2, <1>3, <1>4, <1>6 DEF PageFits, LoadIsAlone, BootstrapIsShared
<1>10. ~crossed' => OneAccount'
  <2>1. None \notin open
    BY <1>1 DEF TypeOK, None
  <2> QED BY <1>2, <1>3, <1>4, <2>1 DEF IInv, OneAccount, backend, tables
<1>11. calm' => SaveIsAlone' /\ NothingLate'
  <2>1. calm' => calm
    BY <1>2
  <2> QED BY <1>4, <1>5, <2>1, NothingLateStays, <1>2 DEF SaveIsAlone
<1>12. calm' /\ ~crossed' => Agree'
  <2> SUFFICES ASSUME calm, ~crossed, ~\E c \in Changing : calls[c].at = "asks" PROVE Agree'
    BY <1>2
  <2>1. Agree /\ UNCHANGED <<stored, cookie, open, owner, body>>
    BY <1>2 DEF IInv, backend, tables
  <2>2. \A x \in Calls : ~Done(x, "create", "ok")
    BY DEF Done, Changing, Under, Changes, Saves
  <2> QED BY <1>5, <1>6, <2>1, <2>2 DEF Agree
<1> QED BY <1>7, <1>8, <1>9, <1>10, <1>11, <1>12 DEF IInv

\* Calls leave the tables alone: accounts are opened or closed, rows come or go.
\* While calm holds, the rows of open accounts stay as they are.
TablesTurn ==
    /\ UNCHANGED <<page, cut, crossed, calm>>
    /\ opened' \in opened .. MaxAccounts /\ open' \subseteq 1 .. opened'
    /\ owner' \in [Profiles -> 0 .. opened'] /\ body' \in [Profiles -> Bodies \cup {NoBody}]
    /\ created' \in 0 .. MaxProfiles
    /\ \A u \in 0 .. opened : u \in open' => u \in open
    /\ late' \in [Calls -> CallRecord] /\ \A x \in Calls : late'[x] \in {late[x], NoRequest}
    /\ Overtakes
    /\ ~crossed => \A p \in Profiles : owner'[p] \in open' => owner'[p] = cookie
    /\ calm => \A p \in Profiles :
          /\ owner'[p] = owner[p]
          /\ owner[p] \in open => body'[p] = body[p]
          /\ body'[p] # NoBody => body'[p] = body[p]

LEMMA TablesTurnKeeps ==
    ASSUME IInv, TablesTurn
    PROVE  IInv'
<1>1. /\ TypeOK /\ CallsFit /\ UNCHANGED <<state, stored, bootstrapPromise, calls, cookie, cut, crossed, calm>>
  BY DEF IInv, TablesTurn, page
<1>2. opened \in Nat /\ opened' \in Nat /\ opened <= opened' /\ MaxAccounts \in Nat
  BY <1>1, BoundsAssumption DEF TypeOK, TablesTurn
<1>3. \A u \in 0 .. opened : u \in 0 .. opened' /\ (u \in open' => u \in open)
  BY <1>2 DEF TablesTurn
<1>4. \A p \in Profiles : owner[p] \in 0 .. opened
  BY <1>1 DEF TypeOK
<1>5. /\ Under' = Under /\ Changing' = Changing /\ Saving' = Saving /\ Bootstrapping' = Bootstrapping
      /\ ChangeDone' = ChangeDone /\ \A x \in Calls : \A op, answer : Done(x, op, answer)' <=> Done(x, op, answer)
  BY <1>1 DEF Under, Changing, Saving, Bootstrapping, ChangeDone, Done
<1>6. /\ overtaken \subseteq overtaken' /\ overtaken' \subseteq Calls
      /\ \A x \in Calls : Done(x, "load", "ok") /\ x \notin overtaken' => body'[calls[x].id] = body[calls[x].id]
  BY <1>1 DEF TablesTurn, Overtakes, Done, TypeOK
<1>7. TypeOK'
  <2>1. cookie' \in 0 .. opened' /\ opened' \in 0 .. MaxAccounts
    BY <1>1, <1>2, <1>3 DEF TypeOK, TablesTurn
  <2> QED BY <1>1, <1>5, <1>6, <2>1 DEF TypeOK, TablesTurn
<1>8. \A x \in Calls : late'[x].cookie \in {late[x].cookie, None} /\ late'[x].at \in {late[x].at, "idle"}
  BY DEF TablesTurn, NoRequest
<1>9. CallsFit'
  <2> SUFFICES ASSUME NEW x \in Calls PROVE CallFits(x)'
    BY DEF CallsFit
  <2>1. CallFits(x) /\ calls'[x] = calls[x]
    BY <1>1 DEF CallsFit
  <2>2. late'[x].cookie \in 0 .. opened'
    BY <1>2, <1>3, <1>8, <2>1 DEF CallFits, None
  <2>3. x \notin overtaken' => x \notin overtaken
    BY <1>6
  <2> QED BY <1>3, <1>6, <2>1, <2>2, <2>3 DEF CallFits, Done
<1>10. PageFits' /\ LoadIsAlone' /\ BootstrapIsShared'
  BY <1>1, <1>5 DEF IInv, PageFits, LoadIsAlone, BootstrapIsShared
<1>11. ~crossed' => OneAccount'
  <2> SUFFICES ASSUME ~crossed PROVE OneAccount'
    BY <1>1
  <2>1. OneAccount /\ None \notin open'
    BY <1>2 DEF IInv, TablesTurn, None
  <2>2. \A x \in Calls : /\ calls[x].cookie \in open' => calls[x].cookie = cookie
                         /\ late'[x].cookie \in open' => late'[x].cookie = cookie
    BY <1>1, <1>3, <1>8, <2>1 DEF OneAccount, CallsFit, CallFits
  <2>3. \A p \in Profiles : owner'[p] \in open' => owner'[p] = cookie
    BY DEF TablesTurn
  <2> QED BY <1>1, <1>5, <2>1, <2>2, <2>3 DEF OneAccount
<1>12. ASSUME calm, NEW p \in Profiles
       PROVE  /\ owner'[p] = owner[p] /\ (owner'[p] \in open' => owner[p] \in open /\ body'[p] = body[p])
              /\ body'[p] # NoBody => body[p] # NoBody
  BY <1>3, <1>4, <1>12 DEF TablesTurn
<1>13. ASSUME NEW x \in Calls, calls[x].at = "asks", calls[x].op \in {"load", "clear"}
       PROVE  calls[x].id \in Profiles
  BY <1>1, <1>13 DEF TypeOK, Under, CallRecord
<1>14. calm' => SaveIsAlone' /\ NothingLate'
  <2> SUFFICES ASSUME calm PROVE SaveIsAlone' /\ NothingLate'
    BY <1>1
  <2>1. SaveIsAlone /\ NothingLate
    BY DEF IInv
  <2>2. \A x \in Calls : \A op \in Saves : Done(x, op, "ok") => calls[x].gave \in Profiles
    BY <1>1 DEF CallsFit, CallFits, Done, Saves
  <2>3. SaveIsAlone'
    BY <1>1, <1>5, <1>12, <2>1, <2>2 DEF SaveIsAlone
  <2>4. NothingLate'
    BY <1>1, <1>5, <1>8, <1>12, <1>13, <2>1 DEF NothingLate, Done
  <2> QED BY <2>3, <2>4
<1>15. calm' /\ ~crossed' => Agree'
  <2> SUFFICES ASSUME calm, ~crossed PROVE Agree'
    BY <1>1
  <2>1. Agree /\ PageFits
    BY DEF IInv
  <2>2. \A x \in Calls :
          Done(x, "clear", "ok")' \/ Done(x, "clear", "notfound")' \/ Done(x, "load", "notfound")'
          => ~Live(calls[x].id)'
    BY <1>1, <1>5, <1>12, <1>13, <2>1 DEF Agree, Live, Done
  <2>3. state'.profile # NoBody /\ owner'[stored'] \in open' => body'[stored'] = state'.profile \/ ChangeDone'
    <3>1. state.profile # NoBody => stored \in Profiles
      BY <1>1, <2>1 DEF PageFits, TypeOK
    <3> QED BY <1>1, <1>5, <1>12, <2>1, <3>1 DEF Agree
  <2>4. cookie' \in open' => cookie \in open
    BY <1>1, <1>3 DEF TypeOK
  <2>5. cookie' \in open' => \A p \in Profiles : owner'[p] = cookie' /\ body'[p] # NoBody =>
           p = stored' \/ \E x \in Calls : Done(x, "create", "ok")' /\ calls'[x].gave = p
    BY <1>1, <1>5, <1>12, <2>1, <2>4 DEF Agree
  <2> QED BY <1>1, <2>2, <2>3, <2>5 DEF Agree
<1> QED BY <1>7, <1>9, <1>10, <1>11, <1>14, <1>15 DEF IInv

LEMMA ExpireKeeps ==
    ASSUME IInv, NEW u \in Accounts, Expire(u)
    PROVE  IInv'
<1>1. TypeOK /\ LoadIsAlone /\ opened \in Nat /\ MaxAccounts \in Nat
  BY BoundsAssumption DEF IInv, TypeOK
<1>2. UNCHANGED <<page, opened, owner, body, created, late, cut, crossed, calm, overtaken>> /\ open' = open \ {u}
  BY DEF Expire, history
<1>3. Overtakes
  BY <1>1, <1>2 DEF Overtakes
<1>4. ~crossed => \A p \in Profiles : owner'[p] \in open' => owner'[p] = cookie
  BY <1>2 DEF IInv, OneAccount
<1>5. opened' \in opened .. MaxAccounts
  BY <1>1, <1>2 DEF TypeOK
<1>6. open' \subseteq 1 .. opened'
  BY <1>1, <1>2 DEF TypeOK
<1>7. /\ owner' \in [Profiles -> 0 .. opened'] /\ late' \in [Calls -> CallRecord]
      /\ body' \in [Profiles -> Bodies \cup {NoBody}] /\ created' \in 0 .. MaxProfiles
  BY <1>1, <1>2 DEF TypeOK
<1>8. TablesTurn
  BY <1>2, <1>3, <1>4, <1>5, <1>6, <1>7 DEF TablesTurn
<1> QED BY <1>8, TablesTurnKeeps

\* The retention process takes the rows of accounts that are open no more.
LEMMA SweepKeeps ==
    ASSUME IInv, Sweep
    PROVE  IInv'
<1>1. TypeOK /\ opened \in Nat /\ MaxAccounts \in Nat
  BY BoundsAssumption DEF IInv, TypeOK
<1>2. /\ UNCHANGED <<page, open, opened, owner, created, late, cut, crossed, calm>> /\ Overtakes
      /\ body' = [p \in Profiles |-> IF owner[p] \in open THEN body[p] ELSE NoBody]
  BY DEF Sweep
<1>3. body' \in [Profiles -> Bodies \cup {NoBody}]
  BY <1>1, <1>2 DEF TypeOK
<1>4. TablesTurn
  BY <1>1, <1>2, <1>3 DEF TablesTurn, TypeOK, IInv, OneAccount
<1> QED BY <1>4, TablesTurnKeeps

\* A request that was given up is served: while calm holds it opens an account
\* at most, and while no erasure crosses a bootstrap it is of the cookie's.
LEMMA ServeLateKeeps ==
    ASSUME IInv, NEW c \in Calls, ServeLate(c)
    PROVE  IInv'
<1> DEFINE request == late[c]
<1>1. /\ TypeOK /\ CallsFit /\ request \in CallRecord /\ request.cookie \in 0 .. opened
      /\ opened \in Nat /\ MaxAccounts \in Nat /\ created \in 0 .. MaxProfiles
  BY BoundsAssumption DEF IInv, TypeOK, CallsFit, CallFits
<1>2. /\ late' = [late EXCEPT ![c] = NoRequest] /\ Overtakes /\ UNCHANGED <<page, cut, crossed, calm>>
  BY DEF ServeLate
<1>3. late' \in [Calls -> CallRecord] /\ \A x \in Calls : late'[x] \in {late[x], NoRequest}
  BY <1>1, <1>2, NoRequestIsACall DEF TypeOK
<1>4. /\ calm => request.at # "asks"
      /\ ~crossed /\ request.cookie \in open => request.cookie = cookie
      /\ ~crossed => \A p \in Profiles : owner[p] \in open => owner[p] = cookie
      /\ owner \in [Profiles -> 0 .. opened] /\ body \in [Profiles -> Bodies \cup {NoBody}]
      /\ open \subseteq 1 .. opened /\ opened \in 0 .. MaxAccounts /\ calm \in BOOLEAN
  BY <1>1 DEF IInv, NothingLate, OneAccount, TypeOK
<1> HIDE DEF request
<1>5. CASE UNCHANGED tables
  BY <1>1, <1>2, <1>3, <1>4, <1>5, TablesTurnKeeps DEF TablesTurn, tables
<1>6. CASE request.at = "opens" /\ ~Known(request) /\ Opens
  <2>1. /\ opened < MaxAccounts /\ opened' = opened + 1 /\ open' = open \cup {opened + 1}
        /\ UNCHANGED <<owner, body, created>>
    BY <1>6 DEF Opens
  <2>2. opened' \in opened .. MaxAccounts /\ open' \subseteq 1 .. opened' /\ owner' \in [Profiles -> 0 .. opened']
    BY <1>1, <1>4, <2>1
  <2>3. \A u \in 0 .. opened : u \in open' => u \in open
    BY <1>1, <2>1
  <2>4. ~crossed => \A p \in Profiles : owner'[p] \in open' => owner'[p] = cookie
    BY <1>4, <2>1, <2>3
  <2>5. TablesTurn
    BY <1>1, <1>2, <1>3, <1>4, <2>1, <2>2, <2>3, <2>4 DEF TablesTurn
  <2> QED BY <2>5, TablesTurnKeeps
<1>7. CASE /\ request.at = "asks" /\ Known(request)
           /\ \/ request.op = "create" /\ Creates(request)
              \/ request.op = "replace" /\ Owned(request) /\ Replaces(request)
              \/ request.op = "clear" /\ Owned(request) /\ Clears(request)
              \/ request.op = "erase" /\ \E whole \in BOOLEAN : Erases(request, whole)
  <2>1. ~calm /\ request.cookie \in open /\ request.body \in Bodies \cup {NoBody}
    BY <1>1, <1>4, <1>7 DEF Known, CallRecord
  <2>2. CASE Creates(request)
    <3>1. /\ created < MaxProfiles /\ created' = created + 1 /\ UNCHANGED <<open, opened>>
          /\ owner' = [owner EXCEPT ![created + 1] = request.cookie]
          /\ body' = [body EXCEPT ![created + 1] = request.body]
      BY <2>2 DEF Creates
    <3>2. owner' \in [Profiles -> 0 .. opened'] /\ body' \in [Profiles -> Bodies \cup {NoBody}]
      BY <1>1, <1>4, <2>1, <3>1
    <3>3. created' \in 0 .. MaxProfiles
      BY <1>1, <3>1, BoundsAssumption
    <3>4. ~crossed => \A p \in Profiles : owner'[p] \in open' => owner'[p] = cookie
      BY <1>4, <2>1, <3>1
    <3>5. TablesTurn
      BY <1>1, <1>2, <1>3, <1>4, <2>1, <3>1, <3>2, <3>3, <3>4 DEF TablesTurn
    <3> QED BY <3>5, TablesTurnKeeps
  <2>3. CASE Replaces(request) \/ Clears(request) \/ \E whole \in BOOLEAN : Erases(request, whole)
    <3>1. /\ UNCHANGED <<opened, owner, created>> /\ open' \subseteq open
          /\ body' \in [Profiles -> Bodies \cup {NoBody}]
      BY <1>4, <2>1, <2>3 DEF Replaces, Clears, Erases
    <3>2. TablesTurn
      BY <1>1, <1>2, <1>3, <1>4, <2>1, <3>1 DEF TablesTurn
    <3> QED BY <3>2, TablesTurnKeeps
  <2> QED BY <1>7, <2>2, <2>3
<1> QED BY <1>5, <1>6, <1>7 DEF ServeLate, request

LEMMA StutterKeeps ==
    ASSUME IInv, UNCHANGED vars
    PROVE  IInv'
BY DEF IInv, TypeOK, CallsFit, CallFits, PageFits, BootstrapIsShared, LoadIsAlone, OneAccount,
       SaveIsAlone, NothingLate, Agree, Live, ChangeDone, Done, Under, Changing, Saving, Bootstrapping,
       vars, page, backend, tables, history

-----------------------------------------------------------------------------
(* The theorems *)

LEMMA InitIInv == Init => IInv
<1> SUFFICES ASSUME Init PROVE IInv
  OBVIOUS
<1>1. /\ calls \in [Calls -> CallRecord]
      /\ \A x \in Calls : calls[x] = NoRequest
  BY NoRequestIsACall DEF Init
<1>2. \A x \in Calls : /\ calls[x].op = "none" /\ calls[x].at = "idle" /\ calls[x].cookie = None
  BY <1>1 DEF NoRequest
<1>3. Under = {} /\ Changing = {} /\ Saving = {} /\ Bootstrapping = {}
  BY <1>2 DEF Under, Changing, Saving, Bootstrapping
<1>4. \A x \in Calls : \A op, answer : ~Done(x, op, answer)
  BY <1>2 DEF Done
<1>5. /\ state.profileId = None /\ state.profile = NoBody /\ state.status = "empty"
      /\ state \in [profileId : Profiles \cup {None}, profile : Bodies \cup {NoBody}, status : Statuses]
  BY DEF Init, Empty, Statuses
<1>6. /\ stored = None /\ bootstrapPromise = NoCall /\ cookie = None /\ open = {} /\ opened = 0
      /\ owner = [p \in Profiles |-> None] /\ body = [p \in Profiles |-> NoBody] /\ created = 0
      /\ cut = {} /\ crossed = FALSE /\ calm = TRUE /\ overtaken = {}
      /\ late \in [Calls -> CallRecord]
      /\ \A x \in Calls : late[x].cookie = None /\ late[x].at = "idle"
  BY NoRequestIsACall DEF Init, NoRequest
<1>7. TypeOK
  <2>1. /\ stored \in Profiles \cup {None} /\ bootstrapPromise \in Calls \cup {NoCall}
        /\ cookie \in 0 .. opened /\ opened \in 0 .. MaxAccounts /\ open \subseteq 1 .. opened
        /\ created \in 0 .. MaxProfiles /\ cut \subseteq Calls /\ overtaken \subseteq Calls
    BY <1>6, BoundsAssumption DEF None
  <2>2. None \in 0 .. opened
    BY <2>1 DEF Init
  <2>3. owner \in [Profiles -> 0 .. opened] /\ body \in [Profiles -> Bodies \cup {NoBody}]
    BY <1>6, <2>2
  <2>4. crossed \in BOOLEAN /\ calm \in BOOLEAN
    BY <1>6
  <2> QED BY <1>1, <1>3, <1>5, <1>6, <2>1, <2>3, <2>4 DEF TypeOK
<1>8. CallsFit
  BY <1>1, <1>2, <1>4, <1>6 DEF CallsFit, CallFits, None
<1>9. PageFits /\ BootstrapIsShared /\ LoadIsAlone /\ OneAccount /\ SaveIsAlone /\ NothingLate /\ Agree
  BY <1>2, <1>3, <1>4, <1>5, <1>6
  DEF PageFits, BootstrapIsShared, LoadIsAlone, OneAccount, SaveIsAlone, NothingLate, Agree
<1> QED BY <1>7, <1>8, <1>9 DEF IInv

LEMMA NextIInv == IInv /\ [Next]_vars => IInv'
<1> SUFFICES ASSUME IInv, [Next]_vars PROVE IInv'
  OBVIOUS
<1>1. ASSUME NEW c \in Calls, Serve(c) PROVE IInv'
  <2>1. CASE \/ ServeCheck(c) \/ ServeRefusal(c) \/ ServeNotFound(c) \/ ServeMetrics(c)
             \/ ServeFails(c) \/ ServeLoad(c) \/ Lose(c)
    BY <2>1, QuietServices, QuietKeeps DEF IInv
  <2> QED BY <1>1, <2>1, ServeOpenKeeps, ServeCreateKeeps, ServeReplaceKeeps, ServeClearKeeps,
             ServeEraseKeeps
          DEF Serve
<1>2. ASSUME NEW c \in Calls, Return(c) PROVE IInv'
  BY <1>2, OpenSessionKeeps, SessionReadyKeeps, SessionFailsKeeps, LoadAnsweredKeeps,
     SaveAnsweredKeeps, ClearAnsweredKeeps, EraseAnsweredKeeps, MetricsAnsweredKeeps
  DEF Return
<1> QED BY <1>1, <1>2, StartLoadKeeps, StartsKeep, ServeLateKeeps, ReloadKeeps, ExpireKeeps, SweepKeeps,
       StutterKeeps
    DEF Next

\* The inductive invariant is an invariant.
THEOREM Invariance == Spec => []IInv
BY InitIInv, NextIInv, PTL DEF Spec

\* The types, and that a request about a profile names one.
THEOREM TypeCorrect == Spec => []TypeOK
<1>1. IInv => TypeOK
  BY DEF IInv
<1> QED BY <1>1, Invariance, PTL

\* ensureAuthSession(): all calls share the bootstrap under way, and none waits
\* for one that has ended, however many calls there are.
THEOREM BootstrapIsSharedHolds == Spec => []BootstrapIsShared
<1>1. IInv => BootstrapIsShared
  BY DEF IInv
<1> QED BY <1>1, Invariance, PTL

\* loadStoredProfile() is never beside another call.
THEOREM LoadIsAloneHolds == Spec => []LoadIsAlone
<1>1. IInv => LoadIsAlone
  BY DEF IInv
<1> QED BY <1>1, Invariance, PTL

\* While the account of the profile that is shown is open, it is that of the
\* cookie and the backend holds what is shown, as long as nothing ran into
\* anything else and no change lost its answer.
THEOREM ShownIsHeldHolds == Spec => []ShownIsHeld
<1>1. ASSUME IInv PROVE ShownIsHeld
  <2>1. state.profile # NoBody => state.profileId = stored /\ stored \in Profiles
    BY <1>1 DEF IInv, PageFits, TypeOK
  <2>2. ASSUME InStep, state.profile # NoBody
        PROVE  owner[stored] \in open => owner[stored] = cookie /\ body[stored] = state.profile
    <3>1. Agree /\ OneAccount
      BY <1>1, <2>2 DEF IInv, InStep
    <3>2. ~ChangeDone
      BY <2>2 DEF InStep, ChangeDone, Changing, Under, Done
    <3> QED BY <2>1, <2>2, <3>1, <3>2 DEF Agree, OneAccount
  <2> QED BY <2>1, <2>2 DEF ShownIsHeld
<1> QED BY <1>1, Invariance, PTL

\* The backend keeps no profile of the account of the cookie that the page has
\* lost, under the same conditions.
THEOREM NothingOutOfSightHolds == Spec => []NothingOutOfSight
<1>1. ASSUME IInv PROVE NothingOutOfSight
  <2> SUFFICES ASSUME InStep, cookie \in open, NEW p \in Profiles, owner[p] = cookie, body[p] # NoBody
               PROVE  p = stored
    BY DEF NothingOutOfSight
  <2>1. Agree
    BY <1>1 DEF IInv, InStep
  <2>2. \A x \in Calls : ~Done(x, "create", "ok")
    BY DEF InStep, Changing, Under, Done, Changes, Saves
  <2> QED BY <2>1, <2>2 DEF Agree
<1> QED BY <1>1, Invariance, PTL

\* Only the answers to a bootstrap and to an erasure write the cookie, and
\* neither takes that of an open account, unless the two crossed.
LEMMA CookieStep ==
    ASSUME IInv, [Next]_vars, cookie' # cookie, cookie \in open
    PROVE  crossed
<1> SUFFICES ASSUME ~crossed PROVE FALSE
  OBVIOUS
<1>1. ASSUME NEW c \in Calls, EraseAnswered(c) PROVE FALSE
  BY <1>1, EraseTakesNothing DEF EraseAnswered, Ends, Answered, Done
<1>2. ASSUME NEW c \in Calls, SessionReady(c) PROVE FALSE
  BY <1>2, SessionTakesNothing
<1>3. ASSUME NEW c \in Calls, Serve(c) PROVE FALSE
  BY <1>3 DEF Serve, ServeCheck, ServeOpen, ServeRefusal, ServeNotFound, ServeLoad, ServeMetrics,
     ServeCreate, ServeReplace, ServeClear, ServeErase, ServeFails, Lose, Answers, AnswersWith, untouched
<1>4. ASSUME NEW c \in Calls, Return(c) PROVE FALSE
  BY <1>1, <1>2, <1>4 DEF Return, OpenSession, SessionFails, LoadAnswered, SaveAnswered, ClearAnswered,
     MetricsAnswered
<1>5. ASSUME NEW c \in Calls,
             \/ StartLoad(c) \/ StartClear(c) \/ StartErase(c) \/ StartMetrics(c)
             \/ \E b \in Bodies : StartSave(c, b)
      PROVE  FALSE
  BY <1>5 DEF StartLoad, StartClear, StartErase, StartMetrics, StartSave, Begins
<1>6. CASE Reload
  BY <1>6 DEF Reload
<1>7. CASE (\E c \in Calls : ServeLate(c)) \/ (\E u \in Accounts : Expire(u)) \/ Sweep \/ UNCHANGED vars
  BY <1>7 DEF ServeLate, Expire, Sweep, vars, page
<1> QED BY <1>3, <1>4, <1>5, <1>6, <1>7 DEF Next

\* The cookie of an open account is not taken from the browser, unless an
\* erasure and a bootstrap were under way together.
THEOREM NoAccountAbandonedHolds == Spec => NoAccountAbandoned
<1>1. IInv /\ [Next]_vars => [cookie' # cookie /\ cookie \in open => crossed]_vars
  BY CookieStep
<1> QED BY <1>1, Invariance, PTL DEF Spec, NoAccountAbandoned

\* A load is alone: no other call of the page changes anything between its
\* service and its answer.
LEMMA LoadStep ==
    ASSUME IInv, [Next]_vars, NEW c \in Calls, calls[c].op = "load", calls'[c].op # "load",
           state'.profile # NoBody, c \notin overtaken
    PROVE  body[stored'] = state'.profile
<1>1. TypeOK /\ CallFits(c)
  BY DEF IInv, CallsFit
<1>2. c \in Under /\ state.status = "loading" /\ stored = calls[c].id /\ Under = {c} /\ state.profile = NoBody
  BY <1>1 DEF IInv, CallFits, NoRequest, Under, LoadIsAlone, PageFits
<1>3. \A x \in Calls : x # c => calls[x].at = "idle"
  BY <1>2 DEF Under
<1>4. state' # state
  BY <1>2
<1>5. ASSUME NEW x \in Calls, SaveAnswered(x) \/ ClearAnswered(x) \/ EraseAnswered(x) PROVE FALSE
  <2>1. calls[x].at = "asks" /\ calls[x].op \in {"create", "replace", "clear", "erase"}
    BY <1>5 DEF SaveAnswered, ClearAnswered, EraseAnswered, Ends, Answered, Saves
  <2> QED BY <1>3, <2>1
<1>6. ASSUME NEW x \in Calls, LoadAnswered(x) PROVE body[stored'] = state'.profile
  <2>1. x = c /\ calls[c].at = "asks"
    BY <1>3, <1>6 DEF LoadAnswered, Ends, Answered
  <2>2. CASE Done(c, "load", "ok")
    <3>1. stored' = stored /\ state' = [profileId |-> stored, profile |-> calls[c].body, status |-> "ready"]
      BY <1>2, <1>6, <2>1, <2>2 DEF LoadAnswered, Ends, Answered, Keep, Done
    <3> QED BY <1>1, <1>2, <2>2, <3>1 DEF CallFits
  <2>3. CASE ~Done(c, "load", "ok")
    <3>1. Forget("error") \/ state' = LoadFailed
      BY <1>6, <2>1, <2>3 DEF LoadAnswered, Ends, Answered, Done
    <3>2. state'.profile = NoBody
      BY <1>1, <1>2, <3>1, ForgetTypes DEF LoadFailed, TypeOK
    <3> QED BY <3>2
  <2> QED BY <2>2, <2>3
<1>7. ASSUME NEW x \in Calls, SessionFails(x) PROVE FALSE
  <2>1. state' = LoadFailed
    BY <1>4, <1>7 DEF SessionFails
  <2> QED BY <1>1, <1>2, <2>1 DEF LoadFailed, TypeOK
<1>8. ASSUME NEW x \in Calls, OpenSession(x) \/ SessionReady(x) \/ MetricsAnswered(x) PROVE FALSE
  BY <1>4, <1>8 DEF OpenSession, SessionReady, MetricsAnswered
<1>9. ASSUME NEW x \in Calls, Serve(x) PROVE FALSE
  BY <1>4, <1>9 DEF Serve, ServeCheck, ServeOpen, ServeRefusal, ServeNotFound, ServeLoad, ServeMetrics,
     ServeCreate, ServeReplace, ServeClear, ServeErase, ServeFails, Lose, Answers, AnswersWith, untouched
<1>10. ASSUME NEW x \in Calls,
              \/ StartLoad(x) \/ StartClear(x) \/ StartErase(x) \/ StartMetrics(x)
              \/ \E b \in Bodies : StartSave(x, b)
       PROVE  FALSE
  <2>1. StartLoad(x) \/ UNCHANGED state
    BY <1>10 DEF StartClear, StartErase, StartMetrics, StartSave
  <2> QED BY <1>2, <1>4, <2>1 DEF StartLoad
<1>11. CASE Reload
  BY <1>11 DEF Reload, Reconciled, Empty
<1>12. CASE (\E x \in Calls : ServeLate(x)) \/ (\E u \in Accounts : Expire(u)) \/ Sweep \/ UNCHANGED vars
  BY <1>4, <1>12 DEF ServeLate, Expire, Sweep, page, vars
<1> QED BY <1>5, <1>6, <1>7, <1>8, <1>9, <1>10, <1>11, <1>12 DEF Next, Return

\* A page that has loaded shows what the backend holds, unless its profile was
\* changed after the load was served by what the page had given up or by the
\* retention process.
THEOREM LoadShowsWhatIsHeldHolds == Spec => LoadShowsWhatIsHeld
<1>1. IInv /\ [Next]_vars =>
        [\A c \in Calls :
            /\ calls[c].op = "load" /\ calls'[c].op # "load" /\ state'.profile # NoBody
            /\ c \notin overtaken
            => body[stored'] = state'.profile]_vars
  BY LoadStep
<1> QED BY <1>1, Invariance, PTL DEF Spec, LoadShowsWhatIsHeld
=============================================================================
