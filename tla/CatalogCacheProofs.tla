-------------------------- MODULE CatalogCacheProofs --------------------------
(***************************************************************************)
(* Proofs about CatalogCache, for any number of threads, any catalogues, any *)
(* page size and any history of the provider.                               *)
(***************************************************************************)
EXTENDS CatalogCache, SequenceTheorems, FiniteSetTheorems, TLAPS

(***************************************************************************)
(* The lock.  A thread in the loader holds the lock of its service, and the *)
(* service's entry had expired when it took it.                             *)
(***************************************************************************)
HoldersLoad ==
    /\ \A r \in Requests : ~At(r, "idle") /\ ~At(r, "building") => req[r].svc \in Requests
    /\ \A r \in Requests : Loading(r) => lock[req[r].svc] = r
    /\ \A s \in Requests :
          lock[s] # Free => Loading(lock[s]) /\ req[lock[s]].svc = s

LockedEntriesExpired ==
    \A s \in Requests : lock[s] # Free => clock >= entries[s].expires

(***************************************************************************)
(* A load.  Its rows come from the catalogues it has seen; if it has seen   *)
(* only one, they are that catalogue's, up to the page it has come to.      *)
(***************************************************************************)
Taken(l, all) == IF (l.page - 1) * PageSize < Len(all) THEN (l.page - 1) * PageSize ELSE Len(all)

Steady(l) ==
    \A c \in l.seen : l.seen = {c} =>
        /\ l.rows = SubSeq(c[l.month], 1, Taken(l, c[l.month]))
        /\ l.page > 1 => l.total = Len(c[l.month])
        /\ \A m \in (l.month + 1) .. StartMonth : c[m] = <<>>

FaithfulLoad(l, now, pc) ==
    /\ l.month + Lookback >= StartMonth
    /\ now \in l.seen
    /\ Range(l.rows) \subseteq UNION {Range(c[l.month]) : c \in l.seen}
    /\ Steady(l)
    /\ pc = "discover" => l.page = 1 /\ l.rows = <<>>
    /\ pc = "collect" => \A c \in l.seen : l.seen = {c} => c[l.month] # <<>>
LoadsAreFaithful ==
    \A s \in Requests :
        lock[s] # Free => FaithfulLoad(loads[s], published, req[lock[s]].pc)

IInv ==
    /\ TypeOK
    /\ HoldersLoad
    /\ LockedEntriesExpired
    /\ LoadsAreFaithful
    /\ SnapshotIsFaithful

-----------------------------------------------------------------------------
(* Constants and sequences.                                                 *)

LEMMA CataloguesAreTyped ==
    ASSUME NEW c \in Catalogues, NEW m \in Months
    PROVE  /\ c[m] \in Seq(Ids)
           /\ Range(c[m]) \subseteq Ids
  <1>1. Range(c[m]) \subseteq Ids
    BY DEF Ids
  <1>2. c[m] \in Seq(Range(c[m]))
    BY CataloguesAssumption
  <1>3. c[m] \in [1 .. Len(c[m]) -> Ids] /\ Len(c[m]) \in Nat
    BY <1>1, <1>2, LenProperties
  <1>. QED
    BY <1>1, <1>3, SeqDef

\* A prefix and the part that follows it make the longer prefix.
LEMMA PrefixGrows ==
    ASSUME NEW S, NEW all \in Seq(S), NEW p \in Nat, p <= Len(all), NEW n \in p .. Len(all)
    PROVE  SubSeq(all, 1, p) \o SubSeq(all, p + 1, n) = SubSeq(all, 1, n)
  OBVIOUS

\* A call of the provider keeps the type of the loader's locals, takes its rows
\* from the catalogue of this moment, and continues a steady load.
LEMMA CallsAreTyped ==
    ASSUME NEW l \in LoadState, published \in Catalogues, clock \in 0 .. MaxClock
    PROVE  /\ Rows(l) \in Seq(Ids)
           /\ Range(Rows(l)) \subseteq Range(published[l.month])
           /\ After(l) \in LoadState
           /\ Range(After(l).rows) \subseteq Range(l.rows) \cup Range(published[l.month])
           /\ After(l).month = l.month /\ After(l).seen = l.seen
           /\ After(l).page = l.page + 1
           /\ After(l).rows = l.rows \o Rows(l)
  <1>. DEFINE all == published[l.month]
              first == (l.page - 1) * PageSize + 1
              last == IF l.page * PageSize < Len(all) THEN l.page * PageSize ELSE Len(all)
  <1>1. /\ l.month \in Months /\ l.page \in Nat /\ l.page >= 1 /\ l.rows \in Seq(Ids)
        /\ l.total \in Nat /\ l.seen \in SUBSET Catalogues
        /\ PageSize \in Nat
    BY ConfigAssumption DEF LoadState
  <1>2. all \in Seq(Ids) /\ Len(all) \in Nat
    BY <1>1, CataloguesAreTyped, LenProperties
  <1>3. (l.page - 1) * PageSize \in Nat /\ l.page * PageSize \in Nat
    BY <1>1
  <1>. HIDE DEF all, first, last
  <1>4. first \in Nat /\ first >= 1 /\ last \in Nat /\ last <= Len(all)
    BY <1>2, <1>3 DEF first, last
  <1>5. \A i \in first .. last : i \in 1 .. Len(all) /\ all[i] \in Ids
    BY <1>2, <1>4, ElementOfSeq
  <1>6. /\ SubSeq(all, first, last) \in Seq(Ids)
        /\ Len(SubSeq(all, first, last)) = IF first <= last THEN last - first + 1 ELSE 0
        /\ \A i \in 1 .. last - first + 1 : SubSeq(all, first, last)[i] = all[first + i - 1]
    BY <1>4, <1>5, SubSeqProperties
  <1>7. Rows(l) = SubSeq(all, first, last)
    BY DEF Rows, all, first, last
  <1>8. Range(Rows(l)) \subseteq Range(all)
    <2>. SUFFICES ASSUME NEW i \in DOMAIN Rows(l)
                  PROVE  \E j \in DOMAIN all : Rows(l)[i] = all[j]
      BY DEF Range
    <2>1. i \in 1 .. last - first + 1
      BY <1>4, <1>6, <1>7, LenProperties
    <2>2. first + i - 1 \in 1 .. Len(all)
      BY <2>1, <1>4, <1>2
    <2>3. first + i - 1 \in DOMAIN all
      BY <2>2, <1>2, LenProperties
    <2>. QED
      BY <2>1, <2>3, <1>6, <1>7
  <1>9. /\ l.rows \o Rows(l) \in Seq(Ids)
        /\ Range(l.rows \o Rows(l)) \subseteq Range(l.rows) \cup Range(Rows(l))
    <2>1. /\ Rows(l) \in Seq(Ids) /\ l.rows \in Seq(Ids)
          /\ Len(Rows(l)) \in Nat /\ Len(l.rows) \in Nat
          /\ DOMAIN Rows(l) = 1 .. Len(Rows(l)) /\ DOMAIN l.rows = 1 .. Len(l.rows)
      BY <1>1, <1>6, <1>7, LenProperties
    <2>2. /\ l.rows \o Rows(l) \in Seq(Ids)
          /\ DOMAIN (l.rows \o Rows(l)) = 1 .. Len(l.rows) + Len(Rows(l))
          /\ \A i \in 1 .. Len(l.rows) + Len(Rows(l)) :
                (l.rows \o Rows(l))[i] =
                    IF i <= Len(l.rows) THEN l.rows[i] ELSE Rows(l)[i - Len(l.rows)]
      BY <2>1, ConcatProperties, LenProperties
    <2>. QED
      BY <2>1, <2>2 DEF Range
  <1>10. TotalCount(l) \in Nat
    BY <1>2 DEF TotalCount, all
  <1>11. /\ After(l).month = l.month /\ After(l).seen = l.seen
         /\ After(l).page = l.page + 1 /\ After(l).rows = l.rows \o Rows(l)
    BY DEF After, LoadState
  <1>12. After(l) \in LoadState
    <2>1. /\ l.rows \o Rows(l) \in Seq(Ids) /\ l.page + 1 \in Nat \ {0}
          /\ (IF l.page = 1 THEN TotalCount(l) ELSE l.total) \in Nat
      BY <1>1, <1>9, <1>10
    <2>. QED
      BY <2>1, <1>1 DEF After, LoadState
  <1>. QED
    BY <1>6, <1>7, <1>8, <1>9, <1>11, <1>12 DEF all

LEMMA SteadyCalls ==
    ASSUME NEW l \in LoadState, published \in Catalogues, published \in l.seen,
           Steady(l), ~Refused(l)
    PROVE  Steady(After(l))
  <1>. SUFFICES ASSUME NEW c \in l.seen, l.seen = {c}
                PROVE  /\ After(l).rows = SubSeq(c[l.month], 1, Taken(After(l), c[l.month]))
                       /\ After(l).total = Len(c[l.month])
                       /\ \A m \in (l.month + 1) .. StartMonth : c[m] = <<>>
    BY DEF Steady, After, LoadState
  <1>. DEFINE all == c[l.month]
  <1>1. c = published
    OBVIOUS
  <1>2. l.month \in Months /\ l.page \in Nat /\ l.page >= 1 /\ PageSize \in Nat
    BY ConfigAssumption DEF LoadState
  <1>3. all \in Seq(Ids) /\ Len(all) \in Nat
    BY <1>1, <1>2, CataloguesAreTyped, LenProperties
  <1>4. /\ l.rows = SubSeq(all, 1, Taken(l, all))
        /\ \A m \in (l.month + 1) .. StartMonth : c[m] = <<>>
    BY DEF Steady
  <1>. DEFINE before == (l.page - 1) * PageSize
              after == l.page * PageSize
              last == IF after < Len(all) THEN after ELSE Len(all)
  <1>5. before \in Nat /\ after \in Nat /\ before <= after
    BY <1>2
  <1>6. Rows(l) = SubSeq(all, before + 1, last)
    BY <1>1 DEF Rows
  <1>7. Taken(After(l), all) = last
    BY <1>2 DEF Taken, After, LoadState
  <1>8. Taken(l, all) = IF before < Len(all) THEN before ELSE Len(all)
    BY DEF Taken
  <1>9. After(l).rows = l.rows \o Rows(l)
    BY DEF After, LoadState
  <1>10. After(l).total = Len(all)
    BY <1>1 DEF Refused, TotalCount
  <1>. HIDE DEF all, before, after
  <1>11. SubSeq(all, 1, Taken(l, all)) \o SubSeq(all, before + 1, last) = SubSeq(all, 1, last)
    <2>1. CASE before <= Len(all)
      <3>1. Taken(l, all) = before
        BY <2>1, <1>3, <1>5, <1>8
      <3>2. last \in before .. Len(all)
        BY <2>1, <1>3, <1>5
      <3>. QED
        BY <2>1, <3>1, <3>2, <1>3, <1>5, PrefixGrows
    <2>2. CASE before > Len(all)
      <3>1. Taken(l, all) = Len(all) /\ last = Len(all)
        BY <2>2, <1>3, <1>5, <1>8
      <3>2. SubSeq(all, before + 1, last) = <<>>
        BY <2>2, <3>1, <1>3, <1>5, SubSeqEmpty
      <3>3. SubSeq(all, 1, Len(all)) = all
        BY <1>3, SubSeqFull
      <3>. QED
        BY <3>1, <3>2, <3>3, <1>3, ConcatEmptySeq
    <2>3. before <= Len(all) \/ before > Len(all)
      BY <1>3, <1>5
    <2>. QED
      BY <2>1, <2>2, <2>3, Zenon
  <1>. QED
    BY <1>4, <1>6, <1>7, <1>9, <1>10, <1>11 DEF all

-----------------------------------------------------------------------------
(* The inductive invariant.                                                 *)

LEMMA IInvInit == Init => IInv
  <1>. SUFFICES ASSUME Init PROVE IInv
    OBVIOUS
  <1>1. TypeOK
    BY MonthsAssumption, ConfigAssumption, NamesAssumption
    DEF ThreadState, Init, TypeOK, NoEntry, NoLoad, Begin, Idle, EntryState, LoadState, Months
  <1>2. HoldersLoad
    BY DEF Init, HoldersLoad, At, Loading, Idle
  <1>3. LockedEntriesExpired /\ LoadsAreFaithful
    BY DEF Init, LockedEntriesExpired, LoadsAreFaithful
  <1>4. SnapshotIsFaithful
    BY DEF Init, SnapshotIsFaithful
  <1>. QED
    BY <1>1, <1>2, <1>3, <1>4 DEF IInv

\* What a thread in the loader knows of its service.
LEMMA LoaderFacts ==
    ASSUME IInv, NEW r \in Requests, Loading(r)
    PROVE  /\ req[r].svc \in Requests
           /\ lock[req[r].svc] = r /\ r # Free
           /\ loads[req[r].svc] \in LoadState
           /\ published \in Catalogues /\ clock \in 0 .. MaxClock
           /\ \A s \in Requests : lock[s] = r => s = req[r].svc
           /\ clock >= entries[req[r].svc].expires
           /\ loads[req[r].svc].month + Lookback >= StartMonth
           /\ published \in loads[req[r].svc].seen
           /\ Range(loads[req[r].svc].rows) \subseteq
                 UNION {Range(c[loads[req[r].svc].month]) : c \in loads[req[r].svc].seen}
           /\ Steady(loads[req[r].svc])
           /\ At(r, "discover") => loads[req[r].svc].page = 1 /\ loads[req[r].svc].rows = <<>>
           /\ At(r, "collect") =>
                 \A c \in loads[req[r].svc].seen :
                    loads[req[r].svc].seen = {c} => c[loads[req[r].svc].month] # <<>>
  <1>1. /\ req[r].svc \in Requests /\ lock[req[r].svc] = r
        /\ \A s \in Requests : lock[s] # Free => req[lock[s]].svc = s
    BY DEF IInv, HoldersLoad, Loading, At
  <1>2. r # Free
    BY NamesAssumption
  <1>. QED
    BY <1>1, <1>2, Zenon DEF IInv, TypeOK, LockedEntriesExpired, LoadsAreFaithful, FaithfulLoad, At

\* A load that begins.
LEMMA NoLoadIsSteady ==
    ASSUME published \in Catalogues
    PROVE  /\ NoLoad \in LoadState
           /\ Begin({published}) \in LoadState
           /\ Steady(Begin({published}))
  <1>1. StartMonth \in Months /\ 0 \in 0 .. MaxClock
    BY MonthsAssumption, ConfigAssumption DEF Months
  <1>2. \A seen \in SUBSET Catalogues : Begin(seen) \in LoadState
    BY <1>1 DEF Begin, LoadState
  <1>3. NoLoad \in LoadState /\ Begin({published}) \in LoadState
    BY <1>2 DEF NoLoad
  <1>4. published[StartMonth] \in Seq(Ids) /\ Len(published[StartMonth]) \in Nat
    BY <1>1, CataloguesAreTyped, LenProperties
  <1>5. Taken(Begin({published}), published[StartMonth]) = 0
    BY <1>4, ConfigAssumption DEF Taken, Begin
  <1>6. SubSeq(published[StartMonth], 1, 0) = <<>>
    BY SubSeqEmpty
  <1>7. \A m \in (StartMonth + 1) .. StartMonth : FALSE
    BY MonthsAssumption
  <1>8. /\ Begin({published}).month = StartMonth /\ Begin({published}).page = 1
        /\ Begin({published}).rows = <<>> /\ Begin({published}).seen = {published}
    BY DEF Begin
  <1>9. Steady(Begin({published}))
    <2>. SUFFICES ASSUME NEW c \in {published}
                  PROVE  /\ <<>> = SubSeq(c[StartMonth], 1, Taken(Begin({published}), c[StartMonth]))
                         /\ ~(1 > 1)
                         /\ \A m \in (StartMonth + 1) .. StartMonth : c[m] = <<>>
      BY <1>8 DEF Steady
    <2>1. c = published
      OBVIOUS
    <2>2. ~(1 > 1)
      OBVIOUS
    <2>. QED
      BY <2>1, <2>2, <1>5, <1>6, <1>7, Zenon
  <1>. QED
    BY <1>3, <1>9

\* The end of a load disturbs only what belongs to its service.
LEMMA FinishFacts ==
    ASSUME TypeOK, NEW r \in Requests, Finish(r)
    PROVE  /\ req' \in [Requests -> ThreadState]
           /\ req'[r] = Idle
           /\ \A q \in Requests \ {r} : req'[q].pc = req[q].pc /\ req'[q].svc = req[q].svc
  <1>1. Idle \in ThreadState
    BY DEF Idle, ThreadState
  <1>. QED
    BY <1>1 DEF Finish, TypeOK

LEMMA RaiseKeeps ==
    ASSUME IInv, NEW r \in Requests, Loading(r), Raise(r)
    PROVE  IInv'
  <1>. DEFINE s == req[r].svc
  <1>1. s \in Requests /\ lock[s] = r /\ r # Free /\ \A t \in Requests : lock[t] = r => t = s
    BY LoaderFacts
  <1>2. /\ TypeOK
        /\ req'[r] = Idle
        /\ \A q \in Requests \ {r} : req'[q].pc = req[q].pc /\ req'[q].svc = req[q].svc
        /\ req' \in [Requests -> ThreadState]
    BY FinishFacts DEF Raise, IInv
  <1>3. /\ lock' = [lock EXCEPT ![s] = Free] /\ loads' = [loads EXCEPT ![s] = NoLoad]
        /\ UNCHANGED <<clock, published, lru, entries>>
    BY DEF Raise
  <1>. HIDE DEF s
  <1>4. NoLoad \in LoadState
    BY <1>2, NoLoadIsSteady DEF TypeOK
  <1>5. TypeOK'
    BY <1>2, <1>3, <1>4 DEF TypeOK
  <1>6. /\ lock'[s] = Free
        /\ \A t \in Requests : lock'[t] # Free =>
              t # s /\ lock'[t] = lock[t] /\ lock[t] \in Requests \ {r} /\ loads'[t] = loads[t]
    BY <1>1, <1>2, <1>3 DEF TypeOK
  <1>7. HoldersLoad'
    BY <1>1, <1>2, <1>3, <1>6 DEF IInv, HoldersLoad, At, Loading, Idle
  <1>8. LockedEntriesExpired'
    BY <1>3, <1>6 DEF IInv, LockedEntriesExpired
  <1>9. LoadsAreFaithful'
    <2>. SUFFICES ASSUME NEW t \in Requests, lock'[t] # Free
                  PROVE  FaithfulLoad(loads'[t], published', req'[lock'[t]].pc)
      BY DEF LoadsAreFaithful
    <2>1. FaithfulLoad(loads[t], published, req[lock[t]].pc) /\ lock'[t] = lock[t] /\ loads'[t] = loads[t]
      BY <1>6 DEF IInv, LoadsAreFaithful
    <2>2. req'[lock[t]].pc = req[lock[t]].pc
      BY <1>2, <1>6
    <2>. QED
      BY <2>1, <2>2, <1>3
  <1>10. SnapshotIsFaithful'
    BY <1>3 DEF IInv, SnapshotIsFaithful
  <1>. QED
    BY <1>5, <1>7, <1>8, <1>9, <1>10 DEF IInv

\* The step that leaves the catalogue and the loads alone and moves one thread
\* that is not in the loader to a place that is not in the loader.
LEMMA OutsideKeeps ==
    ASSUME IInv, NEW r \in Requests, ~Loading(r),
           NEW to \in ThreadState, to.pc \notin {"discover", "collect"},
           to.pc = "waiting" => to.svc \in Requests,
           req' = [req EXCEPT ![r] = to],
           lru' \in Requests \cup {NoService},
           UNCHANGED <<clock, published, entries, lock, loads>>
    PROVE  IInv'
  <1>2. TypeOK'
    BY DEF IInv, TypeOK
  <1>3. req'[r] = to /\ \A q \in Requests \ {r} : req'[q] = req[q]
    BY DEF IInv, TypeOK
  <1>4. \A s \in Requests : lock[s] # Free => lock[s] \in Requests \ {r}
    BY DEF IInv, TypeOK, HoldersLoad
  <1>5. HoldersLoad'
    BY <1>3, <1>4 DEF ThreadState, IInv, HoldersLoad, At, Loading
  <1>6. LockedEntriesExpired' /\ SnapshotIsFaithful'
    BY DEF IInv, LockedEntriesExpired, SnapshotIsFaithful, Faithful
  <1>7. LoadsAreFaithful'
    <2>. SUFFICES ASSUME NEW t \in Requests, lock'[t] # Free
                  PROVE  FaithfulLoad(loads'[t], published', req'[lock'[t]].pc)
      BY DEF LoadsAreFaithful
    <2>1. FaithfulLoad(loads[t], published, req[lock[t]].pc)
      BY DEF IInv, LoadsAreFaithful
    <2>2. req'[lock[t]] = req[lock[t]]
      BY <1>3, <1>4
    <2>. QED
      BY <2>1, <2>2
  <1>. QED
    BY <1>2, <1>5, <1>6, <1>7 DEF IInv

LEMMA ArriveKeeps == ASSUME IInv, NEW r \in Requests, Arrive(r) PROVE IInv'
  <1>. DEFINE to == IF lru = NoService THEN [Idle EXCEPT !.pc = "building"]
                                       ELSE [Idle EXCEPT !.pc = "waiting", !.svc = lru]
  <1>1. /\ to \in ThreadState /\ to.pc \notin {"discover", "collect"}
        /\ to.pc = "waiting" => to.svc \in Requests
    BY DEF ThreadState, IInv, TypeOK, Idle
  <1>2. /\ ~Loading(r)
        /\ req' = [req EXCEPT ![r] = to]
        /\ lru' \in Requests \cup {NoService}
        /\ UNCHANGED <<clock, published, entries, lock, loads>>
    BY DEF Arrive, At, Loading, IInv, TypeOK
  <1>. HIDE DEF to
  <1>. QED
    BY <1>1, <1>2, OutsideKeeps

LEMMA BuildKeeps == ASSUME IInv, NEW r \in Requests, Build(r) PROVE IInv'
  <1>. DEFINE to == [req[r] EXCEPT !.pc = "waiting", !.svc = r]
  <1>1. /\ to \in ThreadState /\ to.pc \notin {"discover", "collect"}
        /\ to.pc = "waiting" => to.svc \in Requests
    BY DEF ThreadState, IInv, TypeOK
  <1>2. /\ ~Loading(r)
        /\ req' = [req EXCEPT ![r] = to]
        /\ lru' \in Requests \cup {NoService}
        /\ UNCHANGED <<clock, published, entries, lock, loads>>
    BY DEF Build, At, Loading, IInv, TypeOK
  <1>. HIDE DEF to
  <1>. QED
    BY <1>1, <1>2, OutsideKeeps

LEMMA HitKeeps == ASSUME IInv, NEW r \in Requests, Hit(r) PROVE IInv'
  <1>1. /\ Idle \in ThreadState /\ Idle.pc \notin {"discover", "collect"}
        /\ Idle.pc = "waiting" => Idle.svc \in Requests
    BY DEF ThreadState, Idle
  <1>2. /\ ~Loading(r)
        /\ req' = [req EXCEPT ![r] = Idle]
        /\ lru' \in Requests \cup {NoService}
        /\ UNCHANGED <<clock, published, entries, lock, loads>>
    BY DEF Hit, Finish, At, Loading, IInv, TypeOK
  <1>. QED
    BY <1>1, <1>2, OutsideKeeps

LEMMA MissKeeps == ASSUME IInv, NEW r \in Requests, Miss(r) PROVE IInv'
  <1>. DEFINE s == req[r].svc
              l == Begin({published})
  <1>1. /\ s \in Requests /\ req[r].pc = "waiting" /\ lock[s] = Free /\ clock >= entries[s].expires
    <2>1. /\ s \in Requests /\ req[r].pc = "waiting" /\ lock[s] = Free /\ ~(clock < entries[s].expires)
      BY DEF Miss, At, IInv, HoldersLoad, LockFree, Fresh
    <2>2. entries[s] \in EntryState /\ clock \in 0 .. MaxClock
      BY <2>1 DEF IInv, TypeOK
    <2>3. entries[s].expires \in 0 .. MaxClock + Ttl
      BY <2>2 DEF EntryState
    <2>4. entries[s].expires \in Nat /\ clock \in Nat
      BY <2>2, <2>3, ConfigAssumption
    <2>. QED
      BY <2>1, <2>4
  <1>2. /\ lock' = [lock EXCEPT ![s] = r] /\ loads' = [loads EXCEPT ![s] = l]
        /\ req' = [req EXCEPT ![r].pc = "discover"]
        /\ UNCHANGED <<clock, published, lru, entries>>
    BY DEF Miss, Goto
  <1>3. l \in LoadState /\ Steady(l)
    BY NoLoadIsSteady DEF IInv, TypeOK
  <1>4. l.page = 1 /\ l.rows = <<>> /\ l.seen = {published}
    BY DEF Begin
  <1>. HIDE DEF s, l
  <1>5. TypeOK'
    BY <1>1, <1>2, <1>3 DEF ThreadState, IInv, TypeOK
  <1>6. /\ lock'[s] = r /\ loads'[s] = l /\ r # Free
        /\ req'[r].pc = "discover" /\ req'[r].svc = s
        /\ \A q \in Requests \ {r} : req'[q] = req[q]
        /\ \A t \in Requests \ {s} : lock'[t] = lock[t] /\ loads'[t] = loads[t]
    BY <1>1, <1>2, NamesAssumption DEF IInv, TypeOK, s
  <1>7. \A t \in Requests : lock[t] # Free => lock[t] \in Requests \ {r}
    BY <1>1 DEF IInv, TypeOK, HoldersLoad, Loading, At
  <1>8. HoldersLoad'
    <2>1. \A q \in Requests : q # r => req'[q] = req[q]
      BY <1>6
    <2>2. \A q \in Requests : Loading(q) => req[q].svc # s
      BY <1>1, NamesAssumption DEF IInv, HoldersLoad
    <2>. QED
      BY <2>1, <2>2, <1>1, <1>6, <1>7 DEF IInv, HoldersLoad, At, Loading
  <1>9. LockedEntriesExpired' /\ SnapshotIsFaithful'
    <2>1. LockedEntriesExpired'
      BY <1>1, <1>2, <1>6 DEF IInv, LockedEntriesExpired
    <2>. QED
      BY <2>1, <1>2 DEF IInv, SnapshotIsFaithful, Faithful
  <1>10. LoadsAreFaithful'
    <2>. SUFFICES ASSUME NEW t \in Requests, lock'[t] # Free
                  PROVE  FaithfulLoad(loads'[t], published', req'[lock'[t]].pc)
      BY DEF LoadsAreFaithful
    <2>1. CASE t = s
      <3>1. Range(l.rows) = {}
        BY <1>4 DEF Range
      <3>2. l.month + Lookback >= StartMonth
        BY MonthsAssumption DEF l, Begin
      <3>3. FaithfulLoad(l, published, "discover")
        BY <3>1, <3>2, <1>3, <1>4 DEF FaithfulLoad
      <3>. QED
        BY <2>1, <3>3, <1>2, <1>6
    <2>2. CASE t # s
      <3>1. FaithfulLoad(loads[t], published, req[lock[t]].pc) /\ lock'[t] = lock[t] /\ loads'[t] = loads[t]
        BY <2>2, <1>6 DEF IInv, LoadsAreFaithful
      <3>2. req'[lock[t]] = req[lock[t]]
        BY <2>2, <1>6, <1>7
      <3>. QED
        BY <3>1, <3>2, <1>2
    <2>. QED
      BY <2>1, <2>2
  <1>. QED
    BY <1>5, <1>8, <1>9, <1>10 DEF IInv

\* A step of the loader that goes on: thread r, which is in the loader, leaves
\* its load in a faithful state and everything else as it is.
LEMMA LoadingKeeps ==
    ASSUME IInv, NEW r \in Requests, Loading(r),
           NEW pc \in {"discover", "collect"}, NEW l \in LoadState,
           req' = [req EXCEPT ![r].pc = pc],
           loads' = [loads EXCEPT ![req[r].svc] = l],
           UNCHANGED <<clock, published, lru, entries, lock>>,
           FaithfulLoad(l, published, pc)
    PROVE  IInv'
  <1>. DEFINE s == req[r].svc
  <1>1. s \in Requests /\ lock[s] = r /\ r # Free /\ \A t \in Requests : lock[t] = r => t = s
    BY LoaderFacts
  <1>2. loads' = [loads EXCEPT ![s] = l]
    OBVIOUS
  <1>3. /\ req'[r].pc = pc /\ req'[r].svc = s
        /\ \A q \in Requests : q # r => req'[q] = req[q]
    BY DEF IInv, TypeOK
  <1>. HIDE DEF s
  <1>4. TypeOK'
    <2>1. loads' \in [Requests -> LoadState]
      BY <1>1, <1>2 DEF IInv, TypeOK
    <2>2. req' \in [Requests -> ThreadState]
      BY DEF ThreadState, IInv, TypeOK
    <2>. QED
      BY <2>1, <2>2 DEF IInv, TypeOK
  <1>5. /\ loads'[s] = l
        /\ \A t \in Requests : t # s => loads'[t] = loads[t]
    BY <1>1, <1>2 DEF IInv, TypeOK
  <1>6. HoldersLoad'
    BY <1>1, <1>3 DEF IInv, HoldersLoad, At, Loading
  <1>7. LockedEntriesExpired' /\ SnapshotIsFaithful'
    <2>1. entries' = entries /\ lock' = lock /\ clock' = clock
      OBVIOUS
    <2>2. LockedEntriesExpired'
      BY <2>1 DEF IInv, LockedEntriesExpired
    <2>3. SnapshotIsFaithful'
      BY <2>1 DEF IInv, SnapshotIsFaithful, Faithful
    <2>. QED
      BY <2>2, <2>3
  <1>8. LoadsAreFaithful'
    <2>. SUFFICES ASSUME NEW t \in Requests, lock'[t] # Free
                  PROVE  FaithfulLoad(loads'[t], published', req'[lock'[t]].pc)
      BY DEF LoadsAreFaithful
    <2>1. CASE t = s
      BY <2>1, <1>1, <1>3, <1>5
    <2>2. CASE t # s
      <3>1. FaithfulLoad(loads[t], published, req[lock[t]].pc) /\ lock'[t] = lock[t] /\ loads'[t] = loads[t]
        BY <2>2, <1>5 DEF IInv, LoadsAreFaithful
      <3>2. req'[lock[t]] = req[lock[t]]
        BY <2>2, <1>1, <1>3 DEF IInv, TypeOK
      <3>. QED
        BY <3>1, <3>2
    <2>. QED
      BY <2>1, <2>2
  <1>. QED
    BY <1>4, <1>6, <1>7, <1>8 DEF IInv

LEMMA DiscoverKeeps == ASSUME IInv, NEW r \in Requests, Discover(r) PROVE IInv'
  <1>. DEFINE s == req[r].svc
              l == loads[s]
  <1>1. At(r, "discover") /\ req[r].pc = "discover" /\ Loading(r)
    BY DEF Discover, Loading, At
  <1>2. /\ s \in Requests /\ l \in LoadState /\ published \in l.seen /\ Steady(l)
        /\ Range(l.rows) \subseteq UNION {Range(c[l.month]) : c \in l.seen}
        /\ l.page = 1 /\ l.rows = <<>> /\ l.month + Lookback >= StartMonth
    BY <1>1, LoaderFacts
  <1>3. CASE /\ published[l.month] # <<>>
             /\ Goto(r, "collect")
             /\ UNCHANGED <<clock, published, lru, entries, lock, loads>>
    <2>1. loads' = [loads EXCEPT ![s] = l]
      BY <1>2, <1>3 DEF IInv, TypeOK
    <2>2. FaithfulLoad(l, published, "collect")
      BY <1>2, <1>3 DEF FaithfulLoad
    <2>3. req' = [req EXCEPT ![r].pc = "collect"]
      BY <1>3 DEF Goto
    <2>. HIDE DEF l
    <2>. QED
      BY <1>1, <1>2, <1>3, <2>1, <2>2, <2>3, LoadingKeeps
  <1>4. CASE /\ published[l.month] = <<>>
             /\ ~LastCandidate(l.month)
             /\ loads' = [loads EXCEPT ![s].month = l.month - 1]
             /\ UNCHANGED <<clock, published, lru, entries, lock, req>>
    <2>. DEFINE n == [l EXCEPT !.month = l.month - 1]
    <2>1. loads' = [loads EXCEPT ![s] = n]
      BY <1>2, <1>4 DEF IInv, TypeOK
    <2>2. /\ n.month = l.month - 1 /\ n.page = 1 /\ n.rows = <<>> /\ n.seen = l.seen
          /\ l.month \in 1 .. StartMonth /\ StartMonth \in Nat /\ Lookback \in Nat
          /\ Lookback < StartMonth
      BY <1>2, MonthsAssumption DEF LoadState, Months
    <2>3. l.month # StartMonth - Lookback
      BY <1>4 DEF LastCandidate
    <2>4. n.month \in Months /\ n.month + Lookback >= StartMonth
      BY <2>2, <2>3, <1>2 DEF Months
    <2>5. n \in LoadState
      BY <1>2, <2>2, <2>4 DEF LoadState
    <2>6. Range(n.rows) = {}
      BY <2>2 DEF Range
    <2>7. Steady(n)
      <3>. SUFFICES ASSUME NEW c \in n.seen, n.seen = {c}
                    PROVE  /\ n.rows = SubSeq(c[n.month], 1, Taken(n, c[n.month]))
                           /\ ~(n.page > 1)
                           /\ \A m \in (n.month + 1) .. StartMonth : c[m] = <<>>
        BY DEF Steady
      <3>1. c = published /\ published \in Catalogues
        BY <1>2, <2>2 DEF IInv, TypeOK
      <3>2. Len(c[n.month]) \in Nat
        BY <2>4, <3>1, CataloguesAreTyped, LenProperties
      <3>3. Taken(n, c[n.month]) = 0
        BY <2>2, <3>2, ConfigAssumption DEF Taken
      <3>4. SubSeq(c[n.month], 1, 0) = <<>>
        BY SubSeqEmpty
      <3>5. \A m \in (l.month + 1) .. StartMonth : c[m] = <<>>
        BY <1>2, <2>2 DEF Steady
      <3>6. \A m \in (n.month + 1) .. StartMonth : m = l.month \/ m \in (l.month + 1) .. StartMonth
        BY <2>2
      <3>7. \A m \in (n.month + 1) .. StartMonth : c[m] = <<>>
        BY <3>1, <3>5, <3>6, <1>4
      <3>8. ~(n.page > 1)
        BY <2>2
      <3>. QED
        BY <2>2, <3>3, <3>4, <3>7, <3>8
    <2>8. req' = [req EXCEPT ![r].pc = "discover"]
      BY <1>1, <1>4 DEF ThreadState, IInv, TypeOK
    <2>9. published \in n.seen
      BY <1>2, <2>2
    <2>10. Range(n.rows) \subseteq UNION {Range(c[n.month]) : c \in n.seen}
      BY <2>6
    <2>. HIDE DEF n, l
    <2>11. FaithfulLoad(n, published, "discover")
      BY <2>2, <2>4, <2>7, <2>9, <2>10 DEF FaithfulLoad
    <2>. QED
      BY <1>1, <1>4, <2>1, <2>5, <2>8, <2>11, LoadingKeeps
  <1>5. CASE Raise(r)
    BY <1>1, <1>5, RaiseKeeps
  <1>. QED
    BY <1>3, <1>4, <1>5 DEF Discover

\* What the loader's next call makes of its load, when the page is not refused.
LEMMA CollectedFacts ==
    ASSUME IInv, NEW r \in Requests, At(r, "collect"), ~Refused(loads[req[r].svc])
    PROVE  /\ After(loads[req[r].svc]) \in LoadState
           /\ FaithfulLoad(After(loads[req[r].svc]), published, "collect")
           /\ After(loads[req[r].svc]).page > 1
  <1>. DEFINE l == loads[req[r].svc]
              a == After(l)
  <1>1. Loading(r)
    BY DEF Loading
  <1>2. /\ l \in LoadState /\ published \in Catalogues /\ clock \in 0 .. MaxClock
        /\ l.month + Lookback >= StartMonth /\ published \in l.seen /\ Steady(l)
        /\ Range(l.rows) \subseteq UNION {Range(c[l.month]) : c \in l.seen}
        /\ \A c \in l.seen : l.seen = {c} => c[l.month] # <<>>
    BY <1>1, LoaderFacts
  <1>3. ~Refused(l)
    OBVIOUS
  <1>. HIDE DEF l
  <1>4. /\ a \in LoadState
        /\ Range(a.rows) \subseteq Range(l.rows) \cup Range(published[l.month])
        /\ a.month = l.month /\ a.seen = l.seen /\ a.page = l.page + 1
    BY <1>2, CallsAreTyped
  <1>5. Steady(a)
    BY <1>2, <1>3, SteadyCalls
  <1>. HIDE DEF a
  <1>6. Range(a.rows) \subseteq UNION {Range(c[a.month]) : c \in a.seen}
    BY <1>2, <1>4
  <1>7. a.page > 1
    BY <1>2, <1>4 DEF LoadState
  <1>8. FaithfulLoad(a, published, "collect")
    BY <1>2, <1>4, <1>5, <1>6 DEF FaithfulLoad
  <1>. QED
    BY <1>4, <1>7, <1>8 DEF a, l

LEMMA PageKeeps == ASSUME IInv, NEW r \in Requests, Page(r) PROVE IInv'
  <1>. DEFINE a == After(loads[req[r].svc])
  <1>1. /\ At(r, "collect") /\ ~Refused(loads[req[r].svc])
        /\ loads' = [loads EXCEPT ![req[r].svc] = a]
        /\ UNCHANGED <<clock, published, lru, entries, lock, req>>
    BY DEF Page
  <1>2. a \in LoadState /\ FaithfulLoad(a, published, "collect")
    BY <1>1, CollectedFacts
  <1>3. req' = [req EXCEPT ![r].pc = "collect"]
    BY <1>1 DEF ThreadState, At, IInv, TypeOK
  <1>4. Loading(r)
    BY <1>1 DEF Loading
  <1>. HIDE DEF a
  <1>. QED
    BY <1>1, <1>2, <1>3, <1>4, LoadingKeeps

\* A complete, sound load makes a faithful entry.
LEMMA CompleteLoads ==
    ASSUME NEW a \in LoadState, NEW now, FaithfulLoad(a, now, "collect"), a.page > 1,
           Sound(a), NEW expires
    PROVE  Faithful([month |-> a.month, rows |-> a.rows,
                     expires |-> expires, seen |-> a.seen])
  <1>1. /\ IsInjective(a.rows) /\ Len(a.rows) = a.total
        /\ Range(a.rows) \subseteq UNION {Range(c[a.month]) : c \in a.seen}
    BY DEF Sound, FaithfulLoad
  <1>2. ASSUME NEW c \in a.seen, a.seen = {c}
        PROVE  /\ a.rows = c[a.month] /\ a.rows # <<>>
               /\ \A m \in (a.month + 1) .. StartMonth : c[m] = <<>>
    <2>. DEFINE all == c[a.month]
    <2>1. /\ a.rows = SubSeq(all, 1, Taken(a, all)) /\ a.total = Len(all)
          /\ \A m \in (a.month + 1) .. StartMonth : c[m] = <<>>
      BY <1>2 DEF FaithfulLoad, Steady
    <2>2. all # <<>>
      BY <1>2 DEF FaithfulLoad
    <2>3. a.month \in Months /\ a.page \in Nat /\ PageSize \in Nat /\ a.seen \subseteq Catalogues
      BY ConfigAssumption DEF LoadState
    <2>4. all \in Seq(Ids) /\ Len(all) \in Nat
      BY <2>3, <1>2, CataloguesAreTyped, LenProperties
    <2>5. (a.page - 1) * PageSize \in Nat
      BY <2>3
    <2>6. Taken(a, all) \in 0 .. Len(all)
      BY <2>4, <2>5 DEF Taken
    <2>. HIDE DEF all
    <2>7. Len(SubSeq(all, 1, Taken(a, all))) = Taken(a, all)
      BY <2>4, <2>6
    <2>8. Taken(a, all) = Len(all)
      BY <2>1, <2>7, <1>1
    <2>9. SubSeq(all, 1, Len(all)) = all
      BY <2>4, SubSeqFull
    <2>. QED
      BY <2>1, <2>2, <2>8, <2>9 DEF all
  <1>. QED
    BY <1>1, <1>2 DEF Faithful

LEMMA StoreKeeps == ASSUME IInv, NEW r \in Requests, Store(r) PROVE IInv'
  <1>. DEFINE s == req[r].svc
              a == After(loads[s])
              e == [month |-> a.month, rows |-> a.rows,
                    expires |-> clock + Ttl, seen |-> a.seen]
  <1>1. /\ At(r, "collect") /\ ~Refused(loads[s]) /\ Sound(a) /\ Finish(r)
        /\ entries' = [entries EXCEPT ![s] = e]
        /\ lock' = [lock EXCEPT ![s] = Free] /\ loads' = [loads EXCEPT ![s] = NoLoad]
        /\ UNCHANGED <<clock, published, lru>>
    BY DEF Store
  <1>2. Loading(r)
    BY <1>1 DEF Loading
  <1>3. s \in Requests /\ lock[s] = r /\ r # Free /\ \A t \in Requests : lock[t] = r => t = s
    BY <1>2, LoaderFacts
  <1>4. a \in LoadState /\ FaithfulLoad(a, published, "collect") /\ a.page > 1
    BY <1>1, CollectedFacts
  <1>. HIDE DEF a
  <1>5. Faithful(e)
    BY <1>1, <1>4, CompleteLoads
  <1>6. e \in EntryState
    <2>1. clock + Ttl \in 0 .. MaxClock + Ttl
      BY ConfigAssumption DEF IInv, TypeOK
    <2>2. a.month \in 0 .. StartMonth
      BY <1>4, MonthsAssumption DEF LoadState, Months
    <2>. QED
      BY <2>1, <2>2, <1>4 DEF LoadState, EntryState
  <1>7. /\ req'[r] = Idle
        /\ \A q \in Requests \ {r} : req'[q].pc = req[q].pc /\ req'[q].svc = req[q].svc
        /\ req' \in [Requests -> ThreadState]
    BY <1>1, FinishFacts DEF IInv
  <1>8. NoLoad \in LoadState
    BY NoLoadIsSteady DEF IInv, TypeOK
  <1>. HIDE DEF s, e
  <1>9. TypeOK'
    <2>1. entries' \in [Requests -> EntryState]
      BY <1>1, <1>3, <1>6 DEF IInv, TypeOK
    <2>2. loads' \in [Requests -> LoadState] /\ lock' \in [Requests -> Requests \cup {Free}]
      BY <1>1, <1>3, <1>8 DEF IInv, TypeOK
    <2>. QED
      BY <2>1, <2>2, <1>1, <1>7 DEF IInv, TypeOK
  <1>10. /\ lock'[s] = Free
         /\ \A t \in Requests : lock'[t] # Free =>
               /\ t # s /\ lock'[t] = lock[t] /\ lock[t] \in Requests \ {r}
               /\ loads'[t] = loads[t] /\ entries'[t] = entries[t]
    BY <1>1, <1>3 DEF IInv, TypeOK
  <1>11. HoldersLoad'
    BY <1>1, <1>3, <1>7, <1>10 DEF IInv, HoldersLoad, At, Loading, Idle, s
  <1>12. LockedEntriesExpired'
    BY <1>1, <1>10 DEF IInv, LockedEntriesExpired
  <1>13. LoadsAreFaithful'
    <2>. SUFFICES ASSUME NEW t \in Requests, lock'[t] # Free
                  PROVE  FaithfulLoad(loads'[t], published', req'[lock'[t]].pc)
      BY DEF LoadsAreFaithful
    <2>1. FaithfulLoad(loads[t], published, req[lock[t]].pc)
          /\ lock'[t] = lock[t] /\ loads'[t] = loads[t]
      BY <1>10 DEF IInv, LoadsAreFaithful
    <2>2. req'[lock[t]].pc = req[lock[t]].pc
      BY <1>7, <1>10
    <2>. QED
      BY <2>1, <2>2, <1>1
  <1>14. SnapshotIsFaithful'
    <2>. SUFFICES ASSUME NEW t \in Requests, entries'[t] # NoEntry
                  PROVE  Faithful(entries'[t])
      BY DEF SnapshotIsFaithful
    <2>1. CASE t = s
      BY <2>1, <1>1, <1>5 DEF IInv, TypeOK
    <2>2. CASE t # s
      BY <2>2, <1>1 DEF IInv, TypeOK, SnapshotIsFaithful
    <2>. QED
      BY <2>1, <2>2
  <1>. QED
    BY <1>9, <1>11, <1>12, <1>13, <1>14 DEF IInv

LEMMA PublishKeeps == ASSUME IInv, Publish PROVE IInv'
  <1>1. PICK c \in Catalogues \ {published} :
          /\ published' = c
          /\ loads' = [s \in Requests |->
                         IF lock[s] = Free THEN loads[s]
                         ELSE [loads[s] EXCEPT !.seen = @ \cup {c}]]
    BY DEF Publish
  <1>2. UNCHANGED <<clock, lru, entries, lock, req>>
    BY DEF Publish
  <1>3. \A s \in Requests : [loads[s] EXCEPT !.seen = @ \cup {c}] \in LoadState
    BY DEF IInv, TypeOK, LoadState
  <1>4. loads' \in [Requests -> LoadState]
    BY <1>1, <1>3 DEF IInv, TypeOK
  <1>5. TypeOK'
    BY <1>1, <1>2, <1>4 DEF IInv, TypeOK
  <1>6. HoldersLoad'
    BY <1>2 DEF IInv, HoldersLoad, At, Loading
  <1>7. LockedEntriesExpired'
    BY <1>2 DEF IInv, LockedEntriesExpired
  <1>8. SnapshotIsFaithful'
    BY <1>2 DEF IInv, SnapshotIsFaithful
  <1>9. LoadsAreFaithful'
    <2>. SUFFICES ASSUME NEW t \in Requests, lock'[t] # Free
                  PROVE  FaithfulLoad(loads'[t], published', req'[lock'[t]].pc)
      BY DEF LoadsAreFaithful
    <2>. DEFINE l == loads[t]
                n == loads'[t]
    <2>1. /\ n.seen = l.seen \cup {c} /\ n.month = l.month /\ n.page = l.page /\ n.rows = l.rows
      BY <1>1, <1>2 DEF IInv, TypeOK, LoadState
    <2>2. FaithfulLoad(l, published, req[lock[t]].pc)
      BY <1>2 DEF IInv, LoadsAreFaithful
    <2>3. \A d : n.seen # {d}
      BY <2>1, <2>2 DEF FaithfulLoad
    <2>4. Steady(n)
      BY <2>3 DEF Steady
    <2>5. lock' = lock /\ req' = req /\ published' = c
      BY <1>1, <1>2
    <2>. HIDE DEF l, n
    <2>6. Range(n.rows) \subseteq UNION {Range(d[n.month]) : d \in n.seen}
      BY <2>1, <2>2 DEF FaithfulLoad
    <2>7. FaithfulLoad(n, c, req[lock[t]].pc)
      BY <2>1, <2>2, <2>3, <2>4, <2>6 DEF FaithfulLoad
    <2>. QED
      BY <2>5, <2>7 DEF n
  <1>. QED
    BY <1>5, <1>6, <1>7, <1>8, <1>9 DEF IInv

LEMMA TickKeeps == ASSUME IInv, Tick PROVE IInv'
  <1>1. clock' = clock + 1 /\ clock < MaxClock /\ clock \in 0 .. MaxClock
    BY DEF Tick, IInv, TypeOK
  <1>2. UNCHANGED <<published, lru, entries, lock, loads, req>>
    BY DEF Tick
  <1>3. clock' \in 0 .. MaxClock
    BY <1>1, ConfigAssumption
  <1>4. TypeOK'
    BY <1>2, <1>3 DEF IInv, TypeOK
  <1>5. LockedEntriesExpired'
    <2>1. \A s \in Requests : entries[s].expires \in 0 .. MaxClock + Ttl
      BY DEF IInv, TypeOK, EntryState
    <2>. QED
      BY <1>1, <1>2, <2>1, ConfigAssumption DEF IInv, LockedEntriesExpired
  <1>6. HoldersLoad' /\ LoadsAreFaithful' /\ SnapshotIsFaithful'
    BY <1>2 DEF IInv, HoldersLoad, At, Loading, LoadsAreFaithful, SnapshotIsFaithful
  <1>. QED
    BY <1>4, <1>5, <1>6 DEF IInv

LEMMA IInvStep == ASSUME IInv, [Next]_vars PROVE IInv'
  <1>1. CASE UNCHANGED vars
    BY <1>1 DEF vars, IInv, TypeOK, HoldersLoad, At, Loading, LockedEntriesExpired,
                LoadsAreFaithful, SnapshotIsFaithful
  <1>2. ASSUME NEW r \in Requests, Serve(r) PROVE IInv'
    <2>1. CASE Reject(r)
      BY <2>1, RaiseKeeps DEF Reject, Loading
    <2>2. CASE ProviderFails(r)
      BY <2>2, RaiseKeeps DEF ProviderFails
    <2>. QED
      BY <1>2, <2>1, <2>2, ArriveKeeps, BuildKeeps, HitKeeps, MissKeeps, DiscoverKeeps,
         PageKeeps, StoreKeeps DEF Serve, Load
  <1>. QED
    BY <1>1, <1>2, PublishKeeps, TickKeeps DEF Next

-----------------------------------------------------------------------------
(* The theorems.                                                            *)

\* The variables keep their types; in particular the search for the latest
\* month never leaves the lookback window.
THEOREM TypeCorrect == Spec => []TypeOK
  <1>1. IInv => TypeOK
    BY DEF IInv
  <1>. QED
    BY IInvInit, IInvStep, <1>1, PTL DEF Spec

\* Every snapshot the service of product_catalog_snapshot.py keeps is the
\* provider's: complete, without duplicates, of the latest month, unless the
\* provider published something else while it was being collected.
THEOREM SnapshotsAreAlwaysFaithful == Spec => []SnapshotIsFaithful
  <1>1. IInv => SnapshotIsFaithful
    BY DEF IInv
  <1>. QED
    BY IInvInit, IInvStep, <1>1, PTL DEF Spec

\* However many threads miss a snapshot of one service together, one of them is
\* in the loader: whoever is there holds the service's lock.
THEOREM OneRefreshPerServiceAlways == Spec => []OneRefreshPerService
  <1>1. IInv => OneRefreshPerService
    <2>. SUFFICES ASSUME IInv, NEW q \in Requests, NEW r \in Requests,
                         Loading(q), Loading(r), req[q].svc = req[r].svc
                  PROVE  q = r
      BY DEF OneRefreshPerService
    <2>1. lock[req[q].svc] = q /\ lock[req[r].svc] = r
      BY DEF IInv, HoldersLoad
    <2>. QED
      BY <2>1
  <1>. QED
    BY IInvInit, IInvStep, <1>1, PTL DEF Spec

\* get_or_load() replaces no snapshot that has not expired.
THEOREM OnlyExpiredSnapshotsAreReplaced == Spec => RefreshOnlyWhenExpired
  <1>1. ASSUME IInv, [Next]_vars
        PROVE  [\A s \in Requests : entries'[s] # entries[s] => clock >= entries[s].expires]_vars
    <2>1. ASSUME NEW r \in Requests, Store(r), NEW s \in Requests, entries'[s] # entries[s]
          PROVE  clock >= entries[s].expires
      <3>1. Loading(r)
        BY <2>1 DEF Store, Loading
      <3>2. s = req[r].svc
        BY <1>1, <2>1 DEF Store, IInv, TypeOK
      <3>. QED
        BY <1>1, <3>1, <3>2, LoaderFacts
    <2>2. CASE \E r \in Requests : Store(r)
      BY <2>1, <2>2
    <2>3. CASE ~\E r \in Requests : Store(r)
      <3>1. entries' = entries
        BY <1>1, <2>3 DEF Next, Serve, Load, Arrive, Build, Hit, Miss, Discover, Page, Reject,
           ProviderFails, Raise, Publish, Tick, vars
      <3>. QED
        BY <3>1
    <2>. QED
      BY <2>2, <2>3
  <1>. QED
    BY IInvInit, IInvStep, <1>1, PTL DEF Spec, RefreshOnlyWhenExpired

-----------------------------------------------------------------------------
(* Why a request is answered, as far as safety goes: who waits, waits for a *)
(* thread that loads, and a load comes to its end after a number of calls   *)
(* that is known from its first page on.  That the thread goes on, and that *)
(* it is the waiter's turn at last, is fairness.                            *)

\* Each call of collecting brings a product at least, or is the last one.
Bounded(l) ==
    /\ l.page <= Len(l.rows) + 1
    /\ l.page > 1 => Len(l.rows) < l.total
LoadsAreBounded == \A s \in Requests : Bounded(loads[s])

LEMMA BeginningIsBounded ==
    ASSUME NEW l \in LoadState, NEW m, NEW c
    PROVE  /\ Bounded(Begin(c))
           /\ Bounded(l) => Bounded([l EXCEPT !.month = m]) /\ Bounded([l EXCEPT !.seen = c])
  <1>1. Len(<<>>) = 0
    OBVIOUS
  <1>. QED
    BY <1>1 DEF Bounded, Begin, LoadState

LEMMA PagesAreBounded ==
    ASSUME NEW l \in LoadState, published \in Catalogues, clock \in 0 .. MaxClock,
           Bounded(l), ~Refused(l), ~Done(After(l))
    PROVE  Bounded(After(l))
  <1>. DEFINE a == After(l)
  <1>1. /\ l.rows \in Seq(Ids) /\ Rows(l) \in Seq(Ids) /\ a \in LoadState
        /\ a.page = l.page + 1 /\ a.rows = l.rows \o Rows(l)
    BY CallsAreTyped DEF LoadState
  <1>2. /\ Len(l.rows) \in Nat /\ Len(Rows(l)) \in Nat /\ l.page \in Nat
        /\ Len(a.rows) = Len(l.rows) + Len(Rows(l)) /\ a.total \in Nat
    BY <1>1, ConcatProperties, LenProperties DEF LoadState
  <1>3. Len(a.rows) < a.total
    BY <1>2 DEF Done
  <1>4. Len(Rows(l)) # 0
    <2>1. Len(l.rows) < a.total
      BY <1>2, <1>3
    <2>2. Rows(l) # <<>>
      BY <2>1 DEF Refused
    <2>. QED
      BY <1>1, <2>2, EmptySeq
  <1>5. l.page <= Len(l.rows) + 1
    BY DEF Bounded
  <1>6. a.page <= Len(a.rows) + 1
    BY <1>1, <1>2, <1>4, <1>5
  <1>. QED
    BY <1>3, <1>6 DEF Bounded

LEMMA LoadsStayBounded == ASSUME IInv, LoadsAreBounded, [Next]_vars PROVE LoadsAreBounded'
  <1>0. loads \in [Requests -> LoadState] /\ published \in Catalogues /\ clock \in 0 .. MaxClock
    BY DEF IInv, TypeOK
  <1>1. ASSUME NEW s, NEW l, loads' = [loads EXCEPT ![s] = l], Bounded(l)
        PROVE  LoadsAreBounded'
    BY <1>0, <1>1 DEF LoadsAreBounded, Bounded
  <1>2. CASE UNCHANGED loads
    BY <1>2 DEF LoadsAreBounded, Bounded
  <1>3. ASSUME NEW r \in Requests, Raise(r) PROVE LoadsAreBounded'
    <2>1. Bounded(NoLoad)
      BY BeginningIsBounded, <1>0 DEF NoLoad
    <2>. QED
      BY <1>1, <1>3, <2>1 DEF Raise
  <1>4. ASSUME NEW r \in Requests, Serve(r) PROVE LoadsAreBounded'
    <2>. DEFINE s == req[r].svc
    <2>1. Bounded(NoLoad) /\ Bounded(Begin({published}))
      BY BeginningIsBounded, <1>0 DEF NoLoad
    <2>2. CASE Miss(r) \/ Store(r)
      BY <1>1, <2>1, <2>2 DEF Miss, Store
    <2>3. ASSUME Loading(r) PROVE s \in Requests /\ loads[s] \in LoadState /\ Bounded(loads[s])
      BY <1>0, <2>3 DEF IInv, HoldersLoad, Loading, At, LoadsAreBounded
    <2>4. CASE Discover(r)
      <3>1. Loading(r)
        BY <2>4 DEF Discover, Loading
      <3>2. Bounded([loads[s] EXCEPT !.month = loads[s].month - 1])
        BY <2>3, <3>1, BeginningIsBounded
      <3>3. CASE Raise(r)
        BY <1>3, <3>3
      <3>4. CASE loads' = [loads EXCEPT ![s].month = loads[s].month - 1]
        <4>1. loads' = [loads EXCEPT ![s] = [loads[s] EXCEPT !.month = loads[s].month - 1]]
          BY <3>4
        <4>. QED
          BY <1>1, <3>2, <4>1
      <3>. QED
        BY <1>2, <2>4, <3>3, <3>4 DEF Discover
    <2>5. CASE Page(r)
      <3>1. Loading(r)
        BY <2>5 DEF Page, Loading
      <3>2. Bounded(After(loads[s]))
        BY <1>0, <2>3, <2>5, <3>1, PagesAreBounded DEF Page
      <3>. QED
        BY <1>1, <2>5, <3>2 DEF Page
    <2>6. CASE Reject(r) \/ ProviderFails(r)
      BY <1>3, <2>6 DEF Reject, ProviderFails
    <2>7. CASE Arrive(r) \/ Build(r) \/ Hit(r)
      BY <1>2, <2>7 DEF Arrive, Build, Hit
    <2>. QED
      BY <1>4, <2>2, <2>4, <2>5, <2>6, <2>7 DEF Serve, Load
  <1>5. CASE Publish
    <2>1. PICK c \in Catalogues : loads' = [s \in Requests |->
             IF lock[s] = Free THEN loads[s] ELSE [loads[s] EXCEPT !.seen = @ \cup {c}]]
      BY <1>5 DEF Publish
    <2>. SUFFICES ASSUME NEW s \in Requests PROVE Bounded(loads[s])'
      BY DEF LoadsAreBounded
    <2>2. Bounded(loads[s]) /\ loads[s] \in LoadState
      BY <1>0 DEF LoadsAreBounded
    <2>3. Bounded([loads[s] EXCEPT !.seen = loads[s].seen \cup {c}])
      BY <2>2, BeginningIsBounded
    <2>4. loads'[s] = loads[s] \/ loads'[s] = [loads[s] EXCEPT !.seen = loads[s].seen \cup {c}]
      BY <2>1
    <2>5. Bounded(loads'[s])
      BY <2>2, <2>3, <2>4
    <2>. QED
      BY <2>5 DEF Bounded
  <1>. QED
    BY <1>2, <1>4, <1>5 DEF Next, Tick, vars

\* A lock that is held is held by a thread that is loading for that service:
\* nobody waits for a thread that waits itself, or that has gone.
THEOREM WaitersWaitForLoaders == Spec => []HoldersLoad
  <1>1. IInv => HoldersLoad
    BY DEF IInv
  <1>. QED
    BY IInvInit, IInvStep, <1>1, PTL DEF Spec

\* A load makes no more calls than there are months to look back and products
\* on its first page's count, whatever the provider publishes meanwhile.
THEOREM LoadsEnd ==
    Spec => [](\A s \in Requests :
                  LET l == loads[s] IN
                  /\ l.month \in Months
                  /\ lock[s] # Free => l.month + Lookback >= StartMonth
                  /\ l.page > 1 => l.page <= l.total)
  <1>. DEFINE Ends == \A s \in Requests :
                  LET l == loads[s] IN
                  /\ l.month \in Months
                  /\ lock[s] # Free => l.month + Lookback >= StartMonth
                  /\ l.page > 1 => l.page <= l.total
  <1>1. Init => LoadsAreBounded
    <2>. SUFFICES ASSUME Init PROVE LoadsAreBounded
      OBVIOUS
    <2>1. NoLoad \in LoadState
      BY NoLoadIsSteady DEF Init
    <2>. QED
      BY <2>1, BeginningIsBounded DEF Init, LoadsAreBounded, NoLoad
  <1>2. IInv /\ LoadsAreBounded => Ends
    <2>. SUFFICES ASSUME IInv, LoadsAreBounded, NEW s \in Requests
                  PROVE  LET l == loads[s] IN
                         /\ l.month \in Months
                         /\ lock[s] # Free => l.month + Lookback >= StartMonth
                         /\ l.page > 1 => l.page <= l.total
      OBVIOUS
    <2>1. loads[s] \in LoadState /\ Bounded(loads[s])
      BY DEF IInv, TypeOK, LoadsAreBounded
    <2>2. /\ loads[s].month \in Months /\ loads[s].page \in Nat
          /\ loads[s].total \in Nat /\ Len(loads[s].rows) \in Nat
      BY <2>1, LenProperties DEF LoadState
    <2>3. lock[s] # Free => loads[s].month + Lookback >= StartMonth
      BY DEF IInv, LoadsAreFaithful, FaithfulLoad
    <2>. QED
      BY <2>1, <2>2, <2>3 DEF Bounded
  <1>3. Spec => [](IInv /\ LoadsAreBounded)
    BY IInvInit, IInvStep, <1>1, LoadsStayBounded, PTL DEF Spec
  <1>4. Spec => []Ends
    BY <1>2, <1>3, PTL
  <1>. QED
    BY <1>4
=============================================================================
