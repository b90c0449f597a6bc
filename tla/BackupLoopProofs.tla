--------------------------- MODULE BackupLoopProofs ---------------------------
(***************************************************************************)
(* Proofs about BackupLoop, for every configuration the script accepts and  *)
(* any number of runs and restarts.                                         *)
(***************************************************************************)
EXTENDS BackupLoop, FiniteSetTheorems, WellFoundedInduction, NaturalsInduction, TLAPS

Running == {"dump", "verify", "move", "rotate", "mark"}

(***************************************************************************)
(* Time.  A run is given MaxRun, a sleep ends when it is due, and while a   *)
(* heartbeat stands every wait is counted from it.                          *)
(***************************************************************************)
RunsAreBounded ==
    /\ loop.pc \in Running => loop.started <= clock /\ clock <= loop.started + MaxRun
    /\ loop.pc \in Running => loop.started \in 1 .. MaxClock
    /\ loop.pc = "sleep" => clock <= loop.wake
    /\ heartbeat <= clock
    /\ loop.pc \in Running => heartbeat <= loop.started

\* When the next attempt begins, at the latest.
Due == heartbeat + Interval + (IF failures = 0 THEN 0 ELSE MaxRun + Retry)

AttemptsAreDue ==
    ~unnoticed /\ heartbeat # NoBeat /\ failures <= 1 =>
        /\ loop.pc = "sleep" => loop.wake <= Due
        /\ loop.pc = "start" => clock <= Due
        /\ loop.pc \in Running => loop.started <= Due

(***************************************************************************)
(* Dumps.  The newest dump is the one of the run that made it; it is there  *)
(* before the heartbeat is written and rotation never removes it.           *)
(***************************************************************************)
DumpsArePast ==
    /\ \A d \in dumps : d <= clock
    /\ loop.pc \in Running => \A d \in dumps : d <= loop.started

NewDumpIsThere ==
    ~unnoticed /\ loop.pc \in {"rotate", "mark"} => loop.started \in dumps

HeartbeatHasDump ==
    ~unnoticed /\ heartbeat # NoBeat => \E d \in dumps : heartbeat <= d + MaxRun

OnlyReadableDumpsMove ==
    /\ broken = {}
    /\ loop.pc = "move" => loop.readable

IInv ==
    /\ TypeOK
    /\ RunsAreBounded
    /\ AttemptsAreDue
    /\ DumpsArePast
    /\ NewDumpIsThere
    /\ HeartbeatHasDump
    /\ OnlyReadableDumpsMove

Times == /\ Interval \in Nat /\ Retry \in Nat /\ Slack \in Nat /\ MaxRun \in Nat
         /\ MaxClock \in Nat /\ Keep \in Nat /\ Keep >= 1
LEMMA TimesAreNumbers == Times
  BY ConfigAssumption DEF Times

-----------------------------------------------------------------------------
(* Rotation.                                                                *)

LEMMA NewestIsNotStale ==
    ASSUME NEW d \in dumps, \A e \in dumps : e <= d, d \in Nat, dumps \subseteq Nat
    PROVE  d \notin Stale
<1>1. {e \in dumps : e > d} = {}
  <2> SUFFICES ASSUME NEW e \in dumps PROVE ~(e > d)
    OBVIOUS
  <2>1. e \in Nat /\ e <= d
    OBVIOUS
  <2> QED BY <2>1
<1>2. Cardinality({e \in dumps : e > d}) = 0
  BY <1>1, FS_EmptySet
<1> QED BY <1>2, TimesAreNumbers DEF Stale, Times

\* A nonempty set of times that has a bound has a latest one.
LEMMA LatestExists ==
    ASSUME NEW T, T \subseteq 1 .. MaxClock, T # {}
    PROVE  \E m \in T : \A d \in T : d <= m
<1> DEFINE S == {MaxClock - d : d \in T}
<1>1. MaxClock \in Nat
  BY TimesAreNumbers DEF Times
<1>2. S \subseteq Nat /\ S # {}
  <2>1. S # {}
    OBVIOUS
  <2>2. \A d \in T : MaxClock - d \in Nat
    BY <1>1
  <2> QED BY <2>1, <2>2
<1>3. PICK n \in S : \A x \in S : ~(<<x, n>> \in OpToRel(<, Nat))
  BY <1>2, WFMin, NatLessThanWellFounded
<1>4. \A x \in S : n <= x
  <2> SUFFICES ASSUME NEW x \in S PROVE n <= x
    OBVIOUS
  <2>1. x \in Nat /\ n \in Nat
    BY <1>2
  <2>2. x < n => <<x, n>> \in OpToRel(<, Nat)
    BY <2>1, Zenon DEF OpToRel
  <2>3. ~(x < n)
    BY <1>3, <2>2, Zenon
  <2> QED BY <2>1, <2>3
<1>5. PICK m \in T : n = MaxClock - m
  BY <1>3
<1>6. \A d \in T : MaxClock - m <= MaxClock - d
  BY <1>4, <1>5
<1> QED BY <1>1, <1>6

\* Whatever part of the stale dumps is removed, each of them leaves KEEP newer
\* ones behind.
LEMMA RotationIsSafe ==
    ASSUME dumps \subseteq 1 .. MaxClock, NEW gone \in SUBSET Stale,
           NEW d \in gone
    PROVE  Cardinality({e \in dumps \ gone : e > d}) >= Keep
<1>1. MaxClock \in Nat
  BY TimesAreNumbers DEF Times
<1>2. Stale \subseteq dumps
  BY DEF Stale
<1>3. PICK m \in Stale : \A x \in Stale : x <= m
  BY <1>2, LatestExists
<1> DEFINE Newer == {e \in dumps : e > m}
           Left == {e \in dumps \ gone : e > d}
<1>4. IsFiniteSet(Left)
  <2>1. IsFiniteSet(1 .. MaxClock)
    BY <1>1, FS_Interval
  <2>2. Left \subseteq 1 .. MaxClock
    OBVIOUS
  <2> QED BY <2>1, <2>2, FS_Subset
<1>5. Newer \subseteq Left
  <2> SUFFICES ASSUME NEW e \in dumps, e > m PROVE e \in Left
    OBVIOUS
  <2>1. e \in 1 .. MaxClock /\ m \in 1 .. MaxClock /\ d \in 1 .. MaxClock
    BY <1>2
  <2>2. e \notin Stale
    BY <1>3, <2>1
  <2>3. d <= m
    BY <1>3
  <2>4. e > d
    BY <2>1, <2>3
  <2> QED BY <2>2, <2>4
<1>6. Cardinality(Newer) <= Cardinality(Left)
  BY <1>4, <1>5, FS_Subset
<1>7. Cardinality(Newer) >= Keep
  BY DEF Stale
<1>8. Cardinality(Newer) \in Nat /\ Cardinality(Left) \in Nat /\ Keep \in Nat
  <2>1. IsFiniteSet(Newer)
    BY <1>4, <1>5, FS_Subset
  <2> QED BY <1>4, <2>1, FS_CardinalityType, TimesAreNumbers DEF Times
<1> QED BY <1>6, <1>7, <1>8

-----------------------------------------------------------------------------
(* What a step of the script changes.                                        *)

LoopState == [pc : Pcs, started : 0 .. MaxClock, wake : 0 .. MaxClock + Interval,
              readable : BOOLEAN]

LEMMA Typed ==
    ASSUME TypeOK
    PROVE  /\ clock \in Nat /\ clock >= 1 /\ clock <= MaxClock
           /\ heartbeat \in Nat /\ failures \in 0 .. 2
           /\ loop.pc \in Pcs /\ loop.started \in Nat /\ loop.started <= MaxClock
           /\ loop.wake \in Nat
           /\ dumps \subseteq Nat
  BY TimesAreNumbers DEF TypeOK, Times

LEMMA GotoLoop ==
    ASSUME TypeOK, NEW pc \in Pcs, Goto(pc)
    PROVE  /\ loop' \in LoopState
           /\ loop'.pc = pc /\ loop'.started = loop.started /\ loop'.wake = loop.wake
           /\ loop'.readable = loop.readable
  BY DEF Goto, TypeOK, LoopState

LEMMA SleepLoop ==
    ASSUME TypeOK, NEW ok \in BOOLEAN, Sleep(ok)
    PROVE  /\ loop' \in LoopState
           /\ loop'.pc = "sleep" /\ loop'.started = loop.started
           /\ loop'.wake = clock + (IF ok THEN Interval ELSE Retry)
           /\ loop'.readable = loop.readable
<1> DEFINE w == clock + (IF ok THEN Interval ELSE Retry)
<1>1. Retry \in 0 .. Interval
  BY ConfigAssumption
<1>2. w \in 0 .. MaxClock + Interval
  BY <1>1, Typed, TimesAreNumbers DEF Times
<1>3. loop' = [loop EXCEPT !.pc = "sleep", !.wake = w]
  BY DEF Sleep, SleepAfter
<1>4. loop \in LoopState
  BY DEF TypeOK, LoopState
<1> QED BY <1>2, <1>3, <1>4 DEF LoopState, Pcs

LEMMA BeginLoop ==
    ASSUME TypeOK, Begin
    PROVE  /\ loop' \in LoopState
           /\ loop'.pc = "dump" /\ loop'.started = clock
           /\ loop'.wake = loop.wake
<1>1. clock \in 0 .. MaxClock
  BY Typed
<1>2. loop \in LoopState /\ loop' = [loop EXCEPT !.pc = "dump", !.started = clock]
  BY DEF Begin, TypeOK, LoopState
<1> QED BY <1>1, <1>2 DEF LoopState, Pcs

LEMMA DumpLoop ==
    ASSUME TypeOK, Dump
    PROVE  /\ loop' \in LoopState
           /\ loop'.pc = "verify" /\ loop'.started = loop.started /\ loop'.wake = loop.wake
<1>1. PICK readable \in BOOLEAN : loop' = [loop EXCEPT !.pc = "verify", !.readable = readable]
  BY DEF Dump
<1>2. loop \in LoopState
  BY DEF TypeOK, LoopState
<1> QED BY <1>1, <1>2 DEF LoopState, Pcs

\* The ways the script moves on inside a run, with the same started and wake.
LEMMA StepInRun ==
    ASSUME TypeOK, Dump \/ Verify \/ Move \/ Rotate
    PROVE  /\ loop' \in LoopState
           /\ loop.pc \in Running /\ loop'.pc \in Running
           /\ loop'.started = loop.started
           /\ UNCHANGED <<clock, heartbeat, failures>>
           /\ ~unnoticed' => ~unnoticed
<1>1. CASE Dump
  BY <1>1, DumpLoop DEF Dump, At, Running
<1>2. CASE Verify
  BY <1>2, GotoLoop DEF Verify, At, Running, Pcs
<1>3. CASE Move
  BY <1>3, GotoLoop DEF Move, At, Running, Pcs
<1>4. CASE Rotate
  BY <1>4, GotoLoop DEF Rotate, At, Running, Pcs
<1> QED BY <1>1, <1>2, <1>3, <1>4

\* The ways a run fails.
LEMMA FailedRun ==
    ASSUME TypeOK, DumpFails \/ VerifyFails
    PROVE  /\ loop' \in LoopState
           /\ loop.pc \in Running /\ loop'.pc = "sleep"
           /\ loop'.started = loop.started
           /\ loop'.wake = clock + Retry
           /\ failures' = IF failures < 2 THEN failures + 1 ELSE 2
           /\ UNCHANGED <<clock, heartbeat, dumps, broken, unnoticed>>
           /\ partial' \in SUBSET partial
  BY SleepLoop DEF DumpFails, VerifyFails, Discard, Fail, At, Running

LEMMA MarkLoop ==
    ASSUME TypeOK, Mark
    PROVE  /\ loop' \in LoopState
           /\ loop.pc = "mark" /\ loop'.pc = "sleep"
           /\ loop'.started = loop.started
           /\ loop'.wake = clock + Interval
           /\ failures' = 0
           /\ heartbeat' \in {clock, heartbeat, NoBeat}
           /\ unnoticed' \in BOOLEAN
           /\ ~unnoticed' => heartbeat' = clock /\ loop.started \in dumps
           /\ UNCHANGED <<clock, dumps, partial, broken>>
  BY SleepLoop DEF Mark, At

LEMMA WakeLoop ==
    ASSUME TypeOK, Wake
    PROVE  /\ loop' \in LoopState
           /\ loop.pc = "sleep" /\ loop'.pc = "start"
           /\ loop'.started = loop.started
           /\ UNCHANGED <<clock, dumps, partial, heartbeat, broken, failures, unnoticed>>
  BY GotoLoop DEF Wake, At, Pcs

LEMMA RestartLoop ==
    ASSUME TypeOK, Restart
    PROVE  /\ loop' \in LoopState
           /\ loop'.pc = "start"
           /\ loop'.started = loop.started
           /\ heartbeat' = NoBeat /\ failures' = 0 /\ unnoticed' = FALSE
           /\ dumps' \subseteq dumps
           /\ UNCHANGED <<clock, partial, broken>>
<1>1. loop \in LoopState /\ loop' = [loop EXCEPT !.pc = "start"]
  BY DEF Restart, TypeOK, LoopState
<1>2. dumps' \subseteq dumps
  BY DEF Restart
<1> QED BY <1>1, <1>2 DEF Restart, LoopState, Pcs

-----------------------------------------------------------------------------
(* Each part of the invariant is kept.                                       *)

LEMMA TypeKeeps ==
    ASSUME IInv, Next
    PROVE  TypeOK'
<1>1. TypeOK /\ RunsAreBounded
  BY DEF IInv
<1>2. loop.pc \in Running => loop.started \in 1 .. MaxClock
  BY <1>1 DEF RunsAreBounded
<1>3. clock \in 1 .. MaxClock
  BY <1>1 DEF TypeOK
<1>4. 0 \in 0 .. MaxClock /\ 0 \in 0 .. 2 /\ clock \in 0 .. MaxClock
  BY <1>1, Typed, TimesAreNumbers DEF Times
<1>5. CASE Begin
  BY <1>1, <1>3, <1>5, BeginLoop DEF Begin, TypeOK, LoopState
<1>6. CASE Dump
  BY <1>1, <1>6, DumpLoop DEF Dump, TypeOK, LoopState
<1>7. CASE Verify
  BY <1>1, <1>7, GotoLoop DEF Verify, TypeOK, LoopState, Pcs
<1>8. CASE Move
  <2>1. loop' \in LoopState
    BY <1>1, <1>8, StepInRun
  <2>2. loop.started \in 1 .. MaxClock
    BY <1>2, <1>8 DEF Move, At, Running
  <2>3. dumps' \subseteq 1 .. MaxClock /\ partial' \subseteq 1 .. MaxClock
        /\ broken' \subseteq 1 .. MaxClock
    BY <1>1, <1>8, <2>2 DEF Move, TypeOK
  <2> QED BY <1>1, <1>8, <2>1, <2>3 DEF Move, TypeOK, LoopState
<1>9. CASE Rotate
  <2>1. loop' \in LoopState
    BY <1>1, <1>9, StepInRun
  <2>2. dumps' \subseteq dumps
    BY <1>9 DEF Rotate
  <2> QED BY <1>1, <1>9, <2>1, <2>2 DEF Rotate, TypeOK, LoopState
<1>10. CASE Mark
  BY <1>1, <1>4, <1>10, MarkLoop DEF TypeOK, LoopState, NoBeat
<1>11. CASE DumpFails \/ VerifyFails
  <2>1. failures' \in 0 .. 2
    BY <1>1, <1>11, FailedRun DEF TypeOK
  <2> QED BY <1>1, <1>11, <2>1, FailedRun DEF TypeOK, LoopState
<1>12. CASE Wake
  BY <1>1, <1>12, WakeLoop DEF TypeOK, LoopState
<1>13. CASE Restart
  BY <1>1, <1>4, <1>13, RestartLoop DEF TypeOK, LoopState, NoBeat
<1>14. CASE Tick
  <2>1. clock' \in 1 .. MaxClock
    BY <1>1, <1>14, Typed, TimesAreNumbers DEF Tick, Times
  <2> QED BY <1>1, <1>14, <2>1 DEF Tick, TypeOK
<1> QED BY <1>5, <1>6, <1>7, <1>8, <1>9, <1>10, <1>11, <1>12, <1>13, <1>14 DEF Next, Run

LEMMA TimeKeeps ==
    ASSUME IInv, Next
    PROVE  RunsAreBounded' /\ AttemptsAreDue'
<1>1. TypeOK /\ RunsAreBounded /\ AttemptsAreDue
  BY DEF IInv
<1>2. Times /\ TypeOK'
  BY TimesAreNumbers, TypeKeeps
<1>3. CASE Begin
  <2>1. loop.pc = "start" /\ UNCHANGED <<clock, heartbeat, failures, unnoticed>>
    BY <1>3 DEF Begin, At
  <2>2. RunsAreBounded'
    BY <1>1, <1>2, <1>3, <2>1, BeginLoop, Typed DEF RunsAreBounded, Running, Times, TypeOK
  <2>3. AttemptsAreDue'
    BY <1>1, <1>3, <2>1, BeginLoop DEF AttemptsAreDue, Due, Running, NoBeat
  <2> QED BY <2>2, <2>3
<1>4. CASE Dump \/ Verify \/ Move \/ Rotate
  <2>1. RunsAreBounded'
    BY <1>1, <1>4, StepInRun DEF RunsAreBounded, Running
  <2>2. AttemptsAreDue'
    BY <1>1, <1>4, StepInRun DEF AttemptsAreDue, Due, Running
  <2> QED BY <2>1, <2>2
<1>5. CASE DumpFails \/ VerifyFails
  <2>1. RunsAreBounded'
    BY <1>1, <1>2, <1>5, FailedRun, Typed DEF RunsAreBounded, Running, Times
  <2>2. AttemptsAreDue'
    <3> SUFFICES ASSUME ~unnoticed, heartbeat # NoBeat, failures' <= 1
                 PROVE  loop'.wake <= Due'
      BY <1>5, <1>1, FailedRun DEF AttemptsAreDue, Running
    <3>1. failures = 0 /\ failures' = 1
      BY <1>1, <1>5, FailedRun, Typed
    <3>2. loop.started <= heartbeat + Interval
      BY <1>1, <1>2, <1>5, <3>1, FailedRun, Typed DEF AttemptsAreDue, Due, Times
    <3>3. clock <= loop.started + MaxRun
      BY <1>1, <1>5, FailedRun DEF RunsAreBounded
    <3>4. loop'.wake = clock + Retry /\ Due' = heartbeat + Interval + (MaxRun + Retry)
      BY <1>1, <1>5, <3>1, FailedRun DEF Due
    <3> QED BY <1>1, <1>2, <3>2, <3>3, <3>4, Typed DEF Times
  <2> QED BY <2>1, <2>2
<1>6. CASE Mark
  <2>1. RunsAreBounded'
    BY <1>1, <1>2, <1>6, MarkLoop, Typed DEF RunsAreBounded, Running, Times, NoBeat
  <2>2. AttemptsAreDue'
    <3> SUFFICES ASSUME ~unnoticed' PROVE loop'.wake <= Due'
      BY <1>1, <1>6, MarkLoop DEF AttemptsAreDue, Running
    <3>1. Due' = clock + Interval + 0 /\ loop'.wake = clock + Interval
      BY <1>1, <1>6, MarkLoop DEF Due
    <3> QED BY <1>1, <1>2, <3>1, Typed DEF Times
  <2> QED BY <2>1, <2>2
<1>7. CASE Wake
  <2>1. RunsAreBounded'
    BY <1>1, <1>7, WakeLoop DEF RunsAreBounded, Running
  <2>2. clock <= loop.wake
    BY <1>1, <1>7, WakeLoop DEF RunsAreBounded
  <2>3. AttemptsAreDue'
    <3> SUFFICES ASSUME ~unnoticed, heartbeat # NoBeat, failures <= 1 PROVE clock <= Due
      BY <1>1, <1>7, WakeLoop DEF AttemptsAreDue, Due, Running
    <3>1. loop.wake <= Due
      BY <1>1, <1>7, WakeLoop DEF AttemptsAreDue
    <3>2. Due \in Nat
      BY <1>1, <1>2, Typed DEF Due, Times
    <3> QED BY <1>1, <2>2, <3>1, <3>2, Typed
  <2> QED BY <2>1, <2>3
<1>8. CASE Restart
  BY <1>1, <1>8, RestartLoop, Typed DEF RunsAreBounded, AttemptsAreDue, Running, NoBeat
<1>9. CASE Tick
  <2>1. clock' = clock + 1 /\ UNCHANGED <<loop, heartbeat, failures, unnoticed>> /\ ~Urgent
    BY <1>9 DEF Tick
  <2>2. loop.pc # "start"
    BY <2>1 DEF Urgent, At
  <2>3. loop.pc = "sleep" => clock < loop.wake
    BY <1>1, <2>1, Typed DEF Urgent, At
  <2>4. loop.pc \in Running => clock < loop.started + MaxRun
    BY <1>1, <1>2, <2>1, Typed DEF Urgent, At, Running, Times
  <2>5. RunsAreBounded'
    BY <1>1, <1>2, <2>1, <2>3, <2>4, Typed DEF RunsAreBounded, Times
  <2>6. AttemptsAreDue'
    BY <1>1, <2>1, <2>2 DEF AttemptsAreDue, Due
  <2> QED BY <2>5, <2>6
<1> QED BY <1>3, <1>4, <1>5, <1>6, <1>7, <1>8, <1>9 DEF Next, Run

LEMMA DumpsKeep ==
    ASSUME IInv, Next
    PROVE  DumpsArePast' /\ NewDumpIsThere' /\ HeartbeatHasDump'
<1>1. TypeOK /\ RunsAreBounded /\ DumpsArePast /\ NewDumpIsThere /\ HeartbeatHasDump
  BY DEF IInv
<1>2. Times
  BY TimesAreNumbers
<1>3. CASE Begin
  <2>1. loop.pc = "start" /\ UNCHANGED <<clock, heartbeat, dumps, unnoticed>>
    BY <1>3 DEF Begin, At
  <2> QED BY <1>1, <1>3, <2>1, BeginLoop DEF DumpsArePast, NewDumpIsThere, HeartbeatHasDump, Running
<1>4. CASE Dump \/ Verify
  <2>1. UNCHANGED dumps /\ loop'.pc \in {"verify", "move"}
    BY <1>1, <1>4, DumpLoop, GotoLoop DEF Dump, Verify, Pcs
  <2> QED BY <1>1, <1>4, <2>1, StepInRun DEF DumpsArePast, NewDumpIsThere, HeartbeatHasDump, Running
<1>5. CASE Move
  <2>1. \/ dumps' = dumps \cup {loop.started}
        \/ unnoticed' = TRUE /\ dumps' = dumps
    BY <1>5 DEF Move
  <2>2. loop.started <= clock /\ loop.started \in Nat
    BY <1>1, <1>5, StepInRun, Typed DEF RunsAreBounded
  <2>3. DumpsArePast'
    BY <1>1, <1>5, <2>1, <2>2, StepInRun DEF DumpsArePast
  <2>4. NewDumpIsThere'
    BY <1>1, <1>5, <2>1, StepInRun DEF NewDumpIsThere
  <2>5. HeartbeatHasDump'
    BY <1>1, <1>5, <2>1, StepInRun DEF HeartbeatHasDump
  <2> QED BY <2>3, <2>4, <2>5
<1>6. CASE Rotate
  <2>1. PICK gone \in SUBSET Stale : dumps' = dumps \ gone
    BY <1>6 DEF Rotate
  <2>2. \A d \in dumps : d <= loop.started
    BY <1>1, <1>6, StepInRun DEF DumpsArePast
  <2>3. loop.started \in dumps => loop.started \in dumps'
    BY <1>1, <2>1, <2>2, NewestIsNotStale, Typed
  <2>4. DumpsArePast'
    BY <1>1, <1>6, <2>1, <2>2, StepInRun DEF DumpsArePast
  <2>5. NewDumpIsThere'
    BY <1>1, <1>6, <2>3, StepInRun DEF NewDumpIsThere, Rotate, At
  <2>6. HeartbeatHasDump'
    <3> SUFFICES ASSUME ~unnoticed, heartbeat # NoBeat
                 PROVE  \E d \in dumps' : heartbeat <= d + MaxRun
      BY <1>1, <1>6, StepInRun DEF HeartbeatHasDump
    <3>1. loop.started \in dumps'
      BY <1>1, <1>6, <2>3 DEF NewDumpIsThere, Rotate, At
    <3>2. heartbeat <= loop.started
      BY <1>1, <1>6, StepInRun DEF RunsAreBounded
    <3>3. heartbeat <= loop.started + MaxRun
      BY <1>1, <1>2, <3>2, Typed DEF Times
    <3> QED BY <3>1, <3>3
  <2> QED BY <2>4, <2>5, <2>6
<1>7. CASE DumpFails \/ VerifyFails
  BY <1>1, <1>7, FailedRun DEF DumpsArePast, NewDumpIsThere, HeartbeatHasDump, Running
<1>8. CASE Mark
  <2>1. ~unnoticed' => loop.started \in dumps /\ clock <= loop.started + MaxRun
    BY <1>1, <1>8, MarkLoop DEF NewDumpIsThere, RunsAreBounded, Running
  <2> QED BY <1>1, <1>8, <2>1, MarkLoop DEF DumpsArePast, NewDumpIsThere, HeartbeatHasDump, Running
<1>9. CASE Wake
  BY <1>1, <1>9, WakeLoop DEF DumpsArePast, NewDumpIsThere, HeartbeatHasDump, Running
<1>10. CASE Restart
  BY <1>1, <1>10, RestartLoop DEF DumpsArePast, NewDumpIsThere, HeartbeatHasDump, Running
<1>11. CASE Tick
  <2>1. clock' = clock + 1 /\ UNCHANGED <<loop, heartbeat, dumps, unnoticed>>
    BY <1>11 DEF Tick
  <2>2. \A d \in dumps : d <= clock'
    BY <1>1, <2>1, Typed DEF DumpsArePast
  <2> QED BY <1>1, <2>1, <2>2 DEF DumpsArePast, NewDumpIsThere, HeartbeatHasDump
<1> QED BY <1>3, <1>4, <1>5, <1>6, <1>7, <1>8, <1>9, <1>10, <1>11 DEF Next, Run

LEMMA ReadableKeeps ==
    ASSUME IInv, Next
    PROVE  OnlyReadableDumpsMove'
<1>1. TypeOK /\ OnlyReadableDumpsMove
  BY DEF IInv
<1>2. CASE Begin
  BY <1>1, <1>2, BeginLoop DEF Begin, OnlyReadableDumpsMove
<1>3. CASE Dump
  BY <1>1, <1>3, DumpLoop DEF Dump, OnlyReadableDumpsMove
<1>4. CASE Verify
  BY <1>1, <1>4, GotoLoop DEF Verify, OnlyReadableDumpsMove, Pcs
<1>5. CASE Move
  BY <1>1, <1>5, GotoLoop DEF Move, At, OnlyReadableDumpsMove, Pcs
<1>6. CASE Rotate
  BY <1>1, <1>6, GotoLoop DEF Rotate, OnlyReadableDumpsMove, Pcs
<1>7. CASE DumpFails \/ VerifyFails
  BY <1>1, <1>7, FailedRun DEF OnlyReadableDumpsMove
<1>8. CASE Mark
  BY <1>1, <1>8, MarkLoop DEF OnlyReadableDumpsMove
<1>9. CASE Wake
  BY <1>1, <1>9, WakeLoop DEF OnlyReadableDumpsMove
<1>10. CASE Restart
  BY <1>1, <1>10, RestartLoop DEF OnlyReadableDumpsMove
<1>11. CASE Tick
  BY <1>1, <1>11 DEF Tick, OnlyReadableDumpsMove
<1> QED BY <1>2, <1>3, <1>4, <1>5, <1>6, <1>7, <1>8, <1>9, <1>10, <1>11 DEF Next, Run

-----------------------------------------------------------------------------
LEMMA InitEstablishes == Init => IInv
<1> SUFFICES ASSUME Init PROVE IInv
  OBVIOUS
<1>1. TypeOK
  <2>1. 1 \in 1 .. MaxClock /\ 0 \in 0 .. MaxClock /\ 0 \in 0 .. MaxClock + Interval
        /\ 0 \in 0 .. 2
    BY ConfigAssumption
  <2> QED BY <2>1 DEF Init, TypeOK, NoBeat, Pcs
<1> QED BY <1>1 DEF Init, IInv, RunsAreBounded, AttemptsAreDue, DumpsArePast, NewDumpIsThere,
              HeartbeatHasDump, OnlyReadableDumpsMove, Running, NoBeat

LEMMA NextKeeps == IInv /\ [Next]_vars => IInv'
<1> SUFFICES ASSUME IInv, [Next]_vars PROVE IInv'
  OBVIOUS
<1>1. CASE Next
  BY <1>1, TypeKeeps, TimeKeeps, DumpsKeep, ReadableKeeps DEF IInv
<1>2. CASE UNCHANGED vars
  BY <1>2 DEF vars, IInv, TypeOK, RunsAreBounded, AttemptsAreDue, Due, DumpsArePast,
              NewDumpIsThere, HeartbeatHasDump, OnlyReadableDumpsMove
<1> QED BY <1>1, <1>2

LEMMA Invariance == Spec => []IInv
<1> QED BY InitEstablishes, NextKeeps, PTL DEF Spec

\* Every variable keeps its type.
THEOREM BackupTypeCorrect == Spec => []TypeOK
<1>1. IInv => TypeOK
  BY DEF IInv
<1> QED BY <1>1, Invariance, PTL

\* No generation is ever a file whose table of contents pg_restore cannot read,
\* although mv and the heartbeat may fail unnoticed.
THEOREM DumpsAreReadableAlways == Spec => []DumpsAreReadable
<1>1. IInv => DumpsAreReadable
  BY DEF IInv, OnlyReadableDumpsMove, DumpsAreReadable
<1> QED BY <1>1, Invariance, PTL

\* While no failure of the storage went unnoticed, a content healthcheck means a recent
\* dump, for every interval, retry, number of generations and run time.
THEOREM HealthyMeansRecentDumpAlways == Spec => []HealthyMeansRecentDump
<1>1. IInv => HealthyMeansRecentDump
  <2> SUFFICES ASSUME IInv, Healthy, ~unnoticed
               PROVE  \E d \in dumps : clock - d <= MaxAge + MaxRun
    BY DEF HealthyMeansRecentDump
  <2>1. PICK d \in dumps : heartbeat <= d + MaxRun
    BY DEF IInv, HeartbeatHasDump, Healthy
  <2>2. clock - heartbeat <= MaxAge /\ MaxAge \in Nat
    BY TimesAreNumbers DEF Healthy, MaxAge, Times
  <2>3. d \in Nat /\ clock \in Nat /\ heartbeat \in Nat /\ MaxRun \in Nat
    BY Typed, TimesAreNumbers DEF IInv, Times
  <2>4. clock - d <= MaxAge + MaxRun
    BY <2>1, <2>2, <2>3
  <2> QED BY <2>4
<1> QED BY <1>1, Invariance, PTL

\* While no failure of the storage went unnoticed, one failed run never raises the
\* alarm, as long as the interval and the slack cover two runs and a retry.
THEOREM OneFailureIsToleratedAlways == Spec => []OneFailureIsTolerated
<1>1. IInv => OneFailureIsTolerated
  <2> SUFFICES ASSUME IInv, heartbeat # NoBeat, failures <= 1, ~unnoticed
               PROVE  clock - heartbeat <= MaxAge
    BY DEF OneFailureIsTolerated, Healthy
  <2>1. Times /\ Retry <= Interval
    BY TimesAreNumbers, ConfigAssumption
  <2>2. TypeOK /\ RunsAreBounded /\ AttemptsAreDue
    BY DEF IInv
  <2>3. Due <= heartbeat + Interval + (MaxRun + Retry) /\ Due \in Nat
    BY <2>1, <2>2, Typed DEF Due, Times
  <2>4. clock <= Due + MaxRun
    <3>1. CASE loop.pc \in Running
      BY <2>1, <2>2, <2>3, <3>1, Typed DEF RunsAreBounded, AttemptsAreDue, Times
    <3>2. CASE loop.pc = "sleep"
      BY <2>1, <2>2, <2>3, <3>2, Typed DEF RunsAreBounded, AttemptsAreDue, Times
    <3>3. CASE loop.pc = "start"
      BY <2>1, <2>2, <2>3, <3>3, Typed DEF AttemptsAreDue, Times
    <3> QED BY <2>2, <3>1, <3>2, <3>3, Typed DEF Pcs, Running
  <2> QED BY <2>1, <2>2, <2>3, <2>4, Typed, TimingAssumption DEF MaxAge, Times
<1> QED BY <1>1, Invariance, PTL

\* A generation disappears only while KEEP newer ones stay, for every KEEP.
THEOREM RotationKeepsNewestAlways == Spec => RotationKeepsNewest
<1>1. IInv /\ [Next]_vars =>
        [\A d \in dumps \ dumps' : Cardinality({e \in dumps' : e > d}) >= Keep]_vars
  <2> SUFFICES ASSUME IInv, Next, NEW d \in dumps \ dumps'
               PROVE  Cardinality({e \in dumps' : e > d}) >= Keep
    OBVIOUS
  <2>1. dumps \subseteq 1 .. MaxClock
    BY DEF IInv, TypeOK
  <2>2. \E gone \in SUBSET Stale : dumps' = dumps \ gone
    BY DEF Next, Run, Begin, Dump, DumpFails, Verify, VerifyFails, Move, Rotate, Mark, Wake,
           Restart, Tick
  <2>3. PICK gone \in SUBSET Stale : dumps' = dumps \ gone
    BY <2>2
  <2>4. d \in gone
    BY <2>3
  <2> QED BY <2>1, <2>3, <2>4, RotationIsSafe
<1> QED BY <1>1, Invariance, PTL DEF Spec, RotationKeepsNewest
=============================================================================
