------------------------------ MODULE BackupLoop ------------------------------
(***************************************************************************)
(* The backup container: deploy/backup-loop.sh takes a dump, verifies it,   *)
(* moves it into place, rotates the generations and writes a heartbeat;     *)
(* deploy/backup-healthcheck.sh judges the age of that heartbeat.  The      *)
(* container may be killed between any two commands.                        *)
(*                                                                         *)
(* run_once runs as the condition of an `if`, where `set -e` is off: a      *)
(* command whose status it does not test itself may fail unnoticed.         *)
(***************************************************************************)
EXTENDS Naturals, FiniteSets

CONSTANTS
    Interval,       \* FINSHIELD_BACKUP_INTERVAL_SECONDS
    Retry,          \* FINSHIELD_BACKUP_RETRY_SECONDS
    Keep,           \* FINSHIELD_BACKUP_KEEP
    Slack,          \* the 60 seconds in MAX_AGE
    MaxRun,         \* the longest a run takes: pg_dump has no timeout
    MaxClock,       \* bound: the clock of an instance stops here
    MaxPartial      \* bound: .tmp files that restarts and failures leave behind

ASSUME ConfigAssumption ==
    /\ Interval \in Nat /\ Retry \in 1 .. Interval /\ Keep \in Nat \ {0}
    /\ Slack \in Nat /\ MaxRun \in Nat /\ MaxClock \in Nat \ {0}
    /\ MaxPartial \in Nat
\* The slack covers the dumps themselves, and the interval covers the retry.
ASSUME TimingAssumption == Retry + 2 * MaxRun <= Interval + Slack

VARIABLES
    clock,      \* date -u +%s
    dumps,      \* finshield-<time>.dump, by the time in the name
    partial,    \* finshield-<time>.dump.tmp
    heartbeat,  \* the heartbeat file's number, NoBeat if it has none
    loop,       \* where the script is
    broken,     \* history: dumps in place whose table of contents cannot be read
    failures,   \* history: runs that failed since the last success, up to 2
    unnoticed   \* history: mv or printf failed since the last true heartbeat

vars == <<clock, dumps, partial, heartbeat, loop, broken, failures, unnoticed>>

-----------------------------------------------------------------------------
NoBeat == 0
MaxAge == Interval * 2 + Slack
Healthy == heartbeat # NoBeat /\ clock - heartbeat <= MaxAge

At(pc) == loop.pc = pc
Goto(pc) == loop' = [loop EXCEPT !.pc = pc]

\* Mutant: a failed run waits as long as a successful one.
SleepAfter_Same(ok) == Interval

\* The two waits of the main loop.
SleepAfter(ok) == IF ok THEN Interval ELSE Retry
Sleep(ok) == loop' = [loop EXCEPT !.pc = "sleep", !.wake = clock + SleepAfter(ok)]

Fail ==
    /\ Sleep(FALSE)
    /\ failures' = IF failures < 2 THEN failures + 1 ELSE 2

\* Mutant: the heartbeat is written for every run.
Discard_Marks ==
    /\ partial' = partial \ {loop.started}
    /\ Fail
    /\ heartbeat' = clock

\* A stage fails: the unfinished dump is removed, and nothing else.
Discard ==
    /\ partial' = partial \ {loop.started}
    /\ Fail
    /\ UNCHANGED heartbeat

\* run_once() names the dump, and pg_dump starts writing it.
Begin ==
    /\ At("start")
    /\ loop' = [loop EXCEPT !.pc = "dump", !.started = clock]
    /\ partial' = partial \cup {clock}
    /\ UNCHANGED <<clock, dumps, heartbeat, broken, failures, unnoticed>>

\* pg_dump ends with 0, which does not say that the file is whole: its table of
\* contents may be cut off or garbled, or the data behind a good one.  Nothing
\* in the loop tells the latter from a whole file.
Dump ==
    /\ At("dump")
    /\ \E readable \in BOOLEAN :
          loop' = [loop EXCEPT !.pc = "verify", !.readable = readable]
    /\ UNCHANGED <<clock, dumps, partial, heartbeat, broken, failures, unnoticed>>

DumpFails ==
    /\ At("dump")
    /\ Discard
    /\ UNCHANGED <<clock, dumps, broken, unnoticed>>

\* Mutant: the exit status of pg_dump is believed.
Verify_Skipped ==
    /\ At("verify")
    /\ Goto("move")
    /\ UNCHANGED <<clock, dumps, partial, heartbeat, broken, failures, unnoticed>>

\* pg_restore --list reads the header and the table of contents, not the data.
Verify ==
    /\ At("verify")
    /\ loop.readable
    /\ Goto("move")
    /\ UNCHANGED <<clock, dumps, partial, heartbeat, broken, failures, unnoticed>>

VerifyFails ==
    /\ At("verify")
    /\ Discard
    /\ UNCHANGED <<clock, dumps, broken, unnoticed>>

\* The bound of an instance.
MayLeave == Cardinality(partial) <= MaxPartial

\* mv.  Its status is not looked at.
Move ==
    /\ At("move")
    /\ Goto("rotate")
    /\ \/ /\ dumps' = dumps \cup {loop.started}
          /\ partial' = partial \ {loop.started}
          /\ broken' = IF loop.readable THEN broken \ {loop.started}
                                        ELSE broken \cup {loop.started}
          /\ UNCHANGED unnoticed
       \/ /\ MayLeave
          /\ unnoticed' = TRUE
          /\ UNCHANGED <<dumps, partial, broken>>
    /\ UNCHANGED <<clock, heartbeat, failures>>

\* Mutant: tail starts one line early.
Stale_OffByOne == {d \in dumps : Cardinality({e \in dumps : e > d}) >= Keep - 1}

\* ls -1t | tail -n +(KEEP + 1): all but the KEEP newest.
Stale == {d \in dumps : Cardinality({e \in dumps : e > d}) >= Keep}

\* rotate().  An rm may fail, which is not looked at either.
Rotate ==
    /\ At("rotate")
    /\ \E gone \in SUBSET Stale : dumps' = dumps \ gone
    /\ Goto("mark")
    /\ UNCHANGED <<clock, partial, heartbeat, broken, failures, unnoticed>>

\* mark_success().  If its mv fails the file keeps its number, if its printf
\* fails an empty file takes its place.
Mark ==
    /\ At("mark")
    /\ \/ /\ heartbeat' = clock
          /\ unnoticed' = (loop.started \notin dumps)
       \/ /\ heartbeat' \in {heartbeat, NoBeat}
          /\ unnoticed' = TRUE
    /\ Sleep(TRUE)
    /\ failures' = 0
    /\ UNCHANGED <<clock, dumps, partial, broken>>

Wake ==
    /\ At("sleep")
    /\ clock >= loop.wake
    /\ Goto("start")
    /\ UNCHANGED <<clock, dumps, partial, heartbeat, broken, failures, unnoticed>>

\* The container is killed and starts again: /tmp is empty, the unfinished
\* dump stays where it is, and rotate() may have removed part of its list.
Restart ==
    /\ MayLeave
    /\ loop' = [loop EXCEPT !.pc = "start"]
    /\ heartbeat' = NoBeat
    /\ failures' = 0
    /\ unnoticed' = FALSE
    /\ IF At("rotate") THEN \E gone \in SUBSET Stale : dumps' = dumps \ gone
                       ELSE UNCHANGED dumps
    /\ UNCHANGED <<clock, partial, broken>>

\* A sleep ends on time, and a run takes MaxRun at most.
Urgent ==
    \/ At("start")
    \/ At("sleep") /\ clock >= loop.wake
    \/ ~At("sleep") /\ clock >= loop.started + MaxRun

Tick ==
    /\ clock < MaxClock
    /\ ~Urgent
    /\ clock' = clock + 1
    /\ UNCHANGED <<dumps, partial, heartbeat, loop, broken, failures, unnoticed>>

-----------------------------------------------------------------------------
Init ==
    /\ clock = 1
    /\ dumps = {}
    /\ partial = {}
    /\ heartbeat = NoBeat
    /\ loop = [pc |-> "start", started |-> 0, wake |-> 0, readable |-> FALSE]
    /\ broken = {}
    /\ failures = 0
    /\ unnoticed = FALSE

Run == Begin \/ Dump \/ DumpFails \/ Verify \/ VerifyFails \/ Move \/ Rotate \/ Mark
Next == Run \/ Wake \/ Restart \/ Tick

Spec == Init /\ [][Next]_vars

-----------------------------------------------------------------------------
(* Properties.                                                              *)

Pcs == {"start", "dump", "verify", "move", "rotate", "mark", "sleep"}

\* The type of every variable.
TypeOK ==
    /\ clock \in 1 .. MaxClock
    /\ dumps \subseteq 1 .. MaxClock
    /\ partial \subseteq 1 .. MaxClock
    /\ heartbeat \in 0 .. MaxClock
    /\ loop \in [pc : Pcs, started : 0 .. MaxClock, wake : 0 .. MaxClock + Interval,
                 readable : BOOLEAN]
    /\ broken \subseteq 1 .. MaxClock
    /\ failures \in 0 .. 2
    /\ unnoticed \in BOOLEAN

\* Whatever was killed, failed or retried, pg_restore can read the table of
\* contents of every finshield-*.dump: a file that pg_dump did not finish never
\* has a generation's name, so that neither rotation nor a rehearsal takes it
\* for one.  Whether the data can be restored only the rehearsal shows.
DumpsAreReadable == dumps \cap broken = {}

\* When the healthcheck is content there is a dump that is at most MAX_AGE and
\* one run old, although rotation deletes dumps between moving the new one into
\* place and writing the heartbeat, unless a failure of the storage went
\* unnoticed (OnlySuccessMarks).
HealthyMeansRecentDump ==
    Healthy /\ ~unnoticed => \E d \in dumps : clock - d <= MaxAge + MaxRun

\* One failed run is not an alarm: with at most one failure since the last
\* success the heartbeat is young enough (backup-healthcheck.sh: a missed cycle
\* may be a moment's trouble, two in a row are a real failure).
OneFailureIsTolerated ==
    heartbeat # NoBeat /\ failures <= 1 /\ ~unnoticed => Healthy

\* A generation disappears only while KEEP newer ones stay, also if an rm
\* fails or the container dies in the middle of rotate().
RotationKeepsNewest ==
    [][\A d \in dumps \ dumps' :
          Cardinality({e \in dumps' : e > d}) >= Keep]_vars

\* What a comment says of the heartbeat (backup-loop.sh: only a successful run
\* refreshes it): it is refreshed only by a run whose dump is in place.
OnlySuccessMarks ==
    [][heartbeat' # heartbeat /\ heartbeat' # NoBeat => loop.started \in dumps]_vars
=============================================================================
