----------------------------- MODULE Explanation -----------------------------
(***************************************************************************)
(* The explanation of a verdict: POST /analyze/explanation from the lazy    *)
(* construction of the runtime to the answer (app/api/routes/analysis.py,   *)
(* app/services/llm/runtime.py and explanation.py), for any number of       *)
(* worker threads, and what ExplanationMetrics counts of it.                *)
(*                                                                         *)
(* The contracts of the runtime are tried in order until one gives a text   *)
(* that passes validation.                                                 *)
(***************************************************************************)
EXTENDS Connections, ExplanationText

CONSTANTS
    Questions,  \* messages, their verdicts, what the provider may reply to them
    MaxInput    \* words of a message that the contract lets through

NoOutput == [flaws |-> {"blank"}, claims |-> {}]

ASSUME ConnsAssumption == IsFiniteSet(Conns)
ASSUME MaxInputAssumption == MaxInput \in Nat
ASSUME QuestionsAssumption == Questions # {} /\
    \A q \in Questions : /\ q.message \in Seq(Word) /\ q.verdict \in Verdict
                         /\ q.replies \subseteq Reply
                         /\ q.verdict.level # "low" => has_grounded_evidence(q.verdict)

VARIABLES
    setting,         \* FINSHIELD_LLM_PROVIDER
    runtime,         \* _runtime: the models of its contracts, <<>> for None
    runtime_loaded,  \* _runtime_loaded
    ask,             \* what each request is doing
    attempts,        \* ExplanationMetrics._attempts
    results          \* ExplanationMetrics._results

explVars == <<setting, runtime, runtime_loaded, ask, attempts, results>>

Settings == {"off", "stub", "google_ai_studio"}
Models == {"stub", "flash", "flash-lite"}

\* build_explanation_runtime(): the contracts of a setting.
Contracts(s) == [off |-> <<>>, stub |-> <<"stub">>,
                 google_ai_studio |-> <<"flash", "flash-lite">>][s]

\* StubProvider.generate()
StubReply == [exchange |-> "answered", status |-> "ok", body |-> "object",
              blocked |-> FALSE, candidate |-> "object", finish |-> "stop",
              content |-> "parts", text |-> [flaws |-> {}, claims |-> {}]]

RepliesTo(q) == IF setting = "stub" THEN {StubReply} ELSE q.replies

Ask == [step     : {"none", "check", "build", "mark", "read", "try", "count",
                    "report", "answered", "failed"},
        question : Questions,
        tried    : Seq(Outcome),     \* the outcomes of the attempts so far
        outcome  : Outcome,
        output   : Output,           \* the text, NoOutput if there is none
        available : BOOLEAN]

Unasked == [step |-> "none", question |-> CHOOSE q \in Questions : TRUE,
            tried |-> <<>>, outcome |-> "unspecified", output |-> NoOutput,
            available |-> FALSE]

ExplInit ==
    /\ setting \in Settings
    /\ runtime = <<>>
    /\ runtime_loaded = FALSE
    /\ ask = [c \in Conns |-> Unasked]
    /\ attempts = [x \in Models \X Outcome |-> 0]
    /\ results = [o \in Outcome |-> 0]

At(c, step) == ask[c].step = step
Goto(c, step) == ask' = [ask EXCEPT ![c].step = step]

\* explain(): the handler starts in a thread of the pool.
Begin(c, q) ==
    /\ At(c, "none")
    /\ ask' = [ask EXCEPT ![c].step = "check", ![c].question = q]
    /\ UNCHANGED <<setting, runtime, runtime_loaded, attempts, results>>

-----------------------------------------------------------------------------
(* explanation_runtime(): without a lock.                                  *)

\* Mutant: the flag is set before the runtime is built.
CheckLoaded_FlagFirst(c) ==
    /\ At(c, "check")
    /\ Goto(c, IF runtime_loaded THEN "read" ELSE "build")
    /\ runtime_loaded' = TRUE
    /\ UNCHANGED <<setting, runtime, attempts, results>>

CheckLoaded(c) ==
    /\ At(c, "check")
    /\ Goto(c, IF runtime_loaded THEN "read" ELSE "build")
    /\ UNCHANGED <<setting, runtime, runtime_loaded, attempts, results>>

BuildRuntime(c) ==
    /\ At(c, "build")
    /\ runtime' = Contracts(setting)
    /\ Goto(c, "mark")
    /\ UNCHANGED <<setting, runtime_loaded, attempts, results>>

\* The key was there at start and cannot be read now: the request fails, and
\* the next one tries again.
BuildFails(c) ==
    /\ At(c, "build") /\ setting = "google_ai_studio"
    /\ Goto(c, "failed")
    /\ UNCHANGED <<setting, runtime, runtime_loaded, attempts, results>>

MarkLoaded(c) ==
    /\ At(c, "mark")
    /\ runtime_loaded' = TRUE
    /\ Goto(c, "read")
    /\ UNCHANGED <<setting, runtime, attempts, results>>

-----------------------------------------------------------------------------
(* explain_with_fallback().                                                *)

FirstStep(q) == IF has_grounded_evidence(q.verdict) THEN "try" ELSE "report"

\* The runtime that was read is None, or decides how the request goes on.
ReadRuntime(c) ==
    /\ At(c, "read")
    /\ IF runtime = <<>>
       THEN Goto(c, "answered")
       ELSE ask' = [ask EXCEPT
              ![c].available = TRUE,
              ![c].step = FirstStep(ask[c].question),
              ![c].outcome = IF FirstStep(ask[c].question) = "try" THEN @
                             ELSE "not_asked_no_evidence"]
    /\ UNCHANGED <<setting, runtime, runtime_loaded, attempts, results>>

neutralized ==
    [q \in Questions |-> neutralize_instructions(minimize_for_provider(q.message))]

\* Mutant: the validation allows what the contract cut off.
shown_message_Whole == neutralized

\* The words of the message that the model reads.
shown_message ==
    [q \in Questions |-> SubSeq(neutralized[q], 1,
        IF Len(q.message) < MaxInput THEN Len(q.message) ELSE MaxInput)]

\* explain_analysis(): the outcome of one attempt.
OutcomeOf ==
    [q \in Questions |-> [r \in q.replies \cup {StubReply} |->
        IF generate(r) # "ok" THEN generate(r)
        ELSE validate_explanation(r.text, q.verdict, shown_message[q])]]

TryModel(c) ==
    /\ At(c, "try")
    /\ \E r \in RepliesTo(ask[c].question) :
        LET outcome == OutcomeOf[ask[c].question][r] IN
        IF outcome = "raises"
        THEN Goto(c, "failed")
        ELSE ask' = [ask EXCEPT ![c].step = "count", ![c].outcome = outcome,
                                ![c].tried = Append(@, outcome),
                                ![c].output = IF outcome = "ok" THEN r.text ELSE NoOutput]
    /\ UNCHANGED <<setting, runtime, runtime_loaded, attempts, results>>

Model(c) == runtime[Len(ask[c].tried)]
Finished(c) == ask[c].outcome = "ok" \/ Len(ask[c].tried) = Len(runtime)

\* Mutant: the attempt is counted under the model that was to be asked first.
CountedModel_First(c) == runtime[1]

CountedModel(c) == Model(c)

\* observe_attempt()
CountAttempt(c) ==
    /\ At(c, "count")
    /\ attempts' = [attempts EXCEPT ![<<CountedModel(c), ask[c].outcome>>] = @ + 1]
    /\ Goto(c, IF Finished(c) THEN "report" ELSE "try")
    /\ UNCHANGED <<setting, runtime, runtime_loaded, results>>

\* observe_result()
Report(c) ==
    /\ At(c, "report")
    /\ results' = [results EXCEPT ![ask[c].outcome] = @ + 1]
    /\ Goto(c, "answered")
    /\ UNCHANGED <<setting, runtime, runtime_loaded, attempts>>

Explain(c) ==
    \/ CheckLoaded(c) \/ BuildRuntime(c) \/ BuildFails(c) \/ MarkLoaded(c)
    \/ ReadRuntime(c) \/ TryModel(c) \/ CountAttempt(c) \/ Report(c)
ExplNext == \E c \in Conns : (\E q \in Questions : Begin(c, q)) \/ Explain(c)

ExplSpec == ExplInit /\ [][ExplNext]_explVars

-----------------------------------------------------------------------------
ExplTypeOK ==
    /\ setting \in Settings
    /\ runtime \in {<<>>, Contracts(setting)}
    /\ runtime_loaded \in BOOLEAN
    /\ ask \in [Conns -> Ask]
    /\ attempts \in [Models \X Outcome -> Nat]
    /\ results \in [Outcome -> Nat]

\* A layer that is switched on is never reported as off, whichever threads
\* build the runtime together, and one that is off answers so and asks nobody.
NeverFalselyOff ==
    \A c \in Conns :
        /\ At(c, "answered") => ask[c].available = (setting # "off")
        /\ setting = "off" => ask[c].tried = <<>>

Shown(c) == At(c, "answered") /\ ask[c].output # NoOutput

\* A sentence that is shown invents nothing: it names no contact,
\* organisation or law that is not in the evidence of the verdict of its own
\* request, no number that is neither there nor in words the model has read,
\* and does not reassure against that verdict.
ShownIsGrounded ==
    \A c \in Conns : Shown(c) =>
        LET q == ask[c].question  o == ask[c].output IN
        /\ \A x \in o.claims :
              \/ \E line \in q.verdict.evidence : x \in line
              \/ /\ KindOf[x] = "number"
                 /\ \E i \in DOMAIN q.message : i <= MaxInput /\ x \in q.message[i].claims
        /\ q.verdict.level # "low" => "reassures" \notin o.flaws

\* Taking the instructions out of a message does not take the message: some
\* of it is left for the model, unless it was nothing but instructions.
EvidenceIsLeft ==
    \A c \in Conns : ~At(c, "none") =>
        LET m == ask[c].question.message  n == neutralized[ask[c].question] IN
        ~NothingLeft(m, BySpan(m)) => \E i \in DOMAIN n : n[i].role # "removed"

Ended(c) == ask[c].step \in {"report", "answered"}

\* The provider is asked no more than necessary: nothing without evidence,
\* nothing after an answer that passed, and not for a verdict that is low
\* for want of evidence; but above low, no request ends without an attempt
\* with every model or a sentence.
NoNeedlessAttempt ==
    \A c \in Conns : LET a == ask[c] IN
        /\ a.tried # <<>> => has_grounded_evidence(a.question.verdict)
        /\ \A i \in 1 .. (Len(a.tried) - 1) : a.tried[i] # "ok"
        /\ Ended(c) /\ a.available /\ a.question.verdict.level # "low" =>
              \/ a.tried # <<>> /\ a.tried[Len(a.tried)] = "ok"
              \/ Len(a.tried) = Len(runtime)

\* The attempts of request c that are counted.
CountedTries(c) == IF At(c, "count") THEN Len(ask[c].tried) - 1 ELSE Len(ask[c].tried)

\* What is counted is what happened: for each model the outcomes of the
\* attempts that were made with it, and for each request that was answered
\* the outcome of its last attempt, once, however many threads count at once.
MetricsTell ==
    /\ \A i \in DOMAIN runtime, o \in Outcome :
          attempts[<<runtime[i], o>>] =
              Cardinality({c \in Conns : i <= CountedTries(c) /\ ask[c].tried[i] = o})
    /\ \A o \in Outcome :
          results[o] =
              Cardinality({c \in Conns : /\ At(c, "answered") /\ ask[c].available
                                         /\ o = IF ask[c].tried = <<>>
                                                THEN "not_asked_no_evidence"
                                                ELSE ask[c].tried[Len(ask[c].tried)]})
=============================================================================
