---------------------------- MODULE FraudAnalysis ----------------------------
(***************************************************************************)
(* POST /analyze (app/services/fraud_analysis.py): one call of the         *)
(* analysis for one message, and what its answers show to a user who asks  *)
(* again with more of the same message, with a link, or after having done  *)
(* something (the other values of `state`).                                *)
(*                                                                         *)
(* The service keeps nothing between the calls, so all the state there is  *)
(* is the request that was last sent and the answer to it.                 *)
(***************************************************************************)
EXTENDS FraudPolicy

CONSTANTS
    Clause,       \* the clauses a message can be made of
    Supply,       \* the links that can be given beside the text
    MaxClauses    \* bound: the length of a message in clauses

ASSUME ClauseAssumption == Clause \subseteq ClauseType
ASSUME SupplyAssumption == Supply \subseteq Link

VARIABLES
    request,      \* the last AnalyzeRequest: text, url and state
    answer        \* the AnalyzeResponse to it

vars == <<request, answer>>

Text == [clauses : SUBSET Clause, links : SUBSET Supply]
Request == [text : Text, url : SUBSET Supply, state : UserState]

-----------------------------------------------------------------------------
(* The answer.                                                             *)

Clamp(low, x, high) == LET raised == IF x < low THEN low ELSE x
                       IN  IF raised > high THEN high ELSE raised

\* The score that is shown: moved into the band of the level, or nothing.
ShownScore(score, level, codes, state) ==
    Clamp(score_floor_for_level(level),
          IF has_nothing_to_show(codes, state) THEN 0 ELSE score,
          score_ceiling_for_level(level))

\* What the summary says first (the types, the signals for want of a type,
\* or that nothing was found), and what it asks the user to do.
_build_summary(types, public, state) ==
    [says |-> IF types # {} THEN "types" ELSE IF public # {} THEN "signals" ELSE "nothing",
     asks |-> CASE state = "received_only" -> "verify"
                [] state \in {"clicked_link", "shared_personal_info"} -> "respond"
                [] state \in UserState \ {"received_only", "clicked_link",
                                          "shared_personal_info"} -> "urgent"]

Score(m) == baseline_score(detect_legacy_signals(m))

Answer(score, codes, types, actions, state) ==
    LET level == determine_risk_level(score, codes, state) IN
    [codes   |-> codes,
     score   |-> ShownScore(score, level, codes, state),
     level   |-> level,
     types   |-> types,
     signals |-> project_public_signals(codes),
     actions |-> actions,
     sources |-> sources_for_actions(actions),
     summary |-> _build_summary(types, project_public_signals(codes), state)]

\* The answer to a request whose actions have no source is an error.
Failed == [failed |-> TRUE]

analyze_fraud(r) ==
    LET codes   == detect_canonical_signals(r.text, r.url)
        actions == select_actions(codes, r.state, r.text)
    IN  IF Supported(actions)
        THEN Answer(Score(r.text), codes, classify_fraud_types(codes, r.text),
                    actions, r.state)
        ELSE Failed

-----------------------------------------------------------------------------
(* The user's questions.  An answer depends on its request alone, so the   *)
(* order in which a request grows is of no account, and the longer text    *)
(* comes first.                                                            *)

Ask(r) ==
    /\ request' = r
    /\ answer' = analyze_fraud(r)

Fresh(c) == [text |-> [clauses |-> {c}, links |-> {}], url |-> {},
             state |-> "received_only"]

Linkless(r) == r.text.links = {} /\ r.url = {}

Init == \E c \in Clause : /\ request = Fresh(c)
                          /\ answer = analyze_fraud(Fresh(c))

\* The user pastes more of the message.
PasteMore(c) ==
    /\ Linkless(request) /\ request.state = "received_only"
    /\ Cardinality(request.text.clauses) < MaxClauses
    /\ c \notin request.text.clauses
    /\ Ask([request EXCEPT !.text.clauses = @ \cup {c}])

\* The user pastes the link that was in the message, or gives it beside it.
PasteLink(u) ==
    /\ Linkless(request)
    /\ Ask([request EXCEPT !.text.links = {u}])

SupplyUrl(u) ==
    /\ Linkless(request)
    /\ Ask([request EXCEPT !.url = {u}])

\* The user has done something since.
ReportState(s) ==
    /\ request.state = "received_only" /\ s # "received_only"
    /\ Ask([request EXCEPT !.state = s])

Next ==
    \/ \E c \in Clause : PasteMore(c)
    \/ \E u \in Supply : PasteLink(u) \/ SupplyUrl(u)
    \/ \E s \in UserState : ReportState(s)

Spec == Init /\ [][Next]_vars

-----------------------------------------------------------------------------
(* Properties.                                                             *)

AnswerType ==
    [codes : SUBSET SignalCodes, score : 0..100, level : Level,
     types : SUBSET DOMAIN TypeSignals, signals : SUBSET (SignalCodes \cup LegacyCodes),
     actions : SUBSET ActionCode, sources : SUBSET DOMAIN Supports,
     summary : [says : {"types", "signals", "nothing"},
                asks : {"verify", "respond", "urgent"}]]

\* Every request is answered: no combination of signals, state and text
\* selects an action that the policy table does not know (an unresolved
\* placeholder) or whose sources do not support it, either of which would be
\* an error of the request that a health check does not see.
TypeOK ==
    /\ request \in Request
    /\ answer \in AnswerType

\* The score and the level of an answer never contradict each other: the
\* thresholds, applied to the score that is shown, give the level that is
\* shown, although the score counts the legacy vocabulary only and the level
\* counts the canonical signals, their combinations and the state as well.
ScoreTellsLevel == risk_level(answer.score) = answer.level

\* An answer that warns has something to say and something to do: above
\* "low" there is an action with a source, and a summary that nothing was
\* found only goes with what the user has done.  An answer without an action
\* is the one for a message in which nothing was found.
WarningHasSubstance ==
    /\ answer.level # "low" => answer.actions # {} /\ answer.sources # {}
    /\ answer.summary.says = "nothing" /\ answer.level # "low"
           => request.state # "received_only"
    /\ answer.actions = {} => answer.score = 0 /\ answer.types = {} /\ answer.signals = {}

\* Advice leads out of the conversation: whenever a signal was found the
\* user is told of a desk or of a contact to verify with, so that nobody is
\* left to look for one inside the message.
OutsideContact ==
    {"VERIFY_OFFICIAL_CHANNEL", "VERIFY_BY_KNOWN_CONTACT", "CONTACT_1394",
     "CONTACT_112", "CONTACT_KISA_118", "CONTACT_FINANCIAL_INSTITUTION"}

AdviceLeadsOutside == answer.codes # {} => answer.actions \cap OutsideContact # {}

\* A high level that the message itself causes has a name: a user who has
\* done nothing and reads "high" reads a fraud type too, or the score alone
\* reached the high band.  (The verdict of the evaluation is `bool(types)`.)
HighHasType ==
    /\ answer.level = "high"
    /\ request.state = "received_only"
    /\ risk_level(Score(request.text)) # "high"
    => answer.types # {}

\* Nothing found is hidden: every signal appears under its public name, but
\* for a transfer that is part of a forwarding request.
NothingHidden ==
    \A c \in answer.codes :
        \/ PublicCode(c) \in answer.signals
        \/ c = "money_transfer_request" /\ "money_mule" \in answer.signals

\* What the user reads accounts for the level: a warning has something to
\* say and to do, a high one has a name, and every signal behind it is shown.
AnswerExplainsItself == WarningHasSubstance /\ HighHasType /\ NothingHidden

\* A prevention notice, a notice that points at its own counter and asks for
\* nothing, stays unmarked however many risk words it quotes, unless it
\* carries a suspicious link.
NoticeStaysSilent ==
    /\ \A c \in request.text.clauses : "prevention" \in Whole(c)
                                       \/ "counter" \in c.facts
    /\ "prevention" \in Said(request.text)
    /\ Said(request.text) \cap {"exclusion", "monopoly"} = {}
    => answer.codes \subseteq {"suspicious_link"}

\* More evidence never weakens an answer: when the same user asks again with
\* a link, every signal and type stays, the level and the score do not fall,
\* and no action is withdrawn, except that the known contact gives way to
\* an official channel that the message turns out to have.
LinkAdds ==
    /\ request'.text.clauses = request.text.clauses
    /\ request'.state = request.state
    => /\ answer.codes \subseteq answer'.codes
       /\ answer.types \subseteq answer'.types
       /\ RISK_RANK[answer.level] <= RISK_RANK[answer'.level]
       /\ answer.score <= answer'.score
       /\ answer.actions \ {"VERIFY_BY_KNOWN_CONTACT"} \subseteq answer'.actions

\* Reassurance hides nothing: a message that demands something of its reader
\* keeps every signal when clauses are added that prevent, report, or name
\* an official counter.
Reassuring(c) ==
    /\ c.words = {}
    /\ Whole(c) \subseteq {"prevention", "official", "completed", "counter"}

ReassuranceHidesNothing ==
    [][/\ _has_reader_demand(_open_clauses(request.text))
       /\ \E c \in Clause : /\ Reassuring(c)
                            /\ request'.text.clauses = request.text.clauses \cup {c}
       => answer.codes \subseteq answer'.codes]_vars

\* What the user has done never lowers the level below what it was with
\* nothing done, and the message never lowers it below what the state asks.
StateAdds ==
    /\ request'.text = request.text /\ request'.url = request.url
    /\ request.state = "received_only"
    => /\ RISK_RANK[answer.level] <= RISK_RANK[answer'.level]
       /\ answer.codes = answer'.codes
       /\ RISK_RANK[STATE_MINIMUM_RISK[request'.state]] <= RISK_RANK[answer'.level]
       /\ answer.actions \ {"VERIFY_BY_KNOWN_CONTACT"} \subseteq answer'.actions

\* More to go by never weakens an answer, be it a link of the message or
\* something that the user has done.
EvidenceOnlyAdds == [][LinkAdds /\ StateAdds]_vars
=============================================================================
