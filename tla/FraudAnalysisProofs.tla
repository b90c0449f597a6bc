------------------------- MODULE FraudAnalysisProofs -------------------------
(***************************************************************************)
(* Proofs about FraudAnalysis for every set of clauses, of any number,     *)
(* and every set of links.                                                 *)
(***************************************************************************)
EXTENDS FraudAnalysis, TLAPS

\* The inductive invariant: what is shown is the answer to what was asked.
Current == request \in Request /\ answer = analyze_fraud(request)

-----------------------------------------------------------------------------
(* Detection.                                                              *)

Rules == ClaimRules \cup PersonRules \cup OfferRules \cup AccessRules
         \cup MoneyRules \cup CardRules

\* The codes of the canonical rules are canonical codes.
LEMMA RuleCodes == \A r \in SIGNAL_RULES : r.code \in SignalCodes
  BY DEF SIGNAL_RULES, ClaimRules, PersonRules, OfferRules, AccessRules, MoneyRules,
         CardRules, Rule, SignalCodes

\* What one pass over a set of rules returns are codes of those rules.
LEMMA DetectedByRule ==
  ASSUME NEW m, NEW rules, NEW link
  PROVE  \A c \in _detect_by_rules(m, rules, link) : \E r \in rules : r.code = c
  BY DEF _detect_by_rules, ObjectGated, RequestGated

LEMMA CodesType ==
  ASSUME NEW m, NEW supplied
  PROVE  detect_canonical_signals(m, supplied) \subseteq SignalCodes
<1>1. "suspicious_link" \in SignalCodes
  BY DEF SignalCodes
<1>2. \A link : _detect_by_rules(m, SIGNAL_RULES, link) \subseteq SignalCodes
  BY DetectedByRule, RuleCodes
<1> QED
  BY <1>1, <1>2 DEF detect_canonical_signals

-----------------------------------------------------------------------------
(* Level and score.                                                        *)

LEMMA EvidenceLevels ==
  ASSUME NEW score, NEW codes, NEW state \in UserState
  PROVE  /\ Evidence(score, codes, state) \subseteq Level
         /\ risk_level(score) \in Evidence(score, codes, state)
         /\ STATE_MINIMUM_RISK[state] \in Evidence(score, codes, state)
  BY DEF Evidence, Level, risk_level, STATE_MINIMUM_RISK, SIGNAL_MINIMUM_RISK, UserState

\* Of any levels that are given, one is the highest.
LEMMA HighestLevel ==
  ASSUME NEW E, E \subseteq Level, E # {}
  PROVE  \E l \in E : \A k \in E : RISK_RANK[k] <= RISK_RANK[l]
<1>1. CASE "high" \in E
  BY <1>1 DEF Level, RISK_RANK
<1>2. CASE "high" \notin E /\ "medium" \in E
  BY <1>2 DEF Level, RISK_RANK
<1>3. CASE "high" \notin E /\ "medium" \notin E
  <2>1. E = {"low"}
    BY <1>3 DEF Level
  <2> QED
    BY <2>1 DEF RISK_RANK
<1> QED
  BY <1>1, <1>2, <1>3

\* The level is the highest that any evidence asks for, unless there is
\* nothing to show.
LEMMA LevelIsHighest ==
  ASSUME NEW score, NEW codes, NEW state \in UserState,
         ~has_nothing_to_show(codes, state)
  PROVE  /\ determine_risk_level(score, codes, state) \in Evidence(score, codes, state)
         /\ \A k \in Evidence(score, codes, state) :
                RISK_RANK[k] <= RISK_RANK[determine_risk_level(score, codes, state)]
<1> DEFINE E == Evidence(score, codes, state)
<1>1. E \subseteq Level /\ E # {}
  BY EvidenceLevels
<1>2. \E l \in E : \A k \in E : RISK_RANK[k] <= RISK_RANK[l]
  BY <1>1, HighestLevel
<1>3. determine_risk_level(score, codes, state)
          = CHOOSE l \in E : \A k \in E : RISK_RANK[k] <= RISK_RANK[l]
  BY DEF determine_risk_level
<1> HIDE DEF E
<1>4. /\ determine_risk_level(score, codes, state) \in E
      /\ \A k \in E : RISK_RANK[k] <= RISK_RANK[determine_risk_level(score, codes, state)]
  BY <1>2, <1>3
<1> QED
  BY <1>4 DEF E

LEMMA LevelType ==
  ASSUME NEW score, NEW codes, NEW state \in UserState
  PROVE  determine_risk_level(score, codes, state) \in Level
<1>1. CASE has_nothing_to_show(codes, state)
  BY <1>1 DEF determine_risk_level, Level
<1>2. CASE ~has_nothing_to_show(codes, state)
  BY <1>2, LevelIsHighest, EvidenceLevels
<1> QED
  BY <1>1, <1>2

\* The level is never below the band of the score that goes into it.
LEMMA LevelCoversScore ==
  ASSUME NEW score, NEW codes, NEW state \in UserState,
         ~has_nothing_to_show(codes, state)
  PROVE  RISK_RANK[risk_level(score)]
             <= RISK_RANK[determine_risk_level(score, codes, state)]
  BY LevelIsHighest, EvidenceLevels

LEMMA ScoreType ==
  ASSUME NEW found
  PROVE  baseline_score(found) \in 0..100
<1>1. /\ Points("urgency", found) \in Nat
      /\ Points("credential", found) \in Nat
      /\ Points("account_access", found) \in Nat
      /\ Points("remote_app", found) \in Nat
      /\ Points("money_mule", found) \in Nat
  BY DEF Points, LegacyWeight
<1> DEFINE sum == Points("urgency", found) + Points("credential", found)
                  + Points("account_access", found) + Points("remote_app", found)
                  + Points("money_mule", found)
<1>2. sum \in Nat
  BY <1>1
<1>3. baseline_score(found) = IF sum > 100 THEN 100 ELSE sum
  BY DEF baseline_score
<1> HIDE DEF sum
<1> QED
  BY <1>2, <1>3

\* The score that is shown lies in the band of the level that is shown.
LEMMA ShownScoreInBand ==
  ASSUME NEW score \in 0..100, NEW level \in Level, NEW codes, NEW state
  PROVE  /\ ShownScore(score, level, codes, state) \in 0..100
         /\ risk_level(ShownScore(score, level, codes, state)) = level
  BY DEF ShownScore, Clamp, score_floor_for_level, score_ceiling_for_level,
         risk_level, Level, HIGH_RISK_SCORE_THRESHOLD, MEDIUM_RISK_SCORE_THRESHOLD

-----------------------------------------------------------------------------
(* Actions and their sources.                                              *)

LEMMA TableActions ==
  /\ \A c \in SignalCodes : SIGNAL_ACTIONS[c] \subseteq ActionCode \cup {VERIFY_CLAIMED_IDENTITY}
  /\ \A s \in UserState : /\ STATE_ACTIONS[s] \subseteq ActionCode
                          /\ STATE_PREVENTION_ACTIONS[s] \subseteq ActionCode
<1> USE DEF ActionCode, ActionSources
<1>1. ASSUME NEW c \in SignalCodes
      PROVE  SIGNAL_ACTIONS[c] \subseteq ActionCode \cup {VERIFY_CLAIMED_IDENTITY}
  BY DEF SignalCodes, SIGNAL_ACTIONS, AskIdentity, GuardAccess, GuardDevice
<1>2. ASSUME NEW s \in UserState
      PROVE  STATE_ACTIONS[s] \subseteq ActionCode
  BY DEF UserState, STATE_ACTIONS, Respond, MoneyDesks
<1>3. ASSUME NEW s \in UserState
      PROVE  STATE_PREVENTION_ACTIONS[s] \subseteq ActionCode
  BY DEF UserState, STATE_PREVENTION_ACTIONS
<1> QED
  BY <1>1, <1>2, <1>3

\* Every action that can be selected is in the policy table.
LEMMA SelectedActions ==
  ASSUME NEW codes \in SUBSET SignalCodes, NEW state \in UserState, NEW m
  PROVE  select_actions(codes, state, m) \subseteq ActionCode
<1>1. CollectedActions(codes, state) \subseteq ActionCode \cup {VERIFY_CLAIMED_IDENTITY}
  <2>1. UNION {SIGNAL_ACTIONS[c] : c \in codes}
            \subseteq ActionCode \cup {VERIFY_CLAIMED_IDENTITY}
    BY TableActions
  <2>2. /\ STATE_ACTIONS[state] \subseteq ActionCode
        /\ STATE_PREVENTION_ACTIONS[state] \subseteq ActionCode
    BY TableActions
  <2> QED
    BY <2>1, <2>2 DEF CollectedActions
<1>2. \A context : resolve_verification_actions(codes, context) \subseteq ActionCode
  BY DEF resolve_verification_actions, ActionCode, ActionSources
<1>3. "VERIFY_OFFICIAL_CHANNEL" \in ActionCode
  BY DEF ActionCode, ActionSources
<1> QED
  BY <1>1, <1>2, <1>3 DEF select_actions

\* Every source in the policy table exists and supports its action.
LEMMA SourcesSupport ==
  \A a \in ActionCode : \A s \in ActionSources[a] : s \in DOMAIN Supports /\ a \in Supports[s]
  BY DEF ActionCode, ActionSources, Supports

LEMMA NeverFails ==
  ASSUME NEW codes \in SUBSET SignalCodes, NEW state \in UserState, NEW m
  PROVE  Supported(select_actions(codes, state, m))
  BY SelectedActions, SourcesSupport DEF Supported

-----------------------------------------------------------------------------
(* The parts of an answer.                                                 *)

Codes(r) == detect_canonical_signals(r.text, r.url)
Actions(r) == select_actions(Codes(r), r.state, r.text)
LevelOf(r) == determine_risk_level(Score(r.text), Codes(r), r.state)

LEMMA Answered ==
  ASSUME NEW r \in Request
  PROVE  analyze_fraud(r) =
           [codes   |-> Codes(r),
            score   |-> ShownScore(Score(r.text), LevelOf(r), Codes(r), r.state),
            level   |-> LevelOf(r),
            types   |-> classify_fraud_types(Codes(r), r.text),
            signals |-> project_public_signals(Codes(r)),
            actions |-> Actions(r),
            sources |-> sources_for_actions(Actions(r)),
            summary |-> _build_summary(classify_fraud_types(Codes(r), r.text),
                                       project_public_signals(Codes(r)), r.state)]
<1>1. r.state \in UserState /\ Codes(r) \subseteq SignalCodes
  BY CodesType DEF Request, Codes
<1>2. Supported(Actions(r))
  BY <1>1, NeverFails DEF Actions
<1> QED
  BY <1>2 DEF analyze_fraud, Answer, Codes, Actions, LevelOf

LEMMA PublicType ==
  ASSUME NEW codes \in SUBSET SignalCodes
  PROVE  project_public_signals(codes) \subseteq SignalCodes \cup LegacyCodes
<1>1. ASSUME NEW c \in SignalCodes
      PROVE  PublicCode(c) \in SignalCodes \cup LegacyCodes
  BY DEF PublicCode, CANONICAL_TO_LEGACY_PUBLIC, SignalCodes, LegacyCodes
<1> QED
  BY <1>1 DEF project_public_signals

LEMMA SummaryType ==
  ASSUME NEW types, NEW public, NEW state \in UserState
  PROVE  _build_summary(types, public, state) \in
           [says : {"types", "signals", "nothing"}, asks : {"verify", "respond", "urgent"}]
<1>1. CASE state = "received_only"
  BY <1>1 DEF _build_summary
<1>2. CASE state \in {"clicked_link", "shared_personal_info"}
  BY <1>2 DEF _build_summary
<1>3. CASE state \in UserState \ {"received_only", "clicked_link", "shared_personal_info"}
  BY <1>3 DEF _build_summary
<1> QED
  BY <1>1, <1>2, <1>3

LEMMA SourcesType ==
  ASSUME NEW actions \in SUBSET ActionCode
  PROVE  sources_for_actions(actions) \subseteq DOMAIN Supports
  BY SourcesSupport DEF sources_for_actions

LEMMA AnswersTyped ==
  ASSUME NEW r \in Request
  PROVE  analyze_fraud(r) \in AnswerType
<1>1. r.state \in UserState /\ Codes(r) \in SUBSET SignalCodes
  BY CodesType DEF Request, Codes
<1>2. Score(r.text) \in 0..100
  BY ScoreType DEF Score
<1>3. LevelOf(r) \in Level
  BY <1>1, LevelType DEF LevelOf
<1>4. ShownScore(Score(r.text), LevelOf(r), Codes(r), r.state) \in 0..100
  BY <1>2, <1>3, ShownScoreInBand
<1>5. classify_fraud_types(Codes(r), r.text) \subseteq DOMAIN TypeSignals
  BY DEF classify_fraud_types
<1>6. project_public_signals(Codes(r)) \subseteq SignalCodes \cup LegacyCodes
  BY <1>1, PublicType
<1>7. Actions(r) \subseteq ActionCode
  BY <1>1, SelectedActions DEF Actions
<1>8. sources_for_actions(Actions(r)) \subseteq DOMAIN Supports
  BY <1>7, SourcesType
<1>9. _build_summary(classify_fraud_types(Codes(r), r.text),
                     project_public_signals(Codes(r)), r.state)
        \in [says : {"types", "signals", "nothing"}, asks : {"verify", "respond", "urgent"}]
  BY <1>1, SummaryType
<1> QED
  BY <1>1, <1>3, <1>4, <1>5, <1>6, <1>7, <1>8, <1>9, Answered DEF AnswerType

-----------------------------------------------------------------------------
(* Invariance.                                                             *)

LEMMA CurrentInit == Init => Current
<1> SUFFICES ASSUME NEW c \in Clause, request = Fresh(c), answer = analyze_fraud(Fresh(c))
             PROVE  Current
  BY DEF Init
<1> QED
  BY DEF Current, Request, Text, Fresh, UserState

LEMMA AskCurrent ==
  ASSUME NEW r \in Request, Ask(r)
  PROVE  Current'
  BY DEF Ask, Current

LEMMA CurrentNext == Current /\ [Next]_vars => Current'
<1> SUFFICES ASSUME Current, [Next]_vars
             PROVE  Current'
  OBVIOUS
<1>0. /\ request \in Request
      /\ request.text \in Text
      /\ request = [text |-> request.text, url |-> request.url, state |-> request.state]
      /\ request.text = [clauses |-> request.text.clauses, links |-> request.text.links]
  BY DEF Current, Request, Text
<1>1. ASSUME NEW c \in Clause, PasteMore(c)
      PROVE  Current'
  <2>1. [request EXCEPT !.text.clauses = @ \cup {c}] \in Request
    BY <1>0 DEF Request, Text
  <2> QED
    BY <1>1, <2>1, AskCurrent DEF PasteMore
<1>2. ASSUME NEW u \in Supply, PasteLink(u)
      PROVE  Current'
  <2>1. [request EXCEPT !.text.links = {u}] \in Request
    BY <1>0 DEF Request, Text
  <2> QED
    BY <1>2, <2>1, AskCurrent DEF PasteLink
<1>3. ASSUME NEW u \in Supply, SupplyUrl(u)
      PROVE  Current'
  <2>1. [request EXCEPT !.url = {u}] \in Request
    BY <1>0 DEF Request
  <2> QED
    BY <1>3, <2>1, AskCurrent DEF SupplyUrl
<1>4. ASSUME NEW s \in UserState, ReportState(s)
      PROVE  Current'
  <2>1. [request EXCEPT !.state = s] \in Request
    BY <1>0 DEF Request
  <2> QED
    BY <1>4, <2>1, AskCurrent DEF ReportState
<1>5. CASE UNCHANGED vars
  BY <1>5 DEF vars, Current
<1> QED
  BY <1>1, <1>2, <1>3, <1>4, <1>5 DEF Next

LEMMA AlwaysCurrent == Spec => []Current
  BY CurrentInit, CurrentNext, PTL DEF Spec

\* Every request is answered, whatever the message, the link and the state.
THEOREM TypeCorrect == Spec => []TypeOK
<1>1. Current => TypeOK
  BY AnswersTyped DEF Current, TypeOK
<1> QED
  BY <1>1, AlwaysCurrent, PTL

\* The score and the level of every answer agree.
THEOREM ScoreAlwaysTellsLevel == Spec => []ScoreTellsLevel
<1>1. ASSUME Current
      PROVE  ScoreTellsLevel
  <2>1. request \in Request /\ answer = analyze_fraud(request)
    BY <1>1 DEF Current
  <2>2. request.state \in UserState
    BY <2>1 DEF Request
  <2>3. Score(request.text) \in 0..100 /\ LevelOf(request) \in Level
    BY <2>2, ScoreType, LevelType DEF Score, LevelOf
  <2> QED
    BY <2>1, <2>3, Answered, ShownScoreInBand DEF ScoreTellsLevel
<1> QED
  BY <1>1, AlwaysCurrent, PTL

-----------------------------------------------------------------------------
(* What the answer says.                                                   *)

LEMMA SignalsAct ==
  /\ \A c \in SignalCodes : \/ VERIFY_CLAIMED_IDENTITY \in SIGNAL_ACTIONS[c]
                            \/ \E a \in OutsideContact : a \in SIGNAL_ACTIONS[c]
  /\ VERIFY_CLAIMED_IDENTITY \notin OutsideContact
<1>1. ASSUME NEW c \in SignalCodes
      PROVE  \/ VERIFY_CLAIMED_IDENTITY \in SIGNAL_ACTIONS[c]
             \/ "CONTACT_1394" \in SIGNAL_ACTIONS[c]
             \/ "CONTACT_KISA_118" \in SIGNAL_ACTIONS[c]
  BY DEF SignalCodes, SIGNAL_ACTIONS, AskIdentity, GuardAccess, GuardDevice
<1> QED
  BY <1>1 DEF OutsideContact, VERIFY_CLAIMED_IDENTITY

LEMMA ResolvedOutside ==
  ASSUME NEW codes, NEW context
  PROVE  /\ resolve_verification_actions(codes, context) \subseteq OutsideContact
         /\ resolve_verification_actions(codes, context) # {}
  BY DEF resolve_verification_actions, OutsideContact

LEMMA AnySignalLeadsOutside ==
  ASSUME NEW codes \in SUBSET SignalCodes, codes # {}, NEW state, NEW m
  PROVE  select_actions(codes, state, m) \cap OutsideContact # {}
<1>1. PICK c \in codes : TRUE
  OBVIOUS
<1>2. SIGNAL_ACTIONS[c] \subseteq CollectedActions(codes, state)
  BY <1>1 DEF CollectedActions
<1>3. CASE VERIFY_CLAIMED_IDENTITY \in CollectedActions(codes, state)
  BY <1>3, ResolvedOutside DEF select_actions
<1>4. CASE VERIFY_CLAIMED_IDENTITY \notin CollectedActions(codes, state)
  <2>1. PICK a \in OutsideContact : a \in SIGNAL_ACTIONS[c]
    BY <1>1, <1>2, <1>4, SignalsAct
  <2> QED
    BY <1>2, <1>4, <2>1 DEF select_actions
<1> QED
  BY <1>3, <1>4

\* Whatever signal is found, the advice leads out of the conversation.
THEOREM AdviceAlwaysLeadsOutside == Spec => []AdviceLeadsOutside
<1>1. ASSUME Current
      PROVE  AdviceLeadsOutside
  <2>1. request \in Request /\ answer = analyze_fraud(request)
    BY <1>1 DEF Current
  <2>2. Codes(request) \in SUBSET SignalCodes
    BY CodesType DEF Codes
  <2>3. answer.codes = Codes(request) /\ answer.actions = Actions(request)
    BY <2>1, Answered
  <2> QED
    BY <2>2, <2>3, AnySignalLeadsOutside DEF AdviceLeadsOutside, Actions
<1> QED
  BY <1>1, AlwaysCurrent, PTL

LEMMA StateAlwaysAdvises ==
  ASSUME NEW state \in UserState, state # "received_only", NEW m
  PROVE  "PRESERVE_EVIDENCE" \in select_actions({}, state, m)
<1>1. "PRESERVE_EVIDENCE" \in STATE_ACTIONS[state]
  BY DEF UserState, STATE_ACTIONS, Respond, MoneyDesks
<1>2. "PRESERVE_EVIDENCE" \in CollectedActions({}, state)
  BY <1>1 DEF CollectedActions, SIGNAL_GATED_STATE_ACTIONS
<1> QED
  BY <1>2 DEF select_actions, VERIFY_CLAIMED_IDENTITY

LEMMA SomethingPublic ==
  ASSUME NEW codes, codes # {}
  PROVE  project_public_signals(codes) # {}
<1>1. CASE "receive_and_forward_money" \in codes
  BY <1>1 DEF project_public_signals
<1>2. CASE "receive_and_forward_money" \notin codes
  BY <1>2 DEF project_public_signals
<1> QED
  BY <1>1, <1>2

LEMMA ActionsWhenWarned ==
  ASSUME NEW codes \in SUBSET SignalCodes, NEW state \in UserState, NEW m,
         ~has_nothing_to_show(codes, state)
  PROVE  select_actions(codes, state, m) # {}
<1>1. CASE codes # {}
  BY <1>1, AnySignalLeadsOutside
<1>2. CASE codes = {}
  BY <1>2, StateAlwaysAdvises DEF has_nothing_to_show
<1> QED
  BY <1>1, <1>2

LEMMA SourcesOfActions ==
  ASSUME NEW actions \in SUBSET ActionCode, actions # {}
  PROVE  sources_for_actions(actions) # {}
<1>1. \A a \in ActionCode : \E s : s \in ActionSources[a]
  BY DEF ActionCode, ActionSources
<1> QED
  BY <1>1 DEF sources_for_actions

\* An answer that warns always has something to say and something to do.
THEOREM WarningAlwaysHasSubstance == Spec => []WarningHasSubstance
<1>1. ASSUME Current
      PROVE  WarningHasSubstance
  <2>1. request \in Request /\ answer = analyze_fraud(request)
    BY <1>1 DEF Current
  <2> DEFINE codes == Codes(request)
             state == request.state
  <2>2. codes \in SUBSET SignalCodes /\ state \in UserState
    BY <2>1, CodesType DEF Codes, Request
  <2>3. CASE has_nothing_to_show(codes, state)
    <3>1. answer.level = "low"
      BY <2>1, <2>3, Answered DEF LevelOf, determine_risk_level
    <3>2. answer.score = 0
      BY <2>1, <2>3, <3>1, Answered
         DEF ShownScore, Clamp, score_floor_for_level, score_ceiling_for_level,
             MEDIUM_RISK_SCORE_THRESHOLD
    <3>3. answer.types = {} /\ answer.signals = {}
      <4>1. answer.types = classify_fraud_types({}, request.text)
            /\ answer.signals = project_public_signals({})
        BY <2>1, <2>3, Answered DEF has_nothing_to_show
      <4>2. classify_fraud_types({}, request.text) = {}
        BY DEF classify_fraud_types
      <4>3. project_public_signals({}) = {}
        BY DEF project_public_signals
      <4> QED
        BY <4>1, <4>2, <4>3
    <3> QED
      BY <3>1, <3>2, <3>3 DEF WarningHasSubstance
  <2>4. CASE ~has_nothing_to_show(codes, state)
    <3>1. answer.actions # {} /\ answer.actions \in SUBSET ActionCode
      BY <2>1, <2>2, <2>4, Answered, ActionsWhenWarned, SelectedActions DEF Actions
    <3>2. answer.sources # {}
      BY <2>1, <3>1, Answered, SourcesOfActions
    <3>3. answer.summary.says = "nothing" => state # "received_only"
      <4>1. answer.summary = _build_summary(answer.types, answer.signals, state)
            /\ answer.signals = project_public_signals(codes)
        BY <2>1, Answered
      <4>2. answer.summary.says = "nothing" => answer.signals = {}
        BY <4>1 DEF _build_summary
      <4> QED
        BY <2>4, <4>1, <4>2, SomethingPublic DEF has_nothing_to_show
    <3> QED
      BY <3>1, <3>2, <3>3 DEF WarningHasSubstance
  <2> QED
    BY <2>3, <2>4
<1> QED
  BY <1>1, AlwaysCurrent, PTL

\* No signal is hidden by its public name or by another signal.
THEOREM NothingIsHidden == Spec => []NothingHidden
<1>1. ASSUME Current
      PROVE  NothingHidden
  <2>1. /\ answer.codes = Codes(request)
        /\ answer.signals = project_public_signals(Codes(request))
    BY <1>1, Answered DEF Current
  <2>2. PublicCode("receive_and_forward_money") = "money_mule"
    BY DEF PublicCode, CANONICAL_TO_LEGACY_PUBLIC
  <2>3. ASSUME NEW c \in Codes(request)
        PROVE  \/ PublicCode(c) \in answer.signals
               \/ c = "money_transfer_request" /\ "money_mule" \in answer.signals
    <3>1. CASE "receive_and_forward_money" \in Codes(request) /\ c = "money_transfer_request"
      BY <2>1, <2>2, <3>1 DEF project_public_signals
    <3>2. CASE "receive_and_forward_money" \in Codes(request) /\ c # "money_transfer_request"
      BY <2>1, <3>2 DEF project_public_signals
    <3>3. CASE "receive_and_forward_money" \notin Codes(request)
      BY <2>1, <3>3 DEF project_public_signals
    <3> QED
      BY <3>1, <3>2, <3>3
  <2> QED
    BY <2>1, <2>3 DEF NothingHidden
<1> QED
  BY <1>1, AlwaysCurrent, PTL

\* Each combination that makes a message high contains a signal with a type
\* of its own, and so does each signal that is high by itself.
LEMMA HighSignalsTyped ==
  /\ \A c \in {"remote_control_request", "receive_and_forward_money"} :
        \E t \in DOMAIN TypeSignals \ {"advance_fee_demand"} : c \in TypeSignals[t]
  /\ \A pair \in HIGH_RISK_SIGNAL_COMBINATIONS :
        \E t \in DOMAIN TypeSignals \ {"advance_fee_demand"} : TypeSignals[t] \cap pair # {}
<1>1. \A pair \in HIGH_RISK_SIGNAL_COMBINATIONS :
        pair \cap {"authority_impersonation", "loan_policy_offer", "familiar_person_claim",
                  "guaranteed_return_offer", "private_channel_invite",
                  "credential_request", "account_access_request",
                  "app_install_request"} # {}
  BY DEF HIGH_RISK_SIGNAL_COMBINATIONS, With
<1>2. \A c \in {"authority_impersonation", "loan_policy_offer", "familiar_person_claim",
                 "guaranteed_return_offer", "private_channel_invite",
                 "credential_request", "account_access_request", "app_install_request",
                 "remote_control_request", "receive_and_forward_money"} :
        \E t \in DOMAIN TypeSignals \ {"advance_fee_demand"} : c \in TypeSignals[t]
  BY DEF TypeSignals
<1> QED
  BY <1>1, <1>2

\* A level that the message alone raises to high comes with a type.
THEOREM HighAlwaysHasType == Spec => []HighHasType
<1>1. ASSUME Current
      PROVE  HighHasType
  <2> SUFFICES ASSUME answer.level = "high", request.state = "received_only",
                      risk_level(Score(request.text)) # "high"
               PROVE  answer.types # {}
    BY DEF HighHasType
  <2>1. request \in Request /\ answer = analyze_fraud(request)
    BY <1>1 DEF Current
  <2> DEFINE codes == Codes(request)
  <2>2. /\ answer.level = determine_risk_level(Score(request.text), codes, request.state)
        /\ answer.types = classify_fraud_types(codes, request.text)
    BY <2>1, Answered DEF LevelOf
  <2>3. ~has_nothing_to_show(codes, request.state) /\ request.state \in UserState
    BY <2>2 DEF determine_risk_level, UserState
  <2>4. "high" \in Evidence(Score(request.text), codes, request.state)
    BY <2>2, <2>3, LevelIsHighest
  <2>5. \/ \E c \in codes : SIGNAL_MINIMUM_RISK(c) = "high"
        \/ \E pair \in HIGH_RISK_SIGNAL_COMBINATIONS : pair \subseteq codes
    BY <2>4 DEF Evidence, STATE_MINIMUM_RISK
  <2>6. \E t \in DOMAIN TypeSignals \ {"advance_fee_demand"} : TypeSignals[t] \cap codes # {}
    BY <2>5, HighSignalsTyped DEF SIGNAL_MINIMUM_RISK
  <2> QED
    BY <2>2, <2>6 DEF classify_fraud_types
<1> QED
  BY <1>1, AlwaysCurrent, PTL

-----------------------------------------------------------------------------
(* What more evidence changes.                                             *)

\* A level asked for by more evidence is at least as high.
LEMMA LevelGrows ==
  ASSUME NEW score, NEW few \in SUBSET SignalCodes, NEW many \in SUBSET SignalCodes,
         few \subseteq many, NEW s \in UserState, NEW t \in UserState,
         s = t \/ s = "received_only"
  PROVE  RISK_RANK[determine_risk_level(score, few, s)]
             <= RISK_RANK[determine_risk_level(score, many, t)]
<1> DEFINE a == determine_risk_level(score, few, s)
           b == determine_risk_level(score, many, t)
<1>1. a \in Level /\ b \in Level
  BY LevelType
<1>2. CASE a = "low"
  BY <1>1, <1>2 DEF Level, RISK_RANK
<1>3. CASE a # "low"
  <2>1. ~has_nothing_to_show(few, s)
    BY <1>3 DEF determine_risk_level
  <2>2. ~has_nothing_to_show(many, t)
    BY <2>1 DEF has_nothing_to_show
  <2>3. a \in Evidence(score, few, s)
    BY <2>1, LevelIsHighest
  <2>4. a \in Evidence(score, many, t)
    <3>1. STATE_MINIMUM_RISK["received_only"] = "low"
      BY DEF STATE_MINIMUM_RISK
    <3> HIDE DEF a
    <3> QED
      BY <1>3, <2>3, <3>1 DEF Evidence
  <2> QED
    BY <2>2, <2>4, LevelIsHighest
<1> QED
  BY <1>2, <1>3

\* The score that is shown follows the level, and the score beneath it.
LEMMA ShownGrows ==
  ASSUME NEW score \in 0..100, NEW few \in SUBSET SignalCodes,
         NEW many \in SUBSET SignalCodes, few \subseteq many, NEW s \in UserState
  PROVE  ShownScore(score, determine_risk_level(score, few, s), few, s)
             <= ShownScore(score, determine_risk_level(score, many, s), many, s)
<1> DEFINE a == determine_risk_level(score, few, s)
           b == determine_risk_level(score, many, s)
           x == ShownScore(score, a, few, s)
           y == ShownScore(score, b, many, s)
<1> SUFFICES x <= y
  OBVIOUS
<1>1. a \in Level /\ b \in Level /\ RISK_RANK[a] <= RISK_RANK[b]
  BY LevelType, LevelGrows
<1>2. x \in 0..100 /\ y \in 0..100 /\ risk_level(x) = a /\ risk_level(y) = b
  BY <1>1, ShownScoreInBand
<1>3. has_nothing_to_show(few, s) => x = 0
  BY DEF ShownScore, Clamp, determine_risk_level, score_floor_for_level,
         score_ceiling_for_level, MEDIUM_RISK_SCORE_THRESHOLD
<1>4. ~has_nothing_to_show(few, s) => ~has_nothing_to_show(many, s)
  BY DEF has_nothing_to_show
<1> HIDE DEF a, b
<1>5. ~has_nothing_to_show(few, s) /\ a = b => x = y
  BY <1>4 DEF ShownScore
<1> HIDE DEF x, y
<1>6. CASE a = b
  BY <1>2, <1>3, <1>5, <1>6
<1>7. CASE a # b
  BY <1>1, <1>2, <1>7 DEF Level, RISK_RANK, risk_level, HIGH_RISK_SCORE_THRESHOLD,
                          MEDIUM_RISK_SCORE_THRESHOLD
<1> QED
  BY <1>6, <1>7

LEMMA NoPlaceholderInStates ==
  ASSUME NEW s \in UserState
  PROVE  /\ VERIFY_CLAIMED_IDENTITY \notin STATE_ACTIONS[s]
         /\ VERIFY_CLAIMED_IDENTITY \notin STATE_PREVENTION_ACTIONS[s]
<1>1. VERIFY_CLAIMED_IDENTITY \notin ActionCode
  BY DEF VERIFY_CLAIMED_IDENTITY, ActionCode, ActionSources
<1> QED
  BY <1>1, TableActions

LEMMA CollectedGrows ==
  ASSUME NEW few \in SUBSET SignalCodes, NEW many \in SUBSET SignalCodes,
         few \subseteq many, NEW s \in UserState, NEW t \in UserState,
         s = t \/ s = "received_only"
  PROVE  CollectedActions(few, s) \subseteq CollectedActions(many, t)
<1>1. STATE_ACTIONS["received_only"] = {} /\ STATE_PREVENTION_ACTIONS["received_only"] = {}
  BY DEF STATE_ACTIONS, STATE_PREVENTION_ACTIONS, UserState
<1>2. (UNION {SIGNAL_ACTIONS[c] : c \in few}) \subseteq UNION {SIGNAL_ACTIONS[c] : c \in many}
  OBVIOUS
<1>3. CASE few = {}
  BY <1>1, <1>3 DEF CollectedActions
<1>4. CASE few # {}
  BY <1>1, <1>2, <1>4 DEF CollectedActions
<1> QED
  BY <1>3, <1>4

\* No action is withdrawn, but for the contact that stands in for a channel.
LEMMA ActionsGrow ==
  ASSUME NEW few \in SUBSET SignalCodes, NEW many \in SUBSET SignalCodes,
         few \subseteq many, NEW s \in UserState, NEW t \in UserState,
         s = t \/ s = "received_only", NEW m, NEW n, Said(m) = Said(n)
  PROVE  select_actions(few, s, m) \ {"VERIFY_BY_KNOWN_CONTACT"}
             \subseteq select_actions(many, t, n)
<1> DEFINE v == VERIFY_CLAIMED_IDENTITY
           C == CollectedActions(few, s)
           D == CollectedActions(many, t)
           ctx == few # {} /\ mentions_official_channel_event(m)
           cty == many # {} /\ mentions_official_channel_event(n)
<1>1. C \subseteq D /\ (ctx => cty)
  BY CollectedGrows DEF mentions_official_channel_event
<1>2. /\ select_actions(few, s, m) =
            IF v \in C THEN (C \ {v}) \cup resolve_verification_actions(few, ctx)
            ELSE C \cup {a \in {"VERIFY_OFFICIAL_CHANNEL"} : ctx}
      /\ select_actions(many, t, n) =
            IF v \in D THEN (D \ {v}) \cup resolve_verification_actions(many, cty)
            ELSE D \cup {a \in {"VERIFY_OFFICIAL_CHANNEL"} : cty}
  BY DEF select_actions
<1>3. resolve_verification_actions(few, ctx) \ {"VERIFY_BY_KNOWN_CONTACT"}
          \subseteq resolve_verification_actions(many, cty)
  BY <1>1 DEF resolve_verification_actions
<1>4. ctx => "VERIFY_OFFICIAL_CHANNEL" \in resolve_verification_actions(many, cty)
  BY <1>1 DEF resolve_verification_actions
<1> HIDE DEF v, C, D, ctx, cty
<1> QED
  BY <1>1, <1>2, <1>3, <1>4

\* The level, the advice and the signals after an action are at least what
\* they were before it.
THEOREM StateAlwaysOnlyAdds == Spec => [][StateAdds]_vars
<1>1. ASSUME Current, Current', request'.text = request.text, request'.url = request.url,
             request.state = "received_only"
      PROVE  /\ RISK_RANK[answer.level] <= RISK_RANK[answer'.level]
             /\ answer.codes = answer'.codes
             /\ RISK_RANK[STATE_MINIMUM_RISK[request'.state]] <= RISK_RANK[answer'.level]
             /\ answer.actions \ {"VERIFY_BY_KNOWN_CONTACT"} \subseteq answer'.actions
  <2> DEFINE codes == Codes(request)
             m == request.text
             s == request'.state
  <2>1. /\ request \in Request /\ answer = analyze_fraud(request)
        /\ request' \in Request /\ answer' = analyze_fraud(request')
    BY <1>1 DEF Current
  <2>2. /\ codes \in SUBSET SignalCodes /\ s \in UserState
        /\ request.state \in UserState
    BY <2>1, CodesType DEF Codes, Request
  <2>3. /\ answer.codes = codes
        /\ answer.level = determine_risk_level(Score(m), codes, request.state)
        /\ answer.actions = select_actions(codes, request.state, m)
    BY <2>1, Answered DEF LevelOf, Actions
  <2>4. /\ answer'.codes = codes
        /\ answer'.level = determine_risk_level(Score(m), codes, s)
        /\ answer'.actions = select_actions(codes, s, m)
    BY <1>1, <2>1, Answered DEF LevelOf, Actions, Codes
  <2>5. RISK_RANK[answer.level] <= RISK_RANK[answer'.level]
    BY <1>1, <2>2, <2>3, <2>4, LevelGrows
  <2>6. answer.actions \ {"VERIFY_BY_KNOWN_CONTACT"} \subseteq answer'.actions
    BY <1>1, <2>2, <2>3, <2>4, ActionsGrow
  <2>7. RISK_RANK[STATE_MINIMUM_RISK[s]] <= RISK_RANK[answer'.level]
    <3>1. CASE has_nothing_to_show(codes, s)
      BY <2>4, <3>1 DEF has_nothing_to_show, determine_risk_level, STATE_MINIMUM_RISK, RISK_RANK
    <3>2. CASE ~has_nothing_to_show(codes, s)
      BY <2>2, <2>4, <3>2, LevelIsHighest, EvidenceLevels
    <3> QED
      BY <3>1, <3>2
  <2> QED
    BY <2>3, <2>4, <2>5, <2>6, <2>7
<1> QED
  BY <1>1, AlwaysCurrent, PTL DEF StateAdds

-----------------------------------------------------------------------------
(* Detection under more links and more clauses.                            *)

\* Rules are applied to the clauses of a message only.
LEMMA ClausesDecide ==
  ASSUME NEW m \in Text, NEW n \in Text, m.clauses = n.clauses, NEW rules
  PROVE  /\ Said(m) = Said(n)
         /\ ObjectGated(m, rules) = ObjectGated(n, rules)
         /\ \A link : _detect_by_rules(m, rules, link) = _detect_by_rules(n, rules, link)
<1>1. Said(m) = Said(n) /\ _open_clauses(m) = _open_clauses(n)
      /\ _demanding_clauses(m) = _demanding_clauses(n)
  BY DEF Said, _open_clauses, _demanding_clauses
<1>2. /\ _names_reachable_counter(m) = _names_reachable_counter(n)
      /\ _is_prevention_notice(m) = _is_prevention_notice(n)
  BY <1>1 DEF _names_reachable_counter, _is_prevention_notice, Obstructed
<1>3. _awaits_unsolicited_contact(m) = _awaits_unsolicited_contact(n)
  BY <1>1, <1>2 DEF _awaits_unsolicited_contact
<1>4. \A c : _safe_context_suppresses(c, m) = _safe_context_suppresses(c, n)
  BY <1>1, <1>2 DEF _safe_context_suppresses, Says
<1>5. \A r : object_gated_match(r, m) = object_gated_match(r, n)
  BY <1>1 DEF object_gated_match, _mentions_money
<1>6. ObjectGated(m, rules) = ObjectGated(n, rules)
  BY <1>4, <1>5 DEF ObjectGated
<1>7. \A sensitive : RequestGated(m, rules, sensitive) = RequestGated(n, rules, sensitive)
  BY <1>3, <1>4 DEF RequestGated
<1> QED
  BY <1>1, <1>6, <1>7 DEF _detect_by_rules

LEMMA RequestGatedGrows ==
  ASSUME NEW m, NEW rules, NEW p \in BOOLEAN, NEW q \in BOOLEAN, p => q
  PROVE  RequestGated(m, rules, p) \subseteq RequestGated(m, rules, q)
  BY DEF RequestGated

LEMMA LinkDetectsMore ==
  ASSUME NEW m, NEW rules, NEW p \in BOOLEAN, NEW q \in BOOLEAN, p => q
  PROVE  _detect_by_rules(m, rules, p) \subseteq _detect_by_rules(m, rules, q)
<1> DEFINE S(link) == \/ ObjectGated(m, rules) \cap SENSITIVE_REQUEST_SIGNALS # {}
                      \/ link
                      \/ _demands_something_sensitive(_open_clauses(m))
<1>1. S(p) \in BOOLEAN /\ S(q) \in BOOLEAN /\ (S(p) => S(q))
  OBVIOUS
<1>2. /\ _detect_by_rules(m, rules, p) = ObjectGated(m, rules) \cup RequestGated(m, rules, S(p))
      /\ _detect_by_rules(m, rules, q) = ObjectGated(m, rules) \cup RequestGated(m, rules, S(q))
  BY DEF _detect_by_rules
<1> HIDE DEF S
<1>3. RequestGated(m, rules, S(p)) \subseteq RequestGated(m, rules, S(q))
  BY <1>1, RequestGatedGrows
<1> QED
  BY <1>2, <1>3

Linked(m, supplied) == \E u \in m.links \cup supplied : _is_lexically_suspicious_url(u)

\* With the same clauses, a message that has gained a link has every signal
\* it had without one.
LEMMA LinkKeepsCodes ==
  ASSUME NEW m \in Text, NEW n \in Text, m.clauses = n.clauses, NEW a, NEW b,
         Linked(m, a) => Linked(n, b)
  PROVE  detect_canonical_signals(m, a) \subseteq detect_canonical_signals(n, b)
<1>1. Linked(m, a) \in BOOLEAN /\ Linked(n, b) \in BOOLEAN
  BY DEF Linked
<1>2. _detect_by_rules(m, SIGNAL_RULES, Linked(m, a))
          \subseteq _detect_by_rules(n, SIGNAL_RULES, Linked(n, b))
  BY <1>1, ClausesDecide, LinkDetectsMore
<1> QED
  BY <1>2 DEF detect_canonical_signals, Linked

LEMMA TypesGrow ==
  ASSUME NEW few, NEW many, few \subseteq many, NEW m, NEW n, Said(m) = Said(n)
  PROVE  classify_fraud_types(few, m) \subseteq classify_fraud_types(many, n)
  BY DEF classify_fraud_types

\* A step that keeps the clauses and the state can only have added a link.
LEMMA LinkStep ==
  ASSUME Current, [Next]_vars, request'.text.clauses = request.text.clauses
  PROVE  Linked(request.text, request.url) => Linked(request'.text, request'.url)
<1>0. /\ request \in Request /\ request.text \in Text
  BY DEF Current, Request
<1>1. ASSUME NEW c \in Clause, PasteMore(c)
      PROVE  FALSE
  <2>1. request'.text.clauses = request.text.clauses \cup {c} /\ c \notin request.text.clauses
    BY <1>0, <1>1 DEF PasteMore, Ask, Request, Text
  <2> QED
    BY <2>1
<1>2. ASSUME NEW u \in Supply, PasteLink(u) \/ SupplyUrl(u)
      PROVE  ~Linked(request.text, request.url)
  BY <1>2 DEF PasteLink, SupplyUrl, Linkless, Linked
<1>3. ASSUME NEW s \in UserState, ReportState(s)
      PROVE  request'.text = request.text /\ request'.url = request.url
  BY <1>0, <1>3 DEF ReportState, Ask, Request
<1>4. CASE UNCHANGED vars
  BY <1>4 DEF vars
<1> QED
  BY <1>1, <1>2, <1>3, <1>4 DEF Next

\* A link never weakens an answer, whatever the message.
THEOREM LinkAlwaysOnlyAdds == Spec => [][LinkAdds]_vars
<1>1. ASSUME Current, Current', [Next]_vars,
             request'.text.clauses = request.text.clauses, request'.state = request.state
      PROVE  /\ answer.codes \subseteq answer'.codes
             /\ answer.types \subseteq answer'.types
             /\ RISK_RANK[answer.level] <= RISK_RANK[answer'.level]
             /\ answer.score <= answer'.score
             /\ answer.actions \ {"VERIFY_BY_KNOWN_CONTACT"} \subseteq answer'.actions
  <2> DEFINE few == Codes(request)
             many == Codes(request')
             m == request.text
             n == request'.text
             s == request.state
  <2>1. /\ request \in Request /\ answer = analyze_fraud(request)
        /\ request' \in Request /\ answer' = analyze_fraud(request')
    BY <1>1 DEF Current
  <2>2. /\ m \in Text /\ n \in Text /\ m.clauses = n.clauses /\ s \in UserState
    BY <1>1, <2>1 DEF Request
  <2>3. few \in SUBSET SignalCodes /\ many \in SUBSET SignalCodes
    BY CodesType DEF Codes
  <2>4. few \subseteq many
    BY <1>1, <2>2, LinkStep, LinkKeepsCodes DEF Codes
  <2>5. Said(m) = Said(n)
    BY <2>2, ClausesDecide
  <2>6. Score(m) = Score(n) /\ Score(m) \in 0..100
    <3>0. \A link : _detect_by_rules(m, LEGACY_RULES, link) = _detect_by_rules(n, LEGACY_RULES, link)
      BY <2>2, ClausesDecide
    <3>1. detect_legacy_signals(m) = detect_legacy_signals(n)
      BY <3>0, Zenon DEF detect_legacy_signals
    <3> QED
      BY <3>1, ScoreType DEF Score
  <2>7. /\ answer.codes = few
        /\ answer.types = classify_fraud_types(few, m)
        /\ answer.level = determine_risk_level(Score(m), few, s)
        /\ answer.score = ShownScore(Score(m), determine_risk_level(Score(m), few, s), few, s)
        /\ answer.actions = select_actions(few, s, m)
    BY <2>1, Answered DEF LevelOf, Actions
  <2>8. /\ answer'.codes = many
        /\ answer'.types = classify_fraud_types(many, n)
        /\ answer'.level = determine_risk_level(Score(m), many, s)
        /\ answer'.score = ShownScore(Score(m), determine_risk_level(Score(m), many, s), many, s)
        /\ answer'.actions = select_actions(many, s, n)
    BY <1>1, <2>1, <2>6, Answered DEF LevelOf, Actions
  <2> HIDE DEF few, many, m, n, s
  <2>9. answer.types \subseteq answer'.types
    BY <2>4, <2>5, <2>7, <2>8, TypesGrow
  <2>10. RISK_RANK[answer.level] <= RISK_RANK[answer'.level]
    BY <2>2, <2>3, <2>4, <2>7, <2>8, LevelGrows
  <2>11. answer.score <= answer'.score
    BY <2>2, <2>3, <2>4, <2>6, <2>7, <2>8, ShownGrows
  <2>12. answer.actions \ {"VERIFY_BY_KNOWN_CONTACT"} \subseteq answer'.actions
    BY <2>2, <2>3, <2>4, <2>5, <2>7, <2>8, ActionsGrow
  <2> QED
    BY <2>4, <2>7, <2>8, <2>9, <2>10, <2>11, <2>12
<1> QED
  BY <1>1, CurrentNext, AlwaysCurrent, PTL DEF Spec, LinkAdds

-----------------------------------------------------------------------------
(* Notices and reassurance.                                                *)

LEMMA NoticeSuppresses ==
  ASSUME NEW m, NEW rules, NEW link, _is_prevention_notice(m)
  PROVE  _detect_by_rules(m, rules, link) = {}
<1>1. \A c : _safe_context_suppresses(c, m)
  BY DEF _safe_context_suppresses
<1>2. ObjectGated(m, rules) = {} /\ \A p : RequestGated(m, rules, p) = {}
  BY <1>1 DEF ObjectGated, RequestGated
<1> QED
  BY <1>2 DEF _detect_by_rules

\* A notice that asks for nothing stays silent, however many rules there are.
THEOREM NoticeAlwaysStaysSilent == Spec => []NoticeStaysSilent
<1>1. ASSUME Current
      PROVE  NoticeStaysSilent
  <2> DEFINE m == request.text
  <2> SUFFICES ASSUME \A c \in m.clauses : "prevention" \in Whole(c) \/ "counter" \in c.facts,
                      "prevention" \in Said(m),
                      Said(m) \cap {"exclusion", "monopoly"} = {}
               PROVE  answer.codes \subseteq {"suspicious_link"}
    BY DEF NoticeStaysSilent
  <2>1. ASSUME NEW c \in m.clauses
        PROVE  c \notin _open_clauses(m)
    <3>1. "monopoly" \notin c.facts
      BY DEF Said, Whole
    <3> QED
      BY <3>1 DEF _open_clauses, _demanding_clauses, _is_channel_referral
  <2>2. ~_has_reader_demand(_open_clauses(m))
    BY <2>1 DEF _has_reader_demand, _open_clauses, _demanding_clauses
  <2>3. _is_prevention_notice(m)
    BY <2>2 DEF _is_prevention_notice, Obstructed
  <2>4. answer.codes = detect_canonical_signals(m, request.url)
    BY <1>1, Answered DEF Current, Codes
  <2> QED
    BY <2>3, <2>4, NoticeSuppresses DEF detect_canonical_signals
<1> QED
  BY <1>1, AlwaysCurrent, PTL

\* What a reassuring clause can change in what the message says.
LEMMA Reassured ==
  ASSUME NEW m, NEW n, NEW c, Reassuring(c), n.clauses = m.clauses \cup {c}
  PROVE  /\ _open_clauses(m) \subseteq _open_clauses(n)
         /\ Said(m) \subseteq Said(n)
         /\ Said(n) \subseteq Said(m) \cup {"prevention", "official", "completed", "counter"}
  BY DEF Reassuring, Said, _open_clauses, _demanding_clauses

LEMMA EntriesGrow ==
  ASSUME NEW r, NEW gate, NEW few, NEW many, few \subseteq many
  PROVE  Entries(r, gate, few) \subseteq Entries(r, gate, many)
  BY DEF Entries

\* Clauses that are added never break a match: matching only ever looks for
\* something that is there.
LEMMA MatchGrows ==
  ASSUME NEW r, NEW m, NEW n, m.clauses \subseteq n.clauses, Said(m) \subseteq Said(n),
         _open_clauses(m) \subseteq _open_clauses(n), object_gated_match(r, m)
  PROVE  object_gated_match(r, n)
<1> DEFINE a == _open_clauses(m)
           b == _open_clauses(n)
<1>1. /\ \A gate : Entries(r, gate, a) \subseteq Entries(r, gate, b)
      /\ \A gate : Entries(r, gate, m.clauses) \subseteq Entries(r, gate, n.clauses)
  BY EntriesGrow
<1>2. _has_reader_demand(a) => _has_reader_demand(b)
  BY DEF _has_reader_demand
<1>3. _mentions_money(a, m) => _mentions_money(b, n)
  BY DEF _mentions_money
<1>4. \A gate : Pressed(r, gate, a) => Pressed(r, gate, b)
  BY <1>1, <1>2 DEF Pressed
<1>5. a \subseteq b
  OBVIOUS
<1> HIDE DEF a, b
<1>6. CASE Entries(r, "plain", m.clauses) # {}
  BY <1>1, <1>6 DEF object_gated_match
<1> DEFINE Shown(c) == /\ Entries(r, "pattern", {c}) # {}
                       /\ r.code = "secrecy_isolation" => "secret" \notin Whole(c)
<1> HIDE DEF Shown
<1>7. CASE \E c \in a : Shown(c)
  <2>1. \E c \in b : Shown(c)
    BY <1>5, <1>7
  <2> QED
    BY <2>1 DEF object_gated_match, b, Shown
<1>8. CASE /\ _has_reader_demand(a)
           /\ \E w \in Entries(r, "demand", a) : w.mood # "accused"
  <2>1. /\ _has_reader_demand(b)
        /\ \E w \in Entries(r, "demand", b) : w.mood # "accused"
    BY <1>1, <1>2, <1>8
  <2> QED
    BY <2>1 DEF object_gated_match, b
<1>9. CASE /\ _mentions_money(a, m)
           /\ \/ Pressed(r, "money", a)
              \/ _has_reader_demand(a) /\ Entries(r, "sequence", a) # {}
              \/ "receipt" \in Said(m) /\ Pressed(r, "receipt", a)
  <2>1. /\ _mentions_money(b, n)
        /\ \/ Pressed(r, "money", b)
           \/ _has_reader_demand(b) /\ Entries(r, "sequence", b) # {}
           \/ "receipt" \in Said(n) /\ Pressed(r, "receipt", b)
    BY <1>1, <1>2, <1>3, <1>4, <1>9
  <2> QED
    BY <2>1 DEF object_gated_match, b
<1>10. CASE /\ \E c \in a : "investment" \in Whole(c)
            /\ Entries(r, "investment", a) # {}
  BY <1>1, <1>5, <1>10 DEF object_gated_match, b
<1> QED
  BY <1>6, <1>7, <1>8, <1>9, <1>10 DEF object_gated_match, a, Shown

LEMMA ReassuranceKeepsCodes ==
  ASSUME NEW m, NEW n, NEW c, Reassuring(c), n.clauses = m.clauses \cup {c},
         _has_reader_demand(_open_clauses(m)), NEW link \in BOOLEAN
  PROVE  _detect_by_rules(m, SIGNAL_RULES, link) \subseteq _detect_by_rules(n, SIGNAL_RULES, link)
<1>1. /\ _open_clauses(m) \subseteq _open_clauses(n)
      /\ Said(m) \subseteq Said(n)
      /\ Said(n) \subseteq Said(m) \cup {"prevention", "official", "completed", "counter"}
  BY Reassured
<1>2. _has_reader_demand(_open_clauses(n))
  BY <1>1 DEF _has_reader_demand
<1>3. ~_names_reachable_counter(n) /\ ~_is_prevention_notice(n)
  BY <1>2 DEF _names_reachable_counter, _is_prevention_notice
<1>4. \A x : _safe_context_suppresses(x, n) => _safe_context_suppresses(x, m)
  BY <1>1, <1>3 DEF _safe_context_suppresses, Says
<1>5. _awaits_unsolicited_contact(m) => _awaits_unsolicited_contact(n)
  BY <1>1, <1>3 DEF _awaits_unsolicited_contact
<1>6. \A r : object_gated_match(r, m) => object_gated_match(r, n)
  BY <1>1, MatchGrows
<1>7. ObjectGated(m, SIGNAL_RULES) \subseteq ObjectGated(n, SIGNAL_RULES)
  BY <1>4, <1>6 DEF ObjectGated
<1>8. \A r : Entries(r, "request", m.clauses) \subseteq Entries(r, "request", n.clauses)
  BY EntriesGrow
<1>9. _demands_something_sensitive(_open_clauses(m)) => _demands_something_sensitive(_open_clauses(n))
  BY <1>1 DEF _demands_something_sensitive
<1>10. ASSUME NEW p \in BOOLEAN, NEW q \in BOOLEAN, p => q
       PROVE  RequestGated(m, SIGNAL_RULES, p) \subseteq RequestGated(n, SIGNAL_RULES, q)
  BY <1>4, <1>5, <1>8, <1>10 DEF RequestGated
<1> DEFINE S(x) == \/ ObjectGated(x, SIGNAL_RULES) \cap SENSITIVE_REQUEST_SIGNALS # {}
                   \/ link
                   \/ _demands_something_sensitive(_open_clauses(x))
<1>11. S(m) \in BOOLEAN /\ S(n) \in BOOLEAN /\ (S(m) => S(n))
  BY <1>7, <1>9
<1>12. /\ _detect_by_rules(m, SIGNAL_RULES, link)
             = ObjectGated(m, SIGNAL_RULES) \cup RequestGated(m, SIGNAL_RULES, S(m))
       /\ _detect_by_rules(n, SIGNAL_RULES, link)
             = ObjectGated(n, SIGNAL_RULES) \cup RequestGated(n, SIGNAL_RULES, S(n))
  BY DEF _detect_by_rules
<1> HIDE DEF S
<1> QED
  BY <1>7, <1>10, <1>11, <1>12

\* Reassurance, in any number of steps, hides no signal of a message that
\* demands something.
THEOREM ReassuranceAlwaysHidesNothing == Spec => ReassuranceHidesNothing
<1>1. ASSUME Current, Current', [Next]_vars,
             _has_reader_demand(_open_clauses(request.text)),
             NEW c \in Clause, Reassuring(c),
             request'.text.clauses = request.text.clauses \cup {c}
      PROVE  answer.codes \subseteq answer'.codes
  <2> DEFINE m == request.text
             n == request'.text
  <2>1. /\ m \in Text /\ n \in Text
        /\ answer.codes = detect_canonical_signals(m, request.url)
        /\ answer'.codes = detect_canonical_signals(n, request'.url)
    BY <1>1, Answered DEF Current, Codes, Request
  <2>2. CASE n.clauses = m.clauses
    <3>1. Linked(m, request.url) => Linked(n, request'.url)
      BY <1>1, <2>2, LinkStep
    <3> QED
      BY <2>1, <2>2, <3>1, LinkKeepsCodes
  <2>3. CASE n.clauses # m.clauses
    <3>1. n.links = m.links /\ request'.url = request.url
      <4>1. ASSUME NEW d \in Clause, PasteMore(d)
            PROVE  n.links = m.links /\ request'.url = request.url
        BY <1>1, <4>1 DEF PasteMore, Ask, Current, Request, Text
      <4>2. ASSUME NEW u \in Supply, PasteLink(u) \/ SupplyUrl(u)
            PROVE  n.clauses = m.clauses
        BY <1>1, <4>2 DEF PasteLink, SupplyUrl, Ask, Current, Request, Text
      <4>3. ASSUME NEW s \in UserState, ReportState(s)
            PROVE  n.clauses = m.clauses
        BY <1>1, <4>3 DEF ReportState, Ask, Current, Request, Text
      <4>4. CASE UNCHANGED vars
        BY <4>4 DEF vars
      <4> QED
        BY <1>1, <2>3, <4>1, <4>2, <4>3, <4>4 DEF Next
    <3>2. Linked(m, request.url) = Linked(n, request'.url)
      BY <3>1 DEF Linked
    <3>3. Linked(m, request.url) \in BOOLEAN
      BY DEF Linked
    <3>4. _detect_by_rules(m, SIGNAL_RULES, Linked(m, request.url))
              \subseteq _detect_by_rules(n, SIGNAL_RULES, Linked(m, request.url))
      BY <1>1, <3>3, ReassuranceKeepsCodes
    <3> QED
      BY <2>1, <3>2, <3>4 DEF detect_canonical_signals, Linked
  <2> QED
    BY <2>2, <2>3
<1>2. ASSUME Current, Current', [Next]_vars
      PROVE  [/\ _has_reader_demand(_open_clauses(request.text))
              /\ \E c \in Clause : /\ Reassuring(c)
                                   /\ request'.text.clauses = request.text.clauses \cup {c}
              => answer.codes \subseteq answer'.codes]_vars
  BY <1>1, <1>2
<1> QED
  BY <1>2, AlwaysCurrent, PTL DEF Spec, ReassuranceHidesNothing

\* A warning always has its reasons, its name and its signals on the screen.
THEOREM AnswerAlwaysExplainsItself == Spec => []AnswerExplainsItself
  BY WarningAlwaysHasSubstance, HighAlwaysHasType, NothingIsHidden, PTL DEF AnswerExplainsItself

\* Neither a link nor what the user has done ever weakens an answer.
THEOREM EvidenceAlwaysOnlyAdds == Spec => EvidenceOnlyAdds
  BY LinkAlwaysOnlyAdds, StateAlwaysOnlyAdds, PTL DEF EvidenceOnlyAdds
=============================================================================
