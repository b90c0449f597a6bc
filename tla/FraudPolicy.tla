----------------------------- MODULE FraudPolicy -----------------------------
(***************************************************************************)
(* The policy that turns signals and what the user has already done into a *)
(* level, a score, fraud types, actions and their official sources         *)
(* (app/domain/fraud/policy.py, classification.py, sources.py).            *)
(***************************************************************************)
EXTENDS FraudSignals

UserState == {"received_only", "clicked_link", "shared_personal_info",
              "shared_account_access", "installed_app", "received_unknown_money",
              "transferred_money"}

Level == {"low", "medium", "high"}
RISK_RANK == [low |-> 0, medium |-> 1, high |-> 2]

HIGH_RISK_SCORE_THRESHOLD == 70
MEDIUM_RISK_SCORE_THRESHOLD == 35

-----------------------------------------------------------------------------
(* The level.                                                              *)

\* risk_engine.risk_level: the band a score lies in.
risk_level(score) ==
    IF score >= HIGH_RISK_SCORE_THRESHOLD THEN "high"
    ELSE IF score >= MEDIUM_RISK_SCORE_THRESHOLD THEN "medium" ELSE "low"

STATE_MINIMUM_RISK ==
    [received_only |-> "low", clicked_link |-> "medium",
     shared_personal_info |-> "medium", shared_account_access |-> "high",
     installed_app |-> "high", received_unknown_money |-> "high",
     transferred_money |-> "high"]

SIGNAL_MINIMUM_RISK(code) ==
    IF code \in {"remote_control_request", "receive_and_forward_money"} THEN "high"
    ELSE IF code = "urgency_pressure" THEN "low" ELSE "medium"

With(code, others) == {{code, other} : other \in others}

HIGH_RISK_SIGNAL_COMBINATIONS ==
    With("authority_impersonation",
         {"money_transfer_request", "credential_request", "account_access_request",
          "app_install_request", "remote_control_request",
          "receive_and_forward_money", "card_delivery_claim", "suspicious_link",
          "secrecy_isolation"})
    \cup With("loan_policy_offer", {"account_access_request",
                                    "money_transfer_request", "credential_request"})
    \cup With("familiar_person_claim", {"money_transfer_request",
                                        "credential_request", "account_access_request"})
    \cup With("money_transfer_request", {"guaranteed_return_offer",
                                         "private_channel_invite"})
    \cup With("urgency_pressure", {"credential_request", "account_access_request"})
    \cup {{"app_install_request", "remote_control_request"}}

has_nothing_to_show(codes, state) == codes = {} /\ state = "received_only"

\* The highest of the levels that the score, each signal, a combination and
\* the state ask for; none of them lowers another.
Evidence(score, codes, state) ==
    {risk_level(score), STATE_MINIMUM_RISK[state]}
    \cup {SIGNAL_MINIMUM_RISK(c) : c \in codes}
    \cup {l \in {"high"} : \E pair \in HIGH_RISK_SIGNAL_COMBINATIONS : pair \subseteq codes}

determine_risk_level(score, codes, state) ==
    IF has_nothing_to_show(codes, state) THEN "low"
    ELSE CHOOSE l \in Evidence(score, codes, state) :
             \A k \in Evidence(score, codes, state) : RISK_RANK[k] <= RISK_RANK[l]

\* Mutant: the medium band has no floor.
score_floor_for_level_HighOnly(level) ==
    IF level = "high" THEN HIGH_RISK_SCORE_THRESHOLD ELSE 0

score_floor_for_level(level) ==
    IF level = "high" THEN HIGH_RISK_SCORE_THRESHOLD
    ELSE IF level = "medium" THEN MEDIUM_RISK_SCORE_THRESHOLD ELSE 0

score_ceiling_for_level(level) ==
    IF level = "high" THEN 100
    ELSE IF level = "medium" THEN HIGH_RISK_SCORE_THRESHOLD - 1
    ELSE MEDIUM_RISK_SCORE_THRESHOLD - 1

-----------------------------------------------------------------------------
(* The types a user reads.                                                 *)

\* The signals that each type is made of.
TypeSignals ==
    [authority_impersonation |-> {"authority_impersonation"},
     acquaintance_impersonation |-> {"familiar_person_claim"},
     loan_policy_impersonation |-> {"loan_policy_offer"},
     investment_scheme |-> {"guaranteed_return_offer", "private_channel_invite"},
     advance_fee_demand |-> {"money_transfer_request"},
     account_access_request |-> {"credential_request", "account_access_request"},
     money_mule_transfer |-> {"receive_and_forward_money"},
     smishing_malware |-> {"suspicious_link", "app_install_request",
                           "remote_control_request"},
     card_delivery_impersonation |-> {"card_delivery_claim"},
     isolation_coercion |-> {"secrecy_isolation"}]

\* Mutant: an app that reads the screen belongs to no type.
classify_fraud_types_LinksOnly(codes, m) ==
    {t \in DOMAIN TypeSignals :
        /\ (TypeSignals[t] \ {"app_install_request", "remote_control_request"}) \cap codes # {}
        /\ t = "advance_fee_demand" => "advance_fee" \in Said(m)}

classify_fraud_types(codes, m) ==
    {t \in DOMAIN TypeSignals : /\ TypeSignals[t] \cap codes # {}
                                /\ t = "advance_fee_demand" => "advance_fee" \in Said(m)}

-----------------------------------------------------------------------------
(* The actions.  VERIFY_CLAIMED_IDENTITY is a placeholder that the policy  *)
(* table does not know: it must be resolved before the actions are read.   *)

ActionSources ==
    [STOP_CONTACT |-> {"police_1394"},
     DO_NOT_CLICK |-> {"kisa_smishing"},
     DO_NOT_INSTALL |-> {"kisa_smishing"},
     DO_NOT_SHARE_ACCESS |-> {"electronic_financial_transactions_act"},
     DO_NOT_FORWARD_MONEY |-> {"police_1394", "fraud_refund_act"},
     VERIFY_OFFICIAL_CHANNEL |-> {"police_1394"},
     VERIFY_BY_KNOWN_CONTACT |-> {"police_1394"},
     CONTACT_FINANCIAL_INSTITUTION |-> {"fraud_refund_act", "police_ecrm_victim_help"},
     CONTACT_1394 |-> {"police_1394"},
     CONTACT_112 |-> {"police_ecrm_victim_help"},
     CONTACT_KISA_118 |-> {"kisa_118", "kisa_smishing"},
     PRESERVE_EVIDENCE |-> {"police_ecrm_victim_help"}]

ActionCode == DOMAIN ActionSources

\* official_sources.json: the actions each source may be cited for.
Supports ==
    [police_1394 |-> {"STOP_CONTACT", "DO_NOT_FORWARD_MONEY", "CONTACT_1394",
                      "VERIFY_OFFICIAL_CHANNEL", "VERIFY_BY_KNOWN_CONTACT"},
     police_ecrm_victim_help |-> {"CONTACT_FINANCIAL_INSTITUTION", "CONTACT_112",
                                  "PRESERVE_EVIDENCE"},
     kisa_118 |-> {"CONTACT_KISA_118"},
     kisa_smishing |-> {"DO_NOT_CLICK", "DO_NOT_INSTALL", "CONTACT_KISA_118"},
     electronic_financial_transactions_act |-> {"DO_NOT_SHARE_ACCESS"},
     fraud_refund_act |-> {"DO_NOT_FORWARD_MONEY", "CONTACT_FINANCIAL_INSTITUTION"}]

VERIFY_CLAIMED_IDENTITY == "VERIFY_CLAIMED_IDENTITY"

OFFICIAL_CHANNEL_SIGNALS ==
    {"authority_impersonation", "loan_policy_offer", "card_delivery_claim",
     "guaranteed_return_offer", "private_channel_invite"}

KNOWN_CONTACT_SIGNALS == {"familiar_person_claim"}

resolve_verification_actions(codes, official_channel_context) ==
    LET resolved ==
        {a \in {"VERIFY_OFFICIAL_CHANNEL"} :
             codes \cap OFFICIAL_CHANNEL_SIGNALS # {} \/ official_channel_context}
        \cup {a \in {"VERIFY_BY_KNOWN_CONTACT"} : codes \cap KNOWN_CONTACT_SIGNALS # {}}
    IN  IF resolved = {} THEN {"VERIFY_BY_KNOWN_CONTACT"} ELSE resolved

AskIdentity == {"STOP_CONTACT", VERIFY_CLAIMED_IDENTITY}
GuardAccess == AskIdentity \cup {"DO_NOT_SHARE_ACCESS"}
\* Mutant: the installed app is nobody's desk.
GuardDevice_NoDesk == {"DO_NOT_INSTALL"}

GuardDevice == {"DO_NOT_INSTALL", "CONTACT_KISA_118"}

SIGNAL_ACTIONS ==
    [urgency_pressure |-> AskIdentity,
     authority_impersonation |-> AskIdentity,
     secrecy_isolation |-> AskIdentity,
     loan_policy_offer |-> AskIdentity,
     credential_request |-> GuardAccess,
     account_access_request |-> GuardAccess,
     app_install_request |-> GuardDevice,
     remote_control_request |-> GuardDevice,
     money_transfer_request |-> {"STOP_CONTACT", "CONTACT_1394"},
     receive_and_forward_money |-> {"DO_NOT_FORWARD_MONEY", "CONTACT_1394",
                                    "CONTACT_FINANCIAL_INSTITUTION"},
     suspicious_link |-> {"DO_NOT_CLICK", "CONTACT_KISA_118"},
     card_delivery_claim |-> {"DO_NOT_SHARE_ACCESS", VERIFY_CLAIMED_IDENTITY},
     familiar_person_claim |-> AskIdentity,
     guaranteed_return_offer |-> AskIdentity,
     private_channel_invite |-> AskIdentity]

Respond == {"STOP_CONTACT", "PRESERVE_EVIDENCE"}
MoneyDesks == {"CONTACT_FINANCIAL_INSTITUTION", "CONTACT_1394", "CONTACT_112"}

STATE_ACTIONS ==
    [received_only |-> {},
     clicked_link |-> Respond \cup {"DO_NOT_CLICK", "CONTACT_KISA_118"},
     shared_personal_info |-> Respond \cup {"CONTACT_KISA_118", "CONTACT_1394"},
     shared_account_access |-> Respond \cup MoneyDesks,
     installed_app |-> Respond \cup {"CONTACT_KISA_118", "CONTACT_1394",
                                     "CONTACT_FINANCIAL_INSTITUTION"},
     received_unknown_money |-> Respond \cup MoneyDesks \cup {"DO_NOT_FORWARD_MONEY"},
     transferred_money |-> Respond \cup MoneyDesks]

\* Prevention for who has already given in once; only beside a signal.
STATE_PREVENTION_ACTIONS ==
    [s \in UserState |->
        CASE s \in {"shared_personal_info", "shared_account_access"} -> {"DO_NOT_SHARE_ACCESS"}
          [] s = "installed_app" -> {"DO_NOT_INSTALL"}
          [] s = "transferred_money" -> {"DO_NOT_FORWARD_MONEY"}
          [] s \in {"received_only", "clicked_link", "received_unknown_money"} -> {}]

SIGNAL_GATED_STATE_ACTIONS == {"STOP_CONTACT"}

mentions_official_channel_event(m) == "event" \in Said(m)

CollectedActions(codes, state) ==
    (UNION {SIGNAL_ACTIONS[c] : c \in codes})
    \cup IF codes = {} THEN STATE_ACTIONS[state] \ SIGNAL_GATED_STATE_ACTIONS
         ELSE STATE_ACTIONS[state] \cup STATE_PREVENTION_ACTIONS[state]

\* Mutant: the placeholder stays beside what it was resolved to.
select_actions_Unresolved(codes, state, m) ==
    LET collected == CollectedActions(codes, state)
        context == codes # {} /\ mentions_official_channel_event(m)
    IN  IF VERIFY_CLAIMED_IDENTITY \in collected
        THEN collected \cup resolve_verification_actions(codes, context)
        ELSE collected \cup {a \in {"VERIFY_OFFICIAL_CHANNEL"} : context}

select_actions(codes, state, m) ==
    LET collected == CollectedActions(codes, state)
        context == codes # {} /\ mentions_official_channel_event(m)
    IN  IF VERIFY_CLAIMED_IDENTITY \in collected
        THEN (collected \ {VERIFY_CLAIMED_IDENTITY})
             \cup resolve_verification_actions(codes, context)
        ELSE collected \cup {a \in {"VERIFY_OFFICIAL_CHANNEL"} : context}

\* A source that does not exist or does not support the action is an error
\* of the whole request, and so is an action the policy table lacks.
Supported(actions) ==
    \A a \in actions : /\ a \in ActionCode
                       /\ \A s \in ActionSources[a] : s \in DOMAIN Supports
                                                      /\ a \in Supports[s]

sources_for_actions(actions) == UNION {ActionSources[a] : a \in actions}
=============================================================================
