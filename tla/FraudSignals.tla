---------------------------- MODULE FraudSignals ----------------------------
(***************************************************************************)
(* The rule engine that finds risk signals in a message                    *)
(* (app/domain/fraud/signals.py).  A message is a set of clauses and the   *)
(* links in it.  What the vocabulary and the regular expressions recognise *)
(* in a clause is given as data:                                           *)
(*                                                                         *)
(*   facts   what the clause says (it demands, it reports a finished act,  *)
(*           it names a counter ...);                                      *)
(*   ahead   the facts that stand before the last prohibition of the form  *)
(*           "-myeon an doe-", which _strip_prohibited_segment cuts off;   *)
(*   words   the entries of the rule tables it contains: the rule's code,  *)
(*           the table (gate) the entry is in, and the mood it stands in.  *)
(*                                                                         *)
(* What the engine concludes from them is modelled in full.                *)
(***************************************************************************)
EXTENDS Naturals, FiniteSets

-----------------------------------------------------------------------------
(* What a clause can say. *)

\* Clauses that close themselves to demands, and what points at a counter.
ReachFacts == {"prevention", "official", "completed", "counter", "monopoly",
               "exclusion", "pending", "initiated"}

\* Demands, and requests that no institution makes by text message.
DemandFacts == {"demand", "sensitive"}

MoneyFacts == {"money", "amount", "destination", "receipt", "investment"}

\* The phrases that only one suppression each looks at.
ContextFacts == {"secret", "do_not_share", "hand_over", "group", "never_asks",
                 "pay_now", "deposit_insurance", "comparison", "rates",
                 "fee_deposit", "do_not_install", "install_now",
                 "own_request", "official_app"}

\* Two vocabularies of other modules: events that have an official counter
\* (policy.py) and promises that a fee comes first (classification.py).
PolicyFacts == {"event", "advance_fee"}

Fact == ReachFacts \cup DemandFacts \cup MoneyFacts \cup ContextFacts \cup PolicyFacts

-----------------------------------------------------------------------------
(* The rules: which tables of words each signal has.                       *)

Rule(code, gates) == [code |-> code, gates |-> gates]

ClaimRules ==
    {Rule("urgency_pressure", {"plain"}),
     Rule("authority_impersonation", {"plain", "request"})}

PersonRules ==
    {Rule("secrecy_isolation", {"plain", "pattern"}),
     Rule("familiar_person_claim", {"plain", "demand"})}

OfferRules ==
    {Rule("guaranteed_return_offer", {"plain"}),
     Rule("private_channel_invite", {"plain", "investment"}),
     Rule("loan_policy_offer", {"plain", "request"})}

AccessRules ==
    {Rule("credential_request", {"demand"}),
     Rule("account_access_request", {"plain", "demand"}),
     Rule("app_install_request", {"plain", "demand"}),
     Rule("remote_control_request", {"plain"})}

MoneyRules ==
    {Rule("money_transfer_request", {"plain", "pattern", "demand", "money"}),
     Rule("receive_and_forward_money", {"plain", "money", "sequence", "receipt"})}

CardRules == {Rule("card_delivery_claim", {"plain"})}

SIGNAL_RULES == ClaimRules \cup PersonRules \cup OfferRules \cup AccessRules
                \cup MoneyRules \cup CardRules

LEGACY_RULES ==
    {Rule("urgency", {"plain"}),
     Rule("credential", {"demand"}),
     Rule("account_access", {"plain", "demand"}),
     Rule("remote_app", {"plain", "demand"}),
     Rule("money_mule", {"plain", "money"})}

LegacyCodes == {"urgency", "credential", "account_access", "remote_app", "money_mule"}

SignalCodes ==
    {"urgency_pressure", "authority_impersonation", "secrecy_isolation",
     "familiar_person_claim", "guaranteed_return_offer", "private_channel_invite",
     "loan_policy_offer", "credential_request", "account_access_request",
     "app_install_request", "remote_control_request", "money_transfer_request",
     "receive_and_forward_money", "card_delivery_claim", "suspicious_link"}

SENSITIVE_REQUEST_SIGNALS ==
    {"credential_request", "account_access_request", "app_install_request",
     "remote_control_request", "money_transfer_request",
     "receive_and_forward_money", "card_delivery_claim", "secrecy_isolation"}

Word == [code : SignalCodes \cup LegacyCodes,
         gate : {"plain", "pattern", "demand", "money", "sequence", "receipt",
                 "investment", "request"},
         mood : {"stated", "imperative", "prohibited", "accused"}]

ClauseType == [ahead : SUBSET Fact, facts : SUBSET Fact, words : SUBSET Word]

-----------------------------------------------------------------------------
(* Links are judged by their form and never opened.                        *)

Link == [scheme : {"none", "https", "http", "other", "opaque"},
         host   : {"empty", "broken", "none", "name", "localhost", "punycode",
                   "shortener", "address"},
         user   : BOOLEAN]

_is_lexically_suspicious_url(u) ==
    /\ u.host # "empty"
    /\ \/ u.scheme \in {"opaque", "other", "http"}
       \/ u.host \in {"broken", "localhost", "punycode", "shortener", "address"}
       \/ u.host = "name" /\ u.user

-----------------------------------------------------------------------------
(* What the clauses of a message supply.                                   *)

Whole(c) == c.ahead \cup c.facts

\* The facts of the message as a whole (`normalized` in the code).
Said(m) == UNION {Whole(c) : c \in m.clauses}

_is_channel_referral(c) == "counter" \in c.facts /\ "monopoly" \notin c.facts

_demanding_clauses(m) == {c \in m.clauses : "prevention" \notin Whole(c)}

_open_clauses(m) ==
    {c \in _demanding_clauses(m) : "completed" \notin Whole(c)
                                   /\ ~_is_channel_referral(c)}

\* A demand counts only behind the last prohibition of its clause.
_has_reader_demand(cs) == \E c \in cs : "demand" \in c.facts

_mentions_money(cs, m) ==
    \/ \E c \in cs : Whole(c) \cap {"money", "amount"} # {}
    \/ (\E c \in cs : "destination" \in Whole(c)) /\ "money" \in Said(m)

_demands_something_sensitive(cs) ==
    \E c \in cs : "sensitive" \in Whole(c) /\ _has_reader_demand({c})

Obstructed(m) == Said(m) \cap {"exclusion", "monopoly"} # {}

_names_reachable_counter(m) ==
    /\ \E c \in _demanding_clauses(m) : _is_channel_referral(c)
    /\ ~Obstructed(m)
    /\ ~_has_reader_demand(_open_clauses(m))

_awaits_unsolicited_contact(m) ==
    /\ ~_names_reachable_counter(m)
    /\ "pending" \in Said(m)
    /\ "initiated" \notin Said(m)

\* Mutant: a demand to the reader does not spoil a notice.
_is_prevention_notice_Demanding(m) ==
    Said(m) \cap {"official", "prevention"} # {} /\ ~Obstructed(m)

_is_prevention_notice(m) ==
    /\ Said(m) \cap {"official", "prevention"} # {}
    /\ ~Obstructed(m)
    /\ ~_has_reader_demand(_open_clauses(m))

-----------------------------------------------------------------------------
(* The suppressions: contexts in which a word is not a signal.             *)

Says(m, safe, unsafe) == safe \in Said(m) /\ unsafe \notin Said(m)

\* Mutant: a prevention notice only covers what it warns of.
_safe_context_suppresses_Narrow(code, m) ==
    code \in SENSITIVE_REQUEST_SIGNALS /\ _is_prevention_notice(m)

_safe_context_suppresses(code, m) ==
    \/ _is_prevention_notice(m)
    \/ /\ code \in {"credential_request", "account_access_request"}
       /\ Says(m, "do_not_share", "hand_over")
    \/ code = "authority_impersonation" /\ _names_reachable_counter(m)
    \/ code = "secrecy_isolation" /\ "group" \in Said(m)
    \/ /\ code \in {"authority_impersonation", "money_transfer_request"}
       /\ Says(m, "never_asks", "pay_now")
    \/ code = "guaranteed_return_offer" /\ "deposit_insurance" \in Said(m)
    \/ /\ code = "loan_policy_offer"
       /\ "fee_deposit" \notin Said(m)
       /\ {"comparison", "rates"} \subseteq Said(m) \/ _names_reachable_counter(m)
    \/ /\ code \in {"app_install_request", "remote_control_request"}
       /\ Says(m, "do_not_install", "install_now")
    \/ /\ code = "card_delivery_claim"
       /\ _names_reachable_counter(m) \/ {"own_request", "official_app"} \subseteq Said(m)

-----------------------------------------------------------------------------
(* Detection, in two passes: the second reads what the first has found.    *)

\* The entries of a rule's table that are found in some clauses.  A sequence is
\* looked for in the open text as a whole, and may begin in one clause and end
\* in a later one; here it stands in a clause, as the other words do.
Entries(r, gate, cs) ==
    {w \in UNION {c.words : c \in cs} : w.code = r.code /\ w.gate = gate
                                        /\ gate \in r.gates}

\* A gated verb counts unless it is only ever forbidden, and if it stands in
\* the imperative it needs no demand elsewhere.
Pressed(r, gate, cs) ==
    /\ \E w \in Entries(r, gate, cs) : w.mood # "prohibited"
    /\ \/ _has_reader_demand(cs)
       \/ \E w \in Entries(r, gate, cs) : w.mood = "imperative"

object_gated_match(r, m) ==
    LET open == _open_clauses(m) IN
    \/ Entries(r, "plain", m.clauses) # {}
    \/ \E c \in open : /\ Entries(r, "pattern", {c}) # {}
                       /\ r.code = "secrecy_isolation" => "secret" \notin Whole(c)
    \/ /\ _has_reader_demand(open)
       /\ \E w \in Entries(r, "demand", open) : w.mood # "accused"
    \/ /\ _mentions_money(open, m)
       /\ \/ Pressed(r, "money", open)
          \/ _has_reader_demand(open) /\ Entries(r, "sequence", open) # {}
          \/ "receipt" \in Said(m) /\ Pressed(r, "receipt", open)
    \/ /\ \E c \in open : "investment" \in Whole(c)
       /\ Entries(r, "investment", open) # {}

ObjectGated(m, rules) ==
    {r.code : r \in {x \in rules : /\ object_gated_match(x, m)
                                   /\ ~_safe_context_suppresses(x.code, m)}}

RequestGated(m, rules, sensitive) ==
    {r.code : r \in {x \in rules : /\ sensitive \/ _awaits_unsolicited_contact(m)
                                   /\ Entries(x, "request", m.clauses) # {}
                                   /\ ~_safe_context_suppresses(x.code, m)}}

_detect_by_rules(m, rules, has_suspicious_link) ==
    LET object_gated == ObjectGated(m, rules)
        sensitive == \/ object_gated \cap SENSITIVE_REQUEST_SIGNALS # {}
                     \/ has_suspicious_link
                     \/ _demands_something_sensitive(_open_clauses(m))
    IN  object_gated \cup RequestGated(m, rules, sensitive)

detect_legacy_signals(m) == _detect_by_rules(m, LEGACY_RULES, FALSE)

\* Mutant: a bad link ends the search for other signals.
detect_canonical_signals_LinkFirst(m, supplied) ==
    IF \E u \in m.links \cup supplied : _is_lexically_suspicious_url(u)
    THEN {"suspicious_link"} ELSE _detect_by_rules(m, SIGNAL_RULES, FALSE)

detect_canonical_signals(m, supplied) ==
    LET link == \E u \in m.links \cup supplied : _is_lexically_suspicious_url(u)
    IN  _detect_by_rules(m, SIGNAL_RULES, link)
        \cup (IF link THEN {"suspicious_link"} ELSE {})

-----------------------------------------------------------------------------
(* What leaves the engine: the score and the public names of the signals.  *)

LegacyWeight == [urgency |-> 12, credential |-> 25, account_access |-> 35,
                 remote_app |-> 30, money_mule |-> 35]

Points(code, found) == IF code \in found THEN LegacyWeight[code] ELSE 0

baseline_score(found) ==
    LET sum == Points("urgency", found) + Points("credential", found)
               + Points("account_access", found) + Points("remote_app", found)
               + Points("money_mule", found)
    IN  IF sum > 100 THEN 100 ELSE sum

CANONICAL_TO_LEGACY_PUBLIC ==
    [urgency_pressure |-> "urgency", credential_request |-> "credential",
     account_access_request |-> "account_access",
     app_install_request |-> "remote_app", remote_control_request |-> "remote_app",
     receive_and_forward_money |-> "money_mule"]

PublicCode(code) == IF code \in DOMAIN CANONICAL_TO_LEGACY_PUBLIC
                    THEN CANONICAL_TO_LEGACY_PUBLIC[code] ELSE code

project_public_signals(codes) ==
    {PublicCode(c) : c \in IF "receive_and_forward_money" \in codes
                           THEN codes \ {"money_transfer_request"} ELSE codes}
=============================================================================
