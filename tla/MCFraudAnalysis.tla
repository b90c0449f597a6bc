--------------------------- MODULE MCFraudAnalysis ---------------------------
(***************************************************************************)
(* Clauses for the model checker: one for each context the engine tells    *)
(* apart, and at least one word of each table of each rule.                *)
(***************************************************************************)
EXTENDS FraudAnalysis

W(code, gate) == [code |-> code, gate |-> gate, mood |-> "stated"]
In(mood, code, gate) == [code |-> code, gate |-> gate, mood |-> mood]
C(facts, words) == [ahead |-> {}, facts |-> facts, words |-> words]

Asks == {"demand"}

\* Words that the canonical and the legacy tables share.
Cards == {W("account_access_request", "demand"), W("account_access", "demand")}
Password == {W("credential_request", "demand"), W("credential", "demand")}
Install == {W("app_install_request", "demand"), W("remote_app", "demand")}
Forward(mood) == {In(mood, "receive_and_forward_money", "money"),
                  In(mood, "money_mule", "money")}

MCClause ==
    {\* demands
     C(Asks, {}), C({"demand", "sensitive"}, {}), C({"demand", "hand_over"}, {}),
     C({"demand", "money", "pay_now", "advance_fee"}, {W("money_transfer_request", "plain")}),
     C({"demand", "destination"}, {W("money_transfer_request", "pattern")}),
     [ahead |-> Asks, facts |-> {}, words |-> Password],
     \* objects of demands
     C({}, Cards), C({}, Password), C({}, Install),
     C({}, {In("accused", "account_access_request", "demand"), W("account_access", "demand")}),
     C({"install_now", "demand"}, {W("remote_control_request", "plain"), W("remote_app", "plain")}),
     C({"money"}, Forward("imperative")), C({"amount"}, Forward("prohibited")),
     C({"receipt", "completed", "money"}, {}),
     C({"destination"}, {W("receive_and_forward_money", "receipt")}),
     C({}, {W("familiar_person_claim", "demand")}),
     \* claims and offers
     C({"event"}, {W("authority_impersonation", "plain")}),
     C({"pending"}, {W("authority_impersonation", "request")}),
     C({}, {W("secrecy_isolation", "plain")}),
     C({}, {W("secrecy_isolation", "pattern")}),
     C({}, {W("urgency_pressure", "plain"), W("urgency", "plain")}),
     C({}, {W("guaranteed_return_offer", "plain")}),
     C({"investment"}, {W("private_channel_invite", "investment")}),
     C({}, {W("loan_policy_offer", "plain")}),
     C({}, {W("card_delivery_claim", "plain")}),
     \* contexts
     C({"prevention"}, Password),
     C({"prevention"}, {W("urgency_pressure", "plain"), W("authority_impersonation", "plain")}),
     C({"prevention", "never_asks"}, {}),
     C({"official"}, {}), C({"counter"}, {}), C({"completed"}, Cards),
     C({"monopoly"}, {}), C({"exclusion"}, {}), C({"initiated"}, {}),
     C({"do_not_share"}, {}), C({"do_not_install"}, {}),
     C({"deposit_insurance"}, {}), C({"group", "secret"}, {})}

MCSupply ==
    {[scheme |-> "https", host |-> "name", user |-> FALSE],
     [scheme |-> "none", host |-> "shortener", user |-> FALSE]}
=============================================================================
