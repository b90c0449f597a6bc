------------------------- MODULE MCExplanationRequest -------------------------
(***************************************************************************)
(* Questions for the model checker: one whose explanations name things, one *)
(* whose explanations break the rules of form, one to which the provider    *)
(* sends everything that generate() tells apart, and one without evidence.  *)
(***************************************************************************)
EXTENDS ExplanationRequest

CONSTANTS first, second,                        \* the requests
          hotline, agency, act, rate, deadline  \* what a text can name

MCClaim == {hotline, agency, act, rate, deadline}
MCKindOf == [x \in MCClaim |-> CASE x = hotline -> "contact"
                                 [] x = agency -> "organisation"
                                 [] x = act -> "law"
                                 [] x \in {rate, deadline} -> "number"]

W(role, claims, behind) ==
    [role |-> role, private |-> FALSE, claims |-> claims, behind |-> behind]
Phone == [W("plain", {hotline}, "space") EXCEPT !.private = TRUE]

\* Not a boundary anywhere; a number that the contract cuts off.
Unpunctuated == <<W("whole", {}, "space"), W("plain", {rate}, "space"),
                  Phone, W("plain", {deadline}, "space")>>
\* An instruction across two clauses, and one across two sentences.
Punctuated == <<W("opens", {}, "clause"), W("closes", {}, "sentence"),
                W("plain", {agency}, "sentence")>>
Crossing == <<W("opens", {}, "sentence"), W("closes", {}, "sentence"),
              W("plain", {}, "clause"), W("whole", {}, "space")>>

Question(message, level, evidence, replies) ==
    [message |-> message, verdict |-> [level |-> level, evidence |-> evidence],
     replies |-> replies]

Text(flaws, claims) == [StubReply EXCEPT !.text = [flaws |-> flaws, claims |-> claims]]
Fails(field, values) == {[StubReply EXCEPT ![field] = v] : v \in values}

Exchanges == Fails("exchange", {"timed_out", "broken"}) \cup Fails("status", {"other"})
                \cup Fails("body", {"no_json", "other_json"})
Refusals == {[StubReply EXCEPT !.candidate = "none", !.blocked = TRUE], Text({}, {})}
               \cup Fails("candidate", {"none", "other"})
               \cup Fails("content", {"no_parts", "no_object"})
Stops == Fails("finish", {"safety", "max_tokens", "recitation", "other"})
            \cup {Text({"blank"}, {})}

Short == Question(<<>>, "low", {{}}, {Text({}, {}), Text({"long"}, {})}
                                         \cup Fails("content", {"no_object"}))

MCQuestions == {Short} \cup
    {Question(Unpunctuated, "high", {{hotline}, {act}}, {Text({}, {x}) : x \in MCClaim}),
     Question(Punctuated, "medium", {{}}, {Text({f}, {}) : f \in {"long", "url", "reassures"}}
                                             \cup {Text({}, {act})}),
     Question(Punctuated, "low", {{agency}}, {Text({f}, {}) : f \in Flaw \ {"long", "url"}}),
     Question(Crossing, "low", {{agency}}, Exchanges),
     Question(Crossing, "low", {{agency}}, Refusals),
     Question(Crossing, "low", {{agency}}, Stops),
     Question(Crossing, "low", {}, {Text({}, {})})}

\* The second request only makes company.
MCAsks == [c \in Conns |-> IF c = first THEN MCQuestions ELSE {Short}]

\* Requests of one kind side by side: the two kinds share nothing.
MCMixes == {[c \in Conns |-> r] : r \in {"explanation", "other"}}
=============================================================================
