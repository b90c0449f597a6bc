--------------------------- MODULE ExplanationText ---------------------------
(***************************************************************************)
(* What happens to the words on their way to the model and back            *)
(* (app/services/llm/minimization.py, untrusted.py, validation.py and       *)
(* app/clients/google_ai_studio.py), as pure operators.                     *)
(*                                                                         *)
(* A message is a sequence of words.  A word is known by what the rules     *)
(* tell apart: the part it has in an instruction to the model, whether it   *)
(* is personal data, the claims it makes, and the boundary behind it.       *)
(***************************************************************************)
EXTENDS Naturals, Sequences, FiniteSets

CONSTANTS
    Claim,      \* what a text can name: contacts, organisations, laws, numbers
    KindOf      \* the kind of each claim

Kind == {"contact", "organisation", "law", "number"}

ASSUME ClaimAssumption == KindOf \in [Claim -> Kind]

Kinds(k) == {x \in Claim : KindOf[x] = k}

-----------------------------------------------------------------------------
(* The message.  An instruction is a word of its own ("whole") or two words *)
(* that follow each other ("opens", "closes").  What was removed leaves a   *)
(* word in its place, which may also stand in the message from the start.   *)

Word == [role    : {"plain", "whole", "opens", "closes", "removed"},
         private : BOOLEAN,
         claims  : SUBSET Claim,
         behind  : {"space", "clause", "sentence"}]

\* minimize_for_provider(): personal data gives way to the name of its kind,
\* which is a word like any other.
minimize_for_provider(t) ==
    [i \in DOMAIN t |-> IF t[i].private THEN [t[i] EXCEPT !.private = FALSE, !.claims = {}]
                                        ELSE t[i]]

\* The words of the same piece as word i, for pieces cut at `boundaries`.
Piece(t, i, boundaries) ==
    {j \in DOMAIN t : \A k \in DOMAIN t :
        (i <= k /\ k < j) \/ (j <= k /\ k < i) => t[k].behind \notin boundaries}

Sentence(t, i) == Piece(t, i, {"sentence"})
Clause(t, i) == Piece(t, i, {"sentence", "clause"})

\* _matched_spans(): the instructions in the text, as sets of words.
Instructions(t) ==
    {{i} : i \in {j \in DOMAIN t : t[j].role = "whole"}} \cup
    {{i, i + 1} : i \in {j \in DOMAIN t : /\ j + 1 \in DOMAIN t
                                          /\ t[j].role = "opens"
                                          /\ t[j + 1].role = "closes"}}

contains_instruction(t, words) == \E s \in Instructions(t) : s \subseteq words

\* _neutralize_sentence(): the clauses that hold an instruction, or the whole
\* sentence where no single clause does.
_neutralize_sentence(t, sentence) ==
    LET hit == {Clause(t, i) : i \in {j \in sentence :
                    contains_instruction(t, Clause(t, j))}}
    IN  IF hit = {} THEN sentence ELSE UNION hit

\* What goes if each sentence is looked at by itself.
BySentence(t) ==
    UNION {_neutralize_sentence(t, Sentence(t, i)) :
              i \in {j \in DOMAIN t : contains_instruction(t, Sentence(t, j))}}

\* _replace_spans(): what goes if only the expressions themselves do.
BySpan(t) == UNION Instructions(t)

\* _is_only_placeholders(): nothing is left once these words are gone.
NothingLeft(t, words) == \A i \in DOMAIN t : i \in words \/ t[i].role = "removed"

\* Mutant: what is left is not looked at.
Removed_Unnarrowed(t) == IF BySentence(t) # {} THEN BySentence(t) ELSE BySpan(t)

\* neutralize_instructions(): sentences, then clauses, and the expressions
\* alone where an instruction crosses sentences or nothing would be left.
Removed(t) ==
    IF \/ BySentence(t) = {}
       \/ NothingLeft(t, BySentence(t)) /\ ~NothingLeft(t, BySpan(t))
    THEN BySpan(t)
    ELSE BySentence(t)

neutralize_instructions(t) ==
    [i \in DOMAIN t |-> IF i \in Removed(t)
                        THEN [t[i] EXCEPT !.role = "removed", !.claims = {}]
                        ELSE t[i]]

ClaimsOf(t) == UNION {t[i].claims : i \in DOMAIN t}

-----------------------------------------------------------------------------
(* What the provider sends back, as far as generate() looks at it, and the  *)
(* text in it: the flaws that show without the evidence, and its claims.    *)

Flaw == {"blank", "long", "url", "resident_number", "reassures", "promises"}
Output == [flaws : SUBSET Flaw, claims : SUBSET Claim]

Reply == [exchange   : {"answered", "timed_out", "broken"},
          status     : {"ok", "other"},
          body       : {"object", "other_json", "no_json"},
          blocked    : BOOLEAN,              \* promptFeedback has a blockReason
          candidate  : {"none", "object", "other"},
          finish     : {"stop", "safety", "max_tokens", "recitation", "other"},
          content    : {"parts", "no_parts", "no_object"},
          text       : Output]

\* What is wrong with a reply, in the order of generate() and _extract_text():
\* each case presumes that none before it applies.
Failures(r) ==
    <<<<"timeout",            r.exchange = "timed_out">>,
      <<"transport_error",    r.exchange = "broken">>,
      <<"http_error",         r.status = "other">>,
      <<"malformed_body",     r.body # "object">>,
      <<"prompt_blocked",     r.candidate = "none" /\ r.blocked>>,
      <<"malformed_body",     r.candidate # "object">>,
      <<"safety_blocked",     r.finish = "safety">>,
      <<"truncated",          r.finish = "max_tokens">>,
      <<"recitation_blocked", r.finish = "recitation">>,
      <<"stopped_early",      r.finish = "other">>,
      <<"raises",             r.content = "no_object">>,
      <<"malformed_body",     r.content = "no_parts">>,
      <<"empty_text",         "blank" \in r.text.flaws>>>>

\* The first thing that is wrong, "ok" if nothing is.
First(checks) ==
    LET wrong == {i \in DOMAIN checks : checks[i][2]}
    IN  IF wrong = {} THEN "ok"
        ELSE checks[CHOOSE i \in wrong : \A j \in wrong : i <= j][1]

\* "raises": what it raises is not LlmUnavailable, so nobody catches it.
generate(r) == First(Failures(r))

-----------------------------------------------------------------------------
(* validate_explanation().                                                 *)

Levels == {"low", "medium", "high"}

\* A verdict: its level and the lines of evidence (signals, actions, sources)
\* the model is shown, each with what it names.
Verdict == [level : Levels, evidence : SUBSET (SUBSET Claim)]

Grounds(v) == UNION v.evidence
has_grounded_evidence(v) == v.evidence # {}

contradicts_verdict(o, level) == level \in {"medium", "high"} /\ "reassures" \in o.flaws

\* The claims of one kind that stand neither in the evidence nor elsewhere.
Ungrounded(o, kind, grounds) == (o.claims \cap Kinds(kind)) \ grounds # {}

Rejections(o, v, shown) ==
    <<<<"rejected_empty",               "blank" \in o.flaws>>,
      <<"rejected_too_long",            "long" \in o.flaws>>,
      <<"rejected_url",                 "url" \in o.flaws>>,
      <<"rejected_rrn",                 "resident_number" \in o.flaws>>,
      <<"rejected_contradicts_verdict", contradicts_verdict(o, v.level)>>,
      <<"rejected_invented_contact",    Ungrounded(o, "contact", Grounds(v))>>,
      <<"rejected_ungrounded_org",      Ungrounded(o, "organisation", Grounds(v))>>,
      <<"rejected_law_citation",        Ungrounded(o, "law", Grounds(v))>>,
      <<"rejected_ungrounded_number",
        Ungrounded(o, "number", Grounds(v) \cup ClaimsOf(shown))>>,
      <<"rejected_ungrounded_promise",  "promises" \in o.flaws>>>>

validate_explanation(o, v, shown) == First(Rejections(o, v, shown))

-----------------------------------------------------------------------------
Outcome ==
    {"ok", "timeout", "transport_error", "http_error", "malformed_body",
     "prompt_blocked", "safety_blocked", "truncated", "recitation_blocked",
     "stopped_early", "empty_text", "rejected_too_long", "rejected_url",
     "rejected_rrn", "rejected_contradicts_verdict", "rejected_invented_contact",
     "rejected_ungrounded_org", "rejected_law_citation",
     "rejected_ungrounded_number", "rejected_ungrounded_promise",
     "rejected_empty", "not_asked_no_evidence", "unspecified"}
=============================================================================
