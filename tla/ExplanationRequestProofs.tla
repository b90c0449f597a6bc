----------------------- MODULE ExplanationRequestProofs -----------------------
(***************************************************************************)
(* Proofs about ExplanationRequest, for any questions, replies, limits and  *)
(* any finite number of requests side by side.                             *)
(***************************************************************************)
EXTENDS ExplanationRequest, RequestLimitProofs, FiniteSetTheorems,
        WellFoundedInduction, NaturalsInduction

-----------------------------------------------------------------------------
(* The text.                                                               *)

\* Of some numbers one is the least.
LEMMA LeastExists ==
    ASSUME NEW T, T \subseteq Nat, T # {}
    PROVE  \E i \in T : \A j \in T : i <= j
  <1>1. PICK i \in T : \A j \in T : ~(<<j, i>> \in OpToRel(<, Nat))
    BY WFMin, NatLessThanWellFounded
  <1>2. ASSUME NEW j \in T
        PROVE  i <= j
    <2>1. i \in Nat /\ j \in Nat
      BY <1>1, <1>2
    <2>2. j < i => <<j, i>> \in OpToRel(<, Nat)
      BY <2>1, Zenon DEF OpToRel
    <2>3. ~(j < i)
      BY <1>1, <1>2, <2>2, Zenon
    <2> QED BY <2>1, <2>3
  <1> QED BY <1>2

\* The first thing that is wrong is one of those that were looked for, and if
\* none is found, nothing is wrong.
LEMMA FirstFacts ==
    ASSUME NEW checks, DOMAIN checks \subseteq Nat,
           \A i \in DOMAIN checks : checks[i][1] # "ok"
    PROVE  /\ First(checks) # "ok" => \E i \in DOMAIN checks : First(checks) = checks[i][1]
           /\ First(checks) = "ok" => \A i \in DOMAIN checks : ~checks[i][2]
  <1> DEFINE wrong == {i \in DOMAIN checks : checks[i][2]}
             least == CHOOSE i \in wrong : \A j \in wrong : i <= j
  <1>1. CASE wrong = {}
    <2>1. First(checks) = "ok"
      BY <1>1 DEF First
    <2> QED BY <1>1, <2>1
  <1>2. CASE wrong # {}
    <2>1. least \in wrong
      <3>1. \E i \in wrong : \A j \in wrong : i <= j
        <4> HIDE DEF wrong
        <4>1. wrong \subseteq Nat
          BY DEF wrong
        <4> QED BY <1>2, <4>1, LeastExists
      <3> QED BY <3>1
    <2>2. First(checks) = checks[least][1]
      BY <1>2 DEF First
    <2> QED BY <2>1, <2>2
  <1> QED BY <1>1, <1>2

LEMMA generateType ==
    ASSUME NEW r
    PROVE  generate(r) \in Outcome \cup {"raises"}
  <1> DEFINE f == Failures(r)
  <1>1. DOMAIN f = 1 .. 13
    BY DEF Failures
  <1>2. \A i \in DOMAIN f : f[i][1] \in Outcome \cup {"raises"} /\ f[i][1] # "ok"
    BY DEF Failures, Outcome
  <1>3. "ok" \in Outcome
    BY DEF Outcome
  <1> HIDE DEF f
  <1>4. First(f) \in Outcome \cup {"raises"}
    BY <1>1, <1>2, <1>3, FirstFacts
  <1> QED BY <1>4 DEF f, generate

LEMMA validateFacts ==
    ASSUME NEW o, NEW v, NEW shown
    PROVE  /\ validate_explanation(o, v, shown) \in Outcome
           /\ validate_explanation(o, v, shown) = "ok" =>
                  /\ ~contradicts_verdict(o, v.level)
                  /\ \A k \in {"contact", "organisation", "law"} : ~Ungrounded(o, k, Grounds(v))
                  /\ ~Ungrounded(o, "number", Grounds(v) \cup ClaimsOf(shown))
                  /\ ~("blank" \in o.flaws)
  <1> DEFINE f == Rejections(o, v, shown)
  <1>1. DOMAIN f = 1 .. 10
    BY DEF Rejections
  <1>2. \A i \in DOMAIN f : f[i][1] \in Outcome /\ f[i][1] # "ok"
    BY DEF Rejections, Outcome
  <1>3. "ok" \in Outcome
    BY DEF Outcome
  <1>4. /\ f[1][2] = ("blank" \in o.flaws)
        /\ f[5][2] = contradicts_verdict(o, v.level)
        /\ f[6][2] = Ungrounded(o, "contact", Grounds(v))
        /\ f[7][2] = Ungrounded(o, "organisation", Grounds(v))
        /\ f[8][2] = Ungrounded(o, "law", Grounds(v))
        /\ f[9][2] = Ungrounded(o, "number", Grounds(v) \cup ClaimsOf(shown))
    BY DEF Rejections
  <1> HIDE DEF f
  <1>5. First(f) \in Outcome
    BY <1>1, <1>2, <1>3, FirstFacts
  <1>6. First(f) = "ok" => \A i \in DOMAIN f : ~f[i][2]
    BY <1>1, <1>2, FirstFacts
  <1>7. validate_explanation(o, v, shown) = First(f)
    BY DEF validate_explanation, f
  <1>8. {1, 5, 6, 7, 8, 9} \subseteq DOMAIN f
    BY <1>1
  <1> QED BY <1>4, <1>5, <1>6, <1>7, <1>8

\* Neither minimizing nor neutralizing makes words, or claims for a word.
LEMMA WordsStay ==
    ASSUME NEW t \in Seq(Word)
    PROVE  LET n == neutralize_instructions(minimize_for_provider(t)) IN
           /\ n \in Seq(Word) /\ Len(n) = Len(t)
           /\ \A i \in DOMAIN t : n[i].claims \subseteq t[i].claims
  <1> DEFINE u == minimize_for_provider(t)
             n == neutralize_instructions(u)
  <1>1. ASSUME NEW i \in DOMAIN t
        PROVE  /\ t[i] \in Word /\ u[i] \in Word
               /\ u[i].claims \subseteq t[i].claims
    <2>1. t[i] \in Word
      OBVIOUS
    <2>2. CASE t[i].private
      <3> DEFINE w == [t[i] EXCEPT !.private = FALSE]
      <3>1. w \in Word
        BY <2>1 DEF Word
      <3>2. [w EXCEPT !.claims = {}] \in Word
        <4> HIDE DEF w
        <4> QED BY <3>1 DEF Word
      <3>3. u[i] = [w EXCEPT !.claims = {}]
        BY <2>2 DEF minimize_for_provider
      <3>4. [w EXCEPT !.claims = {}].claims = {}
        <4> HIDE DEF w
        <4> QED BY <3>1 DEF Word
      <3> QED BY <2>1, <3>2, <3>3, <3>4
    <2>3. CASE ~t[i].private
      BY <2>1, <2>3 DEF minimize_for_provider
    <2> QED BY <2>1, <2>2, <2>3
  <1>2. DOMAIN u = DOMAIN t
    BY DEF minimize_for_provider
  <1> HIDE DEF u
  <1>3. ASSUME NEW i \in DOMAIN t
        PROVE  n[i] \in Word /\ n[i].claims \subseteq t[i].claims
    <2>1. CASE i \in Removed(u)
      <3> DEFINE w == [u[i] EXCEPT !.role = "removed"]
      <3>1. w \in Word
        BY <1>1, <1>3 DEF Word
      <3>2. [w EXCEPT !.claims = {}] \in Word /\ [w EXCEPT !.claims = {}].claims = {}
        <4> HIDE DEF w
        <4> QED BY <3>1 DEF Word
      <3>3. n[i] = [w EXCEPT !.claims = {}]
        BY <1>2, <1>3, <2>1 DEF neutralize_instructions
      <3> QED BY <3>2, <3>3
    <2>2. CASE i \notin Removed(u)
      BY <1>1, <1>2, <1>3, <2>2 DEF neutralize_instructions
    <2> QED BY <2>1, <2>2
  <1>4. DOMAIN n = 1 .. Len(t) /\ Len(t) \in Nat
    BY <1>2 DEF neutralize_instructions
  <1>5. n = [i \in 1 .. Len(t) |-> n[i]]
    BY <1>2 DEF neutralize_instructions
  <1>6. n \in [1 .. Len(t) -> Word]
    <2>1. \A i \in 1 .. Len(t) : n[i] \in Word
      BY <1>3
    <2> HIDE DEF n
    <2> QED BY <1>5, <2>1
  <1>7. n \in Seq(Word)
    BY <1>4, <1>6
  <1>8. Len(n) = Len(t)
    BY <1>4, <1>7
  <1> QED BY <1>3, <1>7, <1>8 DEF u

\* Of a message that is not all instructions some word is left.
LEMMA SomethingIsLeft ==
    ASSUME NEW t \in Seq(Word), ~NothingLeft(t, BySpan(t))
    PROVE  LET n == neutralize_instructions(minimize_for_provider(t)) IN
           \E i \in DOMAIN n : n[i].role # "removed"
  <1> DEFINE u == minimize_for_provider(t)
             n == neutralize_instructions(u)
  <1>1. DOMAIN u = DOMAIN t /\ DOMAIN n = DOMAIN t
    BY DEF minimize_for_provider, neutralize_instructions
  <1>2. \A i \in DOMAIN t : t[i] \in Word
    OBVIOUS
  <1>3. \A i \in DOMAIN t : u[i].role = t[i].role
    BY <1>2 DEF minimize_for_provider, Word
  <1> HIDE DEF u
  <1>4. Instructions(u) = Instructions(t)
    <2>1. {j \in DOMAIN u : u[j].role = "whole"} = {j \in DOMAIN t : t[j].role = "whole"}
      BY <1>1, <1>3
    <2>2. {j \in DOMAIN u : /\ j + 1 \in DOMAIN u /\ u[j].role = "opens"
                            /\ u[j + 1].role = "closes"}
            = {j \in DOMAIN t : /\ j + 1 \in DOMAIN t /\ t[j].role = "opens"
                                /\ t[j + 1].role = "closes"}
      BY <1>1, <1>3
    <2> QED BY <2>1, <2>2 DEF Instructions
  <1>5. BySpan(u) = BySpan(t)
    BY <1>4 DEF BySpan
  <1>6. ~NothingLeft(u, BySpan(u))
    BY <1>1, <1>3, <1>5 DEF NothingLeft
  <1>7. Removed(u) = BySpan(u) \/ ~NothingLeft(u, Removed(u))
    BY <1>6 DEF Removed
  <1>8. PICK i \in DOMAIN u : i \notin Removed(u) /\ u[i].role # "removed"
    BY <1>6, <1>7 DEF NothingLeft
  <1>9. n[i] = u[i]
    BY <1>8 DEF neutralize_instructions
  <1> QED BY <1>1, <1>8, <1>9 DEF u

-----------------------------------------------------------------------------
(* A question and its text.                                                *)

LEMMA QuestionFacts ==
    ASSUME NEW q \in Questions
    PROVE  /\ q.message \in Seq(Word) /\ Len(q.message) \in Nat /\ MaxInput \in Nat
           /\ neutralized[q] \in Seq(Word) /\ Len(neutralized[q]) = Len(q.message)
           /\ \A i \in DOMAIN q.message :
                 neutralized[q][i].claims \subseteq q.message[i].claims
           /\ ~NothingLeft(q.message, BySpan(q.message)) =>
                 \E i \in DOMAIN neutralized[q] : neutralized[q][i].role # "removed"
  <1>1. q.message \in Seq(Word)
    BY QuestionsAssumption
  <1>2. neutralized[q] = neutralize_instructions(minimize_for_provider(q.message))
    BY DEF neutralized
  <1> QED BY <1>1, <1>2, WordsStay, SomethingIsLeft, MaxInputAssumption

\* What the model reads of a message is in its first words.
LEMMA ShownFacts ==
    ASSUME NEW q \in Questions, NEW x \in ClaimsOf(shown_message[q])
    PROVE  \E i \in DOMAIN q.message : i <= MaxInput /\ x \in q.message[i].claims
  <1> DEFINE n == neutralized[q]
             k == IF Len(q.message) < MaxInput THEN Len(q.message) ELSE MaxInput
             s == SubSeq(n, 1, k)
  <1>1. n \in Seq(Word) /\ Len(n) = Len(q.message) /\ k \in Nat /\ k <= Len(n)
        /\ k <= MaxInput
    BY QuestionFacts
  <1>2. shown_message[q] = s
    BY DEF shown_message
  <1> HIDE DEF n, k
  <1>3. Len(s) = k /\ \A i \in 1 .. k : s[i] = n[i]
    BY <1>1
  <1>4. DOMAIN s = 1 .. k
    BY <1>1, <1>3
  <1>5. PICK i \in DOMAIN s : x \in s[i].claims
    BY <1>2 DEF ClaimsOf
  <1>6. i \in DOMAIN q.message /\ i <= MaxInput
    BY <1>1, <1>4, <1>5, QuestionFacts
  <1>7. x \in n[i].claims
    BY <1>3, <1>4, <1>5
  <1>8. x \in q.message[i].claims
    BY <1>6, <1>7, QuestionFacts DEF n
  <1> QED BY <1>6, <1>8

\* The outcome of an attempt, and what it says of a text that is kept.
LEMMA OutcomeFacts ==
    ASSUME NEW q \in Questions, NEW r \in q.replies \cup {StubReply}
    PROVE  /\ r.text \in Output
           /\ OutcomeOf[q][r] \in Outcome \cup {"raises"}
           /\ OutcomeOf[q][r] = "ok" =>
                 validate_explanation(r.text, q.verdict, shown_message[q]) = "ok"
  <1>1. OutcomeOf[q][r] = IF generate(r) # "ok" THEN generate(r)
                          ELSE validate_explanation(r.text, q.verdict, shown_message[q])
    BY DEF OutcomeOf
  <1>2. r.text \in Output
    <2>1. CASE r = StubReply
      BY <2>1 DEF StubReply, Output
    <2>2. CASE r \in q.replies
      <3>1. r \in Reply
        BY <2>2, QuestionsAssumption
      <3> QED BY <3>1 DEF Reply
    <2> QED BY <2>1, <2>2
  <1>3. CASE generate(r) = "ok"
    <2>1. OutcomeOf[q][r] = validate_explanation(r.text, q.verdict, shown_message[q])
      BY <1>1, <1>3
    <2>2. validate_explanation(r.text, q.verdict, shown_message[q]) \in Outcome
      BY validateFacts, Zenon
    <2> QED BY <1>2, <2>1, <2>2
  <1>4. CASE generate(r) # "ok"
    <2>1. OutcomeOf[q][r] = generate(r)
      BY <1>1, <1>4
    <2>2. generate(r) \in Outcome \cup {"raises"}
      BY generateType, Zenon
    <2> QED BY <1>2, <1>4, <2>1, <2>2
  <1> QED BY <1>3, <1>4

\* A text that passes invents nothing.
LEMMA PassedIsGrounded ==
    ASSUME NEW q \in Questions, NEW o \in Output,
           validate_explanation(o, q.verdict, shown_message[q]) = "ok"
    PROVE  /\ \A x \in o.claims :
                 \/ \E line \in q.verdict.evidence : x \in line
                 \/ /\ KindOf[x] = "number"
                    /\ \E i \in DOMAIN q.message : i <= MaxInput /\ x \in q.message[i].claims
           /\ q.verdict.level # "low" => "reassures" \notin o.flaws
           /\ o # NoOutput
  <1> DEFINE v == q.verdict
  <1>1. /\ ~contradicts_verdict(o, v.level)
        /\ \A k \in {"contact", "organisation", "law"} : ~Ungrounded(o, k, Grounds(v))
        /\ ~Ungrounded(o, "number", Grounds(v) \cup ClaimsOf(shown_message[q]))
        /\ ~("blank" \in o.flaws)
    BY validateFacts
  <1>2. ASSUME NEW x \in o.claims
        PROVE  \/ \E line \in v.evidence : x \in line
               \/ /\ KindOf[x] = "number"
                  /\ \E i \in DOMAIN q.message : i <= MaxInput /\ x \in q.message[i].claims
    <2>1. x \in Claim /\ KindOf[x] \in Kind
      BY <1>2, ClaimAssumption DEF Output
    <2>2. x \in Grounds(v) => \E line \in v.evidence : x \in line
      BY DEF Grounds
    <2>3. CASE KindOf[x] \in {"contact", "organisation", "law"}
      <3>1. x \in (o.claims \cap Kinds(KindOf[x]))
        BY <1>2, <2>1 DEF Kinds
      <3>2. x \in Grounds(v)
        BY <1>1, <2>3, <3>1 DEF Ungrounded
      <3> QED BY <2>2, <3>2
    <2>4. CASE KindOf[x] = "number"
      <3>1. x \in (o.claims \cap Kinds("number"))
        BY <1>2, <2>1, <2>4 DEF Kinds
      <3>2. x \in Grounds(v) \/ x \in ClaimsOf(shown_message[q])
        BY <1>1, <3>1 DEF Ungrounded
      <3> QED BY <2>2, <2>4, <3>2, ShownFacts
    <2> QED BY <2>1, <2>3, <2>4 DEF Kind
  <1>3. v.level # "low" => "reassures" \notin o.flaws
    <2>1. v.level \in Levels
      BY QuestionsAssumption DEF Verdict
    <2> QED BY <1>1, <2>1 DEF contradicts_verdict, Levels
  <1>4. o # NoOutput
    BY <1>1 DEF NoOutput
  <1> QED BY <1>2, <1>3, <1>4

-----------------------------------------------------------------------------
(* The invariant of the explanations.                                      *)

LEMMA ContractsFacts ==
    ASSUME NEW s \in Settings
    PROVE  /\ Contracts(s) \in Seq(Models) /\ Len(Contracts(s)) \in Nat
           /\ Contracts(s) = <<>> <=> s = "off"
           /\ s # "off" => Len(Contracts(s)) > 0
           /\ \A i, j \in DOMAIN Contracts(s) : Contracts(s)[i] = Contracts(s)[j] => i = j
  <1>1. CASE s = "off"
    BY <1>1 DEF Contracts, Models
  <1>2. CASE s = "stub"
    BY <1>2 DEF Contracts, Models
  <1>3. CASE s = "google_ai_studio"
    <2>1. Contracts(s) = <<"flash", "flash-lite">>
      BY <1>3 DEF Contracts
    <2>2. /\ <<"flash", "flash-lite">> \in Seq(Models)
          /\ Len(<<"flash", "flash-lite">>) = 2
          /\ <<"flash", "flash-lite">>[1] = "flash" /\ <<"flash", "flash-lite">>[2] = "flash-lite"
          /\ <<"flash", "flash-lite">> # <<>>
      BY DEF Models
    <2>3. \A i, j \in DOMAIN Contracts(s) : Contracts(s)[i] = Contracts(s)[j] => i = j
      <3> SUFFICES ASSUME NEW i \in DOMAIN Contracts(s), NEW j \in DOMAIN Contracts(s),
                          Contracts(s)[i] = Contracts(s)[j]
                   PROVE  i = j
        OBVIOUS
      <3>1. i \in {1, 2} /\ j \in {1, 2}
        BY <2>1
      <3>2. Contracts(s)[1] # Contracts(s)[2]
        BY <2>1, <2>2
      <3> QED BY <3>1, <3>2
    <2>4. s # "off"
      BY <1>3
    <2> HIDE DEF Contracts
    <2> QED BY <2>1, <2>2, <2>3, <2>4
  <1> QED BY <1>1, <1>2, <1>3 DEF Settings

\* The attempts of a request: made for evidence only, none of them after one
\* that gave a text, and no more of them than there are contracts.
TriesFit(a, s) ==
    /\ a.tried # <<>> => has_grounded_evidence(a.question.verdict)
    /\ \A i \in 1 .. (Len(a.tried) - 1) : a.tried[i] # "ok"
    /\ Len(a.tried) <= Len(Contracts(s))
    /\ a.step = "try" =>
          /\ has_grounded_evidence(a.question.verdict)
          /\ Len(a.tried) < Len(Contracts(s))
          /\ a.tried # <<>> => a.tried[Len(a.tried)] # "ok"
    /\ a.step = "count" => a.tried # <<>> /\ a.outcome = a.tried[Len(a.tried)]
    /\ a.step \in {"report", "answered"} /\ a.available =>
          \/ /\ a.tried = <<>> /\ a.outcome = "not_asked_no_evidence"
             /\ ~has_grounded_evidence(a.question.verdict)
          \/ /\ a.tried # <<>> /\ a.outcome = a.tried[Len(a.tried)]
             /\ a.outcome = "ok" \/ Len(a.tried) = Len(Contracts(s))

\* Whether a request was given a runtime.
AvailabilityFits(a, s) ==
    /\ a.available => s # "off"
    /\ a.step = "answered" => (a.available <=> s # "off")
    /\ a.step \in {"try", "count", "report"} => a.available
    /\ a.step \in {"none", "check", "build", "mark", "read"} => ~a.available
    /\ ~a.available => a.tried = <<>> /\ a.output = NoOutput

TextFits(a) ==
    a.output # NoOutput =>
        validate_explanation(a.output, a.question.verdict, shown_message[a.question]) = "ok"

AskFits(a, s) == a \in Ask /\ TriesFit(a, s) /\ AvailabilityFits(a, s) /\ TextFits(a)

\* The runtime is what the setting makes of it, as far as anybody has seen it.
RuntimeFits ==
    /\ setting \in Settings
    /\ runtime \in {<<>>, Contracts(setting)}
    /\ runtime_loaded \in BOOLEAN
    /\ runtime_loaded => runtime = Contracts(setting)
    /\ \A c \in Conns : ask[c].step \in {"mark", "read"} \/ ask[c].available =>
          runtime = Contracts(setting)

AsksFit == ask \in [Conns -> Ask] /\ \A c \in Conns : AskFits(ask[c], setting)

ExplInv ==
    /\ RuntimeFits /\ AsksFit
    /\ attempts \in [Models \X Outcome -> Nat]
    /\ results \in [Outcome -> Nat]

-----------------------------------------------------------------------------
(* The records.                                                            *)

LEMMA AskFieldTypes ==
    ASSUME NEW a \in Ask
    PROVE  /\ \A x \in {"none", "check", "build", "mark", "read", "try", "count",
                         "report", "answered", "failed"} : [a EXCEPT !.step = x] \in Ask
           /\ \A x \in Questions : [a EXCEPT !.question = x] \in Ask
           /\ \A x \in Seq(Outcome) : [a EXCEPT !.tried = x] \in Ask
           /\ \A x \in Outcome : [a EXCEPT !.outcome = x] \in Ask
           /\ \A x \in Output : [a EXCEPT !.output = x] \in Ask
           /\ \A x \in BOOLEAN : [a EXCEPT !.available = x] \in Ask
  <1> USE DEF Ask
  <1>1. \A x \in {"none", "check", "build", "mark", "read", "try", "count",
                  "report", "answered", "failed"} : [a EXCEPT !.step = x] \in Ask
    OBVIOUS
  <1>2. \A x \in Questions : [a EXCEPT !.question = x] \in Ask
    OBVIOUS
  <1>3. \A x \in Seq(Outcome) : [a EXCEPT !.tried = x] \in Ask
    OBVIOUS
  <1>4. \A x \in Outcome : [a EXCEPT !.outcome = x] \in Ask
    OBVIOUS
  <1>5. \A x \in Output : [a EXCEPT !.output = x] \in Ask
    OBVIOUS
  <1>6. \A x \in BOOLEAN : [a EXCEPT !.available = x] \in Ask
    OBVIOUS
  <1> QED BY <1>1, <1>2, <1>3, <1>4, <1>5, <1>6

\* A request that only goes on to another step.
LEMMA StepFits ==
    ASSUME NEW s \in Settings, NEW a, AskFits(a, s),
           NEW x \in {"check", "build", "mark", "read", "try", "report", "answered", "failed"},
           \/ a.step \in {"none", "check", "build", "mark", "read"}
                 /\ x \in {"check", "build", "mark", "read", "failed"}
           \/ a.step = "try" /\ x = "failed"
           \/ a.step = "read" /\ x = "answered" /\ s = "off"
           \/ a.step = "count" /\ x = "try" /\ a.outcome # "ok"
                 /\ Len(a.tried) # Len(Contracts(s))
           \/ a.step = "count" /\ x = "report"
                 /\ (a.outcome = "ok" \/ Len(a.tried) = Len(Contracts(s)))
           \/ a.step = "report" /\ x = "answered"
    PROVE  /\ AskFits([a EXCEPT !.step = x], s)
           /\ [a EXCEPT !.step = x].step = x
           /\ [a EXCEPT !.step = x].available = a.available
           /\ [a EXCEPT !.step = x].tried = a.tried
  <1> DEFINE b == [a EXCEPT !.step = x]
  <1>1. a \in Ask
    BY DEF AskFits
  <1>2. b \in Ask
    BY <1>1, AskFieldTypes
  <1>3. /\ b.step = x /\ b.question = a.question /\ b.tried = a.tried
        /\ b.outcome = a.outcome /\ b.output = a.output /\ b.available = a.available
    BY <1>1 DEF Ask
  <1>4. Len(a.tried) \in Nat /\ Len(Contracts(s)) \in Nat
    BY <1>1, ContractsFacts DEF Ask
  <1> HIDE DEF b
  <1>5. TriesFit(b, s)
    BY <1>3, <1>4 DEF AskFits, TriesFit, AvailabilityFits
  <1>6. AvailabilityFits(b, s)
    BY <1>3 DEF AskFits, AvailabilityFits
  <1>7. TextFits(b)
    BY <1>3 DEF AskFits, TextFits
  <1> QED BY <1>2, <1>3, <1>5, <1>6, <1>7 DEF AskFits, b
\* A request that is given a question.
LEMMA BeginFits ==
    ASSUME NEW s \in Settings, NEW a, AskFits(a, s), a.step = "none", NEW q \in Questions
    PROVE  AskFits([a EXCEPT !.step = "check", !.question = q], s)
  <1> DEFINE a1 == [a EXCEPT !.step = "check"]
             b == [a EXCEPT !.step = "check", !.question = q]
  <1>1. a \in Ask /\ a1 \in Ask
    BY AskFieldTypes DEF AskFits
  <1>2. b = [a1 EXCEPT !.question = q]
    OBVIOUS
  <1>3. b \in Ask
    <2> HIDE DEF a1
    <2> QED BY <1>1, <1>2, AskFieldTypes
  <1>4. /\ b.step = "check" /\ b.question = q /\ b.tried = a.tried
        /\ b.outcome = a.outcome /\ b.output = a.output /\ b.available = a.available
    BY <1>1 DEF Ask
  <1> HIDE DEF b
  <1>5. a.tried = <<>> /\ ~a.available /\ a.output = NoOutput
    BY DEF AskFits, AvailabilityFits
  <1>6. Len(a.tried) = 0 /\ Len(Contracts(s)) \in Nat
    BY <1>5, ContractsFacts
  <1>7. TriesFit(b, s)
    BY <1>4, <1>5, <1>6 DEF TriesFit
  <1>8. AvailabilityFits(b, s) /\ TextFits(b)
    BY <1>4, <1>5 DEF AvailabilityFits, TextFits
  <1> QED BY <1>3, <1>7, <1>8 DEF AskFits, b
\* A request that is given a runtime.
LEMMA ReadFits ==
    ASSUME NEW s \in Settings, s # "off", NEW a, AskFits(a, s), a.step = "read"
    PROVE  LET x == FirstStep(a.question)
               b == [a EXCEPT !.available = TRUE, !.step = x,
                              !.outcome = IF x = "try" THEN @ ELSE "not_asked_no_evidence"]
           IN  AskFits(b, s) /\ b.tried = <<>> /\ b.step \in {"try", "report"} /\ a.tried = <<>>
  <1> DEFINE q == a.question
             x == FirstStep(q)
             o == IF x = "try" THEN a.outcome ELSE "not_asked_no_evidence"
             a1 == [a EXCEPT !.available = TRUE]
             a2 == [a1 EXCEPT !.step = x]
             b == [a EXCEPT !.available = TRUE, !.step = x,
                            !.outcome = IF x = "try" THEN @ ELSE "not_asked_no_evidence"]
  <1>1. a \in Ask /\ a1 \in Ask
    BY AskFieldTypes DEF AskFits
  <1>2. x \in {"try", "report"} /\ (x = "try" <=> has_grounded_evidence(q.verdict))
    BY DEF FirstStep
  <1>3. b = [a2 EXCEPT !.outcome = o]
    OBVIOUS
  <1>4. o \in Outcome
    BY <1>1 DEF Ask, Outcome
  <1>5. x = "report" => o = "not_asked_no_evidence"
    OBVIOUS
  <1>6. a2 \in Ask
    <2> HIDE DEF x, a1
    <2> QED BY <1>1, <1>2, AskFieldTypes
  <1>7. b \in Ask
    <2> HIDE DEF a2, o, b
    <2> QED BY <1>3, <1>4, <1>6, AskFieldTypes
  <1>8. /\ b.step = x /\ b.question = q /\ b.tried = a.tried
        /\ b.outcome = o /\ b.output = a.output /\ b.available
    BY <1>1 DEF Ask
  <1>9. a.tried = <<>> /\ a.output = NoOutput
    BY DEF AskFits, AvailabilityFits
  <1>10. Len(a.tried) = 0 /\ Len(Contracts(s)) > 0 /\ Len(Contracts(s)) \in Nat
    BY <1>9, ContractsFacts
  <1> HIDE DEF b, o, x
  <1>11. TriesFit(b, s)
    BY <1>2, <1>5, <1>8, <1>9, <1>10 DEF TriesFit
  <1>12. AvailabilityFits(b, s) /\ TextFits(b)
    BY <1>2, <1>8, <1>9 DEF AvailabilityFits, TextFits
  <1> QED BY <1>2, <1>7, <1>8, <1>9, <1>11, <1>12 DEF AskFits, b, x

\* A request that has asked a model.
LEMMA TryFits ==
    ASSUME NEW s \in Settings, NEW a, AskFits(a, s), a.step = "try",
           NEW r \in a.question.replies \cup {StubReply}, NEW o,
           o = OutcomeOf[a.question][r], o # "raises"
    PROVE  LET b == [a EXCEPT !.step = "count", !.outcome = o, !.tried = Append(@, o),
                              !.output = IF o = "ok" THEN r.text ELSE NoOutput]
           IN  AskFits(b, s) /\ b.tried = Append(a.tried, o) /\ b.step = "count" /\ b.available
  <1> DEFINE q == a.question
             t == Append(a.tried, o)
             u == IF o = "ok" THEN r.text ELSE NoOutput
             a1 == [a EXCEPT !.step = "count"]
             a2 == [a1 EXCEPT !.outcome = o]
             a3 == [a2 EXCEPT !.tried = t]
             b == [a EXCEPT !.step = "count", !.outcome = o, !.tried = Append(@, o),
                            !.output = IF o = "ok" THEN r.text ELSE NoOutput]
  <1>1. a \in Ask /\ q \in Questions /\ a.tried \in Seq(Outcome)
    BY DEF AskFits, Ask
  <1>2. /\ o \in Outcome
        /\ o = "ok" => validate_explanation(r.text, q.verdict, shown_message[q]) = "ok"
        /\ r.text \in Output
    BY <1>1, OutcomeFacts
  <1>3. u \in Output /\ t \in Seq(Outcome)
    BY <1>1, <1>2 DEF Output, NoOutput, Flaw
  <1>4. /\ Len(t) = Len(a.tried) + 1 /\ t[Len(t)] = o /\ t # <<>>
        /\ \A i \in 1 .. Len(a.tried) : t[i] = a.tried[i]
    BY <1>1, <1>2
  <1>5. b = [a3 EXCEPT !.output = u]
    OBVIOUS
  <1>6. u # NoOutput => validate_explanation(u, q.verdict, shown_message[q]) = "ok"
    BY <1>2
  <1> HIDE DEF t, u
  <1>7. a1 \in Ask
    BY <1>1, AskFieldTypes
  <1>8. a2 \in Ask
    <2> HIDE DEF a1
    <2> QED BY <1>2, <1>7, AskFieldTypes
  <1>9. a3 \in Ask
    <2> HIDE DEF a2
    <2> QED BY <1>3, <1>8, AskFieldTypes
  <1>10. b \in Ask
    <2> HIDE DEF a3, b
    <2> QED BY <1>3, <1>5, <1>9, AskFieldTypes
  <1>11. /\ b.step = "count" /\ b.question = q /\ b.tried = t
         /\ b.outcome = o /\ b.output = u /\ b.available = a.available
    BY <1>1, <1>5 DEF Ask
  <1>12. Len(a.tried) \in Nat /\ Len(Contracts(s)) \in Nat
    BY <1>1, ContractsFacts
  <1>13. /\ has_grounded_evidence(q.verdict) /\ Len(a.tried) < Len(Contracts(s))
         /\ a.tried # <<>> => a.tried[Len(a.tried)] # "ok"
         /\ \A i \in 1 .. (Len(a.tried) - 1) : a.tried[i] # "ok"
    BY DEF AskFits, TriesFit
  <1>14. \A i \in 1 .. Len(a.tried) : a.tried[i] # "ok"
    <2> SUFFICES ASSUME NEW i \in 1 .. Len(a.tried) PROVE a.tried[i] # "ok"
      OBVIOUS
    <2>1. CASE i = Len(a.tried)
      <3>1. a.tried # <<>>
        BY <1>1, <2>1
      <3> QED BY <1>13, <2>1, <3>1
    <2>2. CASE i # Len(a.tried)
      BY <1>12, <1>13, <2>2
    <2> QED BY <2>1, <2>2
  <1> HIDE DEF b, q
  <1>15. TriesFit(b, s)
    <2>1. \A i \in 1 .. (Len(t) - 1) : t[i] # "ok"
      BY <1>4, <1>12, <1>14
    <2>2. Len(t) <= Len(Contracts(s))
      BY <1>4, <1>12, <1>13
    <2> QED BY <1>4, <1>11, <1>13, <2>1, <2>2 DEF TriesFit
  <1>16. AvailabilityFits(b, s)
    BY <1>11 DEF AskFits, AvailabilityFits
  <1>17. TextFits(b)
    BY <1>6, <1>11 DEF TextFits
  <1>18. b.available
    BY <1>11 DEF AskFits, AvailabilityFits
  <1> QED BY <1>10, <1>11, <1>15, <1>16, <1>17, <1>18 DEF AskFits, b, t
-----------------------------------------------------------------------------
(* The steps of the explanations.                                          *)

LEMMA ExplInvInit == ExplInit => ExplInv
  <1> SUFFICES ASSUME ExplInit PROVE ExplInv
    OBVIOUS
  <1>1. setting \in Settings /\ Len(Contracts(setting)) \in Nat
    BY ContractsFacts DEF ExplInit
  <1>2. RuntimeFits
    BY <1>1 DEF ExplInit, RuntimeFits, Unasked
  <1>3. ASSUME NEW c \in Conns
        PROVE  AskFits(Unasked, setting)
    <2>1. (CHOOSE q \in Questions : TRUE) \in Questions
      BY QuestionsAssumption
    <2>2. Unasked \in Ask
      BY <2>1 DEF Unasked, Ask, Outcome, Output, NoOutput, Flaw
    <2> QED BY <1>1, <2>2 DEF AskFits, TriesFit, AvailabilityFits, TextFits, Unasked
  <1>4. AsksFit
    BY <1>3 DEF ExplInit, AsksFit, AskFits
  <1>5. 0 \in Nat
    OBVIOUS
  <1> QED BY <1>2, <1>4, <1>5 DEF ExplInv, ExplInit

\* A step of one request leaves the others as they were.
LEMMA OneAsks ==
    ASSUME ExplInv, NEW c \in Conns, NEW b, ask' = [ask EXCEPT ![c] = b],
           AskFits(b, setting), setting' = setting,
           runtime' \in {runtime, Contracts(setting)}, runtime_loaded' \in BOOLEAN,
           runtime_loaded' => runtime' = Contracts(setting),
           b.step \in {"mark", "read"} \/ b.available => runtime' = Contracts(setting),
           attempts' \in [Models \X Outcome -> Nat], results' \in [Outcome -> Nat]
    PROVE  ExplInv'
  <1>1. b \in Ask
    BY DEF AskFits
  <1>2. \A d \in Conns : ask'[d] = IF d = c THEN b ELSE ask[d]
    BY DEF ExplInv, AsksFit
  <1>3. ask' \in [Conns -> Ask]
    BY <1>1 DEF ExplInv, AsksFit
  <1>4. \A d \in Conns : AskFits(ask'[d], setting)
    <2> SUFFICES ASSUME NEW d \in Conns PROVE AskFits(ask'[d], setting)
      OBVIOUS
    <2>1. CASE d = c
      <3>1. ask'[d] = b
        BY <1>2, <2>1
      <3> QED BY <3>1
    <2>2. CASE d # c
      <3>1. ask'[d] = ask[d]
        BY <1>2, <2>2
      <3> QED BY <3>1 DEF ExplInv, AsksFit
    <2> QED BY <2>1, <2>2
  <1>5. AsksFit'
    BY <1>3, <1>4 DEF AsksFit
  <1>6. \A d \in Conns : ask'[d].step \in {"mark", "read"} \/ ask'[d].available =>
            runtime' = Contracts(setting)
    <2> SUFFICES ASSUME NEW d \in Conns, ask'[d].step \in {"mark", "read"} \/ ask'[d].available
                 PROVE  runtime' = Contracts(setting)
      OBVIOUS
    <2>1. CASE d = c
      BY <1>2, <2>1
    <2>2. CASE d # c
      <3>1. ask'[d] = ask[d]
        BY <1>2, <2>2
      <3>2. runtime = Contracts(setting)
        BY <3>1 DEF ExplInv, RuntimeFits
      <3> QED BY <3>2
    <2> QED BY <2>1, <2>2
  <1>7. RuntimeFits'
    BY <1>6 DEF ExplInv, RuntimeFits
  <1> QED BY <1>5, <1>7 DEF ExplInv

LEMMA BeginStep ==
    ASSUME ExplInv, NEW c \in Conns, NEW q \in Questions, Begin(c, q)
    PROVE  ExplInv'
  <1> DEFINE a == ask[c]
             b == [a EXCEPT !.step = "check", !.question = q]
  <1>1. AskFits(a, setting) /\ setting \in Settings /\ a.step = "none"
    BY DEF ExplInv, AsksFit, RuntimeFits, Begin, At
  <1>2. AskFits(b, setting)
    BY <1>1, BeginFits
  <1>3. ask' = [ask EXCEPT ![c] = b]
    BY DEF Begin
  <1>4. b.step = "check" /\ ~b.available
    BY <1>1 DEF AskFits, Ask, AvailabilityFits
  <1> HIDE DEF b
  <1> QED BY <1>2, <1>3, <1>4, OneAsks DEF Begin, ExplInv, RuntimeFits

\* explanation_runtime(), by one thread among others.
LEMMA RuntimeStep ==
    ASSUME ExplInv, NEW c \in Conns,
           CheckLoaded(c) \/ BuildRuntime(c) \/ BuildFails(c) \/ MarkLoaded(c)
    PROVE  ExplInv'
  <1> DEFINE a == ask[c]
             b(x) == [a EXCEPT !.step = x]
  <1>1. AskFits(a, setting) /\ setting \in Settings /\ a \in Ask
    BY DEF ExplInv, AsksFit, RuntimeFits, AskFits
  <1>2. ASSUME NEW x \in {"check", "build", "mark", "read", "failed"},
               a.step \in {"check", "build", "mark"}, Goto(c, x)
        PROVE  /\ AskFits(b(x), setting) /\ ask' = [ask EXCEPT ![c] = b(x)]
               /\ b(x).step = x /\ ~b(x).available
    <2>1. ~a.available
      BY <1>1, <1>2 DEF AskFits, AvailabilityFits
    <2>2. AskFits(b(x), setting)
      BY <1>1, <1>2, StepFits
    <2>4. b(x).step = x /\ (b(x).available <=> a.available)
      BY <1>1 DEF Ask
    <2>3. ask' = [ask EXCEPT ![c] = b(x)]
      BY <1>2 DEF Goto
    <2> HIDE DEF b
    <2> QED BY <2>1, <2>2, <2>3, <2>4
  <1> HIDE DEF b
  <1>3. CASE CheckLoaded(c)
    <2> DEFINE x == IF runtime_loaded THEN "read" ELSE "build"
    <2>1. Goto(c, x) /\ a.step = "check" /\ x \in {"read", "build"}
          /\ (x = "read" => runtime_loaded)
      BY <1>3 DEF CheckLoaded, At
    <2> HIDE DEF x
    <2> QED BY <1>1, <1>2, <1>3, <2>1, OneAsks DEF CheckLoaded, ExplInv, RuntimeFits
  <1>4. CASE BuildRuntime(c)
    BY <1>1, <1>2, <1>4, OneAsks DEF BuildRuntime, ExplInv, RuntimeFits, At
  <1>5. CASE BuildFails(c)
    BY <1>1, <1>2, <1>5, OneAsks DEF BuildFails, ExplInv, RuntimeFits, At
  <1>6. CASE MarkLoaded(c)
    BY <1>1, <1>2, <1>6, OneAsks DEF MarkLoaded, ExplInv, RuntimeFits, At
  <1> QED BY <1>3, <1>4, <1>5, <1>6

\* explain_with_fallback(), by one thread among others.
LEMMA FallbackStep ==
    ASSUME ExplInv, NEW c \in Conns,
           ReadRuntime(c) \/ TryModel(c) \/ CountAttempt(c) \/ Report(c)
    PROVE  ExplInv'
  <1> DEFINE a == ask[c]
  <1>1. AskFits(a, setting) /\ setting \in Settings /\ a \in Ask
    BY DEF ExplInv, AsksFit, RuntimeFits, AskFits
  <1>2. a.step \in {"mark", "read"} \/ a.available => runtime = Contracts(setting)
    BY DEF ExplInv, RuntimeFits
  <1>3. CASE ReadRuntime(c)
    <2>1. a.step = "read" /\ runtime = Contracts(setting)
      BY <1>2, <1>3 DEF ReadRuntime, At
    <2>2. CASE runtime = <<>>
      <3> DEFINE b == [a EXCEPT !.step = "answered"]
      <3>1. setting = "off"
        BY <1>1, <2>1, <2>2, ContractsFacts
      <3>2. AskFits(b, setting)
        BY <1>1, <2>1, <3>1, StepFits
      <3>3. ask' = [ask EXCEPT ![c] = b]
        BY <1>3, <2>2 DEF ReadRuntime, Goto
      <3> HIDE DEF b
      <3> QED BY <1>3, <2>1, <3>2, <3>3, OneAsks DEF ReadRuntime, ExplInv, RuntimeFits
    <2>3. CASE runtime # <<>>
      <3> DEFINE x == FirstStep(a.question)
                 b == [a EXCEPT !.available = TRUE, !.step = x,
                                !.outcome = IF x = "try" THEN @ ELSE "not_asked_no_evidence"]
      <3>1. setting # "off"
        BY <1>1, <2>1, <2>3, ContractsFacts
      <3>2. AskFits(b, setting)
        BY <1>1, <2>1, <3>1, ReadFits
      <3>3. ask' = [ask EXCEPT ![c] = b]
        BY <1>3, <2>3 DEF ReadRuntime
      <3> HIDE DEF b
      <3> QED BY <1>3, <2>1, <3>2, <3>3, OneAsks DEF ReadRuntime, ExplInv, RuntimeFits
    <2> QED BY <2>2, <2>3
  <1>4. CASE TryModel(c)
    <2>1. a.step = "try" /\ runtime = Contracts(setting)
      BY <1>1, <1>2, <1>4 DEF TryModel, At, AskFits, AvailabilityFits
    <2>2. PICK r \in RepliesTo(a.question) :
            LET o == OutcomeOf[a.question][r] IN
            IF o = "raises" THEN Goto(c, "failed")
            ELSE ask' = [ask EXCEPT ![c].step = "count", ![c].outcome = o,
                                    ![c].tried = Append(@, o),
                                    ![c].output = IF o = "ok" THEN r.text ELSE NoOutput]
      BY <1>4 DEF TryModel
    <2>3. r \in a.question.replies \cup {StubReply}
      BY DEF RepliesTo
    <2> DEFINE o == OutcomeOf[a.question][r]
    <2>4. CASE o = "raises"
      <3> DEFINE b == [a EXCEPT !.step = "failed"]
      <3>1. AskFits(b, setting)
        BY <1>1, <2>1, StepFits
      <3>2. ask' = [ask EXCEPT ![c] = b]
        BY <2>2, <2>4 DEF Goto
      <3> HIDE DEF b
      <3> QED BY <1>4, <2>1, <3>1, <3>2, OneAsks DEF TryModel, ExplInv, RuntimeFits
    <2>5. CASE o # "raises"
      <3> DEFINE b == [a EXCEPT !.step = "count", !.outcome = o, !.tried = Append(@, o),
                                !.output = IF o = "ok" THEN r.text ELSE NoOutput]
      <3>1. AskFits(b, setting)
        BY <1>1, <2>1, <2>3, <2>5, TryFits
      <3>2. ask' = [ask EXCEPT ![c] = b]
        BY <2>2, <2>5
      <3> HIDE DEF b
      <3> QED BY <1>4, <2>1, <3>1, <3>2, OneAsks DEF TryModel, ExplInv, RuntimeFits
    <2> QED BY <2>4, <2>5
  <1>5. CASE CountAttempt(c)
    <2> DEFINE x == IF Finished(c) THEN "report" ELSE "try"
               b == [a EXCEPT !.step = x]
    <2>1. a.step = "count" /\ runtime = Contracts(setting) /\ a.tried # <<>>
      BY <1>1, <1>2, <1>5 DEF CountAttempt, At, AskFits, AvailabilityFits, TriesFit
    <2>2. \/ x = "report" /\ (a.outcome = "ok" \/ Len(a.tried) = Len(Contracts(setting)))
          \/ x = "try" /\ a.outcome # "ok" /\ Len(a.tried) # Len(Contracts(setting))
      BY <2>1 DEF Finished
    <2> HIDE DEF x
    <2>3. AskFits(b, setting)
      BY <1>1, <2>1, <2>2, StepFits
    <2>4. ask' = [ask EXCEPT ![c] = b]
      BY <1>5 DEF CountAttempt, Goto, x
    <2> HIDE DEF b
    <2>5. CountedModel(c) \in Models /\ a.outcome \in Outcome
      <3>1. Len(a.tried) \in DOMAIN runtime
        BY <1>1, <2>1, ContractsFacts DEF AskFits, TriesFit, Ask
      <3>2. runtime \in Seq(Models)
        BY <1>1, <2>1, ContractsFacts
      <3> QED BY <1>1, <3>1, <3>2 DEF CountedModel, Model, Ask
    <2>6. attempts' \in [Models \X Outcome -> Nat]
      <3> DEFINE m == <<CountedModel(c), a.outcome>>
      <3>1. m \in Models \X Outcome
        BY <2>5
      <3>2. attempts' = [attempts EXCEPT ![m] = @ + 1]
        BY <1>5 DEF CountAttempt
      <3> HIDE DEF m
      <3> QED BY <3>1, <3>2 DEF ExplInv
    <2> QED BY <1>5, <2>1, <2>3, <2>4, <2>6, OneAsks DEF CountAttempt, ExplInv, RuntimeFits
  <1>6. CASE Report(c)
    <2> DEFINE b == [a EXCEPT !.step = "answered"]
    <2>1. a.step = "report" /\ runtime = Contracts(setting)
      BY <1>1, <1>2, <1>6 DEF Report, At, AskFits, AvailabilityFits
    <2>2. AskFits(b, setting)
      BY <1>1, <2>1, StepFits
    <2>3. ask' = [ask EXCEPT ![c] = b]
      BY <1>6 DEF Report, Goto
    <2> HIDE DEF b
    <2>4. a.outcome \in Outcome
      BY <1>1 DEF Ask
    <2>5. results' \in [Outcome -> Nat]
      BY <1>6, <2>4 DEF Report, ExplInv
    <2> QED BY <1>6, <2>1, <2>2, <2>3, <2>5, OneAsks DEF Report, ExplInv, RuntimeFits
  <1> QED BY <1>3, <1>4, <1>5, <1>6
LEMMA ExplainStep ==
    ASSUME ExplInv, NEW c \in Conns, Explain(c)
    PROVE  ExplInv'
  BY RuntimeStep, FallbackStep DEF Explain

-----------------------------------------------------------------------------
(* The invariant of the whole.                                             *)

\* How far the handler has come, and what has left for the client.
Admitted(r, k, a) ==
    a.step # "none" =>
        /\ r = "explanation" /\ k.told = "end" /\ k.phase \in {"app", "done"}
        /\ a.step \notin {"answered", "failed"} => k.phase = "app" /\ k.said = "nothing"
        /\ a.step = "failed" => \/ k.phase = "app" /\ k.said = "nothing"
                                \/ k.phase = "done" /\ k.wire = <<Start(ServerError), End>>
        /\ a.step = "answered" => \A i \in DOMAIN k.wire : k.wire[i] \in {Start(200), End}

AllAdmitted == \A c \in Conns : Admitted(route[c], conn[c], ask[c])

CountsFit == /\ route \in [Conns -> Routes] /\ observed \subseteq Conns
             /\ requests \in [Statuses -> Nat]

Inv == LimitInv /\ ExplInv /\ AllAdmitted /\ CountsFit

\* What a handler that runs knows of its request.
LEMMA QuietFacts ==
    ASSUME NEW k, Sound(k), k.phase = "app", k.told = "end"
    PROVE  /\ k \in Conn /\ Passes(k) /\ ~Unanswered(k) /\ ~k.exceeded
           /\ k.said = "nothing" => k.wire = <<>>
           /\ k.said = "ended" => k.wire # <<>>
  <1>1. k \in Conn /\ ~k.exceeded
    BY DEF Sound, CountIsExact
  <1>2. k.started => k.said # "nothing" /\ k.wire # <<>>
    BY DEF Sound, Passing, Begins
  <1>3. ~k.started => k.wire = <<>> /\ k.said = "nothing"
    BY <1>1 DEF Sound, Standing
  <1> QED BY <1>1, <1>2, <1>3 DEF Passes, Unanswered

\* A request that the handler has not seen may go any way.
LEMMA ConnMoves ==
    ASSUME AllAdmitted, NEW c \in Conns, NEW k, conn \in [Conns -> Conn],
           conn' = [conn EXCEPT ![c] = k],
           UNCHANGED <<ask, route>>, Admitted(route[c], k, ask[c])
    PROVE  AllAdmitted'
  <1> SUFFICES ASSUME NEW d \in Conns PROVE Admitted(route[d], conn'[d], ask[d])
    BY DEF AllAdmitted
  <1>1. CASE d = c
    <2>1. conn'[d] = k
      BY <1>1
    <2> QED BY <1>1, <2>1
  <1>2. CASE d # c
    <2>1. conn'[d] = conn[d]
      BY <1>2
    <2> QED BY <2>1 DEF AllAdmitted
  <1> QED BY <1>1, <1>2

LEMMA AskMoves ==
    ASSUME AllAdmitted, NEW c \in Conns, NEW a, ask \in [Conns -> Ask],
           ask' = [ask EXCEPT ![c] = a],
           UNCHANGED <<conn, route>>, Admitted(route[c], conn[c], a)
    PROVE  AllAdmitted'
  <1> SUFFICES ASSUME NEW d \in Conns PROVE Admitted(route[d], conn[d], ask'[d])
    BY DEF AllAdmitted
  <1>1. CASE d = c
    <2>1. ask'[d] = a
      BY <1>1
    <2> QED BY <1>1, <2>1
  <1>2. CASE d # c
    <2>1. ask'[d] = ask[d]
      BY <1>2
    <2> QED BY <2>1 DEF AllAdmitted
  <1> QED BY <1>1, <1>2

\* A thread at work moves its own request only, and only while it works.
LEMMA ExplainMoves ==
    ASSUME NEW c \in Conns, Explain(c), ask \in [Conns -> Ask]
    PROVE  /\ ask[c].step \in {"check", "build", "mark", "read", "try", "count", "report"}
           /\ \E a : ask' = [ask EXCEPT ![c] = a] /\ a.step # "none"
  <1> DEFINE a(x) == [ask[c] EXCEPT !.step = x]
  <1>1. ask[c] \in Ask
    OBVIOUS
  <1>2. ASSUME NEW x \in {"check", "build", "mark", "read", "try", "report", "answered",
                          "failed"}, Goto(c, x)
        PROVE  \E b : ask' = [ask EXCEPT ![c] = b] /\ b.step # "none"
    <2>1. ask' = [ask EXCEPT ![c] = a(x)] /\ a(x).step = x
      BY <1>1, <1>2 DEF Goto, Ask
    <2> HIDE DEF a
    <2> QED BY <2>1
  <1> HIDE DEF a
  <1>3. CASE CheckLoaded(c)
    BY <1>2, <1>3 DEF CheckLoaded, At
  <1>4. CASE BuildRuntime(c)
    BY <1>2, <1>4 DEF BuildRuntime, At
  <1>5. CASE BuildFails(c)
    BY <1>2, <1>5 DEF BuildFails, At
  <1>6. CASE MarkLoaded(c)
    BY <1>2, <1>6 DEF MarkLoaded, At
  <1>7. CASE ReadRuntime(c)
    <2> DEFINE x == FirstStep(ask[c].question)
               b == [ask[c] EXCEPT !.available = TRUE, !.step = x,
                           !.outcome = IF x = "try" THEN @ ELSE "not_asked_no_evidence"]
    <2>1. x # "none"
      BY DEF FirstStep
    <2> HIDE DEF x
    <2>2. b.step # "none"
      BY <1>1, <2>1 DEF Ask
    <2>3. CASE runtime = <<>>
      BY <1>2, <1>7, <2>3 DEF ReadRuntime, At
    <2>4. CASE runtime # <<>>
      <3>1. ask' = [ask EXCEPT ![c] = b]
        BY <1>7, <2>4 DEF ReadRuntime, x
      <3>2. ask[c].step = "read"
        BY <1>7 DEF ReadRuntime, At
      <3> HIDE DEF b
      <3> QED BY <2>2, <3>1, <3>2
    <2> QED BY <2>3, <2>4
  <1>8. CASE TryModel(c)
    <2>1. PICK r \in RepliesTo(ask[c].question) :
            LET o == OutcomeOf[ask[c].question][r] IN
            IF o = "raises" THEN Goto(c, "failed")
            ELSE ask' = [ask EXCEPT ![c].step = "count", ![c].outcome = o,
                                    ![c].tried = Append(@, o),
                                    ![c].output = IF o = "ok" THEN r.text ELSE NoOutput]
      BY <1>8 DEF TryModel
    <2>2. ask[c].step = "try"
      BY <1>8 DEF TryModel, At
    <2> DEFINE o == OutcomeOf[ask[c].question][r]
               b == [ask[c] EXCEPT !.step = "count", !.outcome = o, !.tried = Append(@, o),
                                   !.output = IF o = "ok" THEN r.text ELSE NoOutput]
    <2>3. CASE o = "raises"
      BY <1>2, <2>1, <2>2, <2>3
    <2>4. CASE o # "raises"
      <3>1. ask' = [ask EXCEPT ![c] = b]
        BY <2>1, <2>4
      <3>2. b.step # "none"
        BY <1>1 DEF Ask
      <3> HIDE DEF b
      <3> QED BY <2>2, <3>1, <3>2
    <2> QED BY <2>3, <2>4
  <1>9. CASE CountAttempt(c)
    BY <1>2, <1>9 DEF CountAttempt, At
  <1>10. CASE Report(c)
    BY <1>2, <1>10 DEF Report, At
  <1> QED BY <1>3, <1>4, <1>5, <1>6, <1>7, <1>8, <1>9, <1>10 DEF Explain
\* What is not the handler's leaves requests alone that the handler has seen.
LEMMA OutsideAdmits ==
    ASSUME Inv, NEW c \in Conns, UNCHANGED <<ask, route>>,
           \/ Client(c) \/ FinishRefusal(c)
           \/ Application(c) /\ route[c] = "other"
           \/ \E m : Say(c, m) /\ conn[c].told = "nothing"
    PROVE  AllAdmitted'
  <1>1. ask[c].step = "none"
    BY DEF Inv, AllAdmitted, Admitted, Client, Arrive, Receive, ClientGone, FinishRefusal
  <1>2. PICK k : conn' = [conn EXCEPT ![c] = k]
    <2>1. CASE Client(c)
      <3>1. ASSUME NEW n \in Lengths, Arrive(c, n)
            PROVE  \E k : conn' = [conn EXCEPT ![c] = k]
        BY <3>1 DEF Arrive
      <3>2. ASSUME NEW n \in Sizes, NEW more \in BOOLEAN, Receive(c, n, more)
            PROVE  \E k : conn' = [conn EXCEPT ![c] = k]
        <4> DEFINE t == IF Exceeds(Counted(conn[c], n)) THEN "disconnect"
                        ELSE IF more THEN "more" ELSE "end"
                   k == [conn[c] EXCEPT !.sent = @ + n, !.received = Counted(conn[c], n),
                             !.exceeded = Exceeds(Counted(conn[c], n)), !.told = t]
        <4>1. conn' = [conn EXCEPT ![c] = k]
          BY <3>2 DEF Receive
        <4> QED BY <4>1
      <3>3. ASSUME ClientGone(c)
            PROVE  \E k : conn' = [conn EXCEPT ![c] = k]
        <4>1. conn' = [conn EXCEPT ![c] = [conn[c] EXCEPT !.told = "disconnect"]]
          BY <3>3 DEF ClientGone
        <4> QED BY <4>1
      <3> QED BY <2>1, <3>1, <3>2, <3>3 DEF Client
    <2>2. CASE FinishRefusal(c)
      <3> DEFINE k == [conn[c] EXCEPT !.phase = IF conn[c].rejected THEN "app" ELSE "done",
                                      !.wire = Append(@, End)]
      <3>1. conn' = [conn EXCEPT ![c] = k]
        BY <2>2 DEF FinishRefusal
      <3> QED BY <3>1
    <2>3. ASSUME NEW m, Say(c, m)
          PROVE  \E k : conn' = [conn EXCEPT ![c] = k]
      BY <2>3 DEF Say
    <2>4. CASE Return(c)
      BY <2>4 DEF Return
    <2>5. CASE Raise(c)
      BY <2>5 DEF Raise
    <2> QED BY <2>1, <2>2, <2>3, <2>4, <2>5 DEF Application
  <1>3. Admitted(route[c], k, ask[c])
    BY <1>1 DEF Admitted
  <1> QED BY <1>2, <1>3, ConnMoves DEF Inv, LimitInv

\* The answer of the handler, and its failure.
LEMMA RouteAdmits ==
    ASSUME Inv, NEW c \in Conns, Answer(c) \/ Fail(c)
    PROVE  AllAdmitted'
  <1> DEFINE k == conn[c]
  <1>1. Sound(k) /\ k.phase = "app" /\ UNCHANGED <<ask, route>>
        /\ Admitted(route[c], k, ask[c]) /\ AllAdmitted /\ conn \in [Conns -> Conn]
    BY DEF Inv, LimitInv, AllAdmitted, Answer, Fail, Running, explVars
  <1>2. CASE Fail(c)
    <2> DEFINE j == Closed(k)
    <2>1. k.told = "end" /\ k.said = "nothing" /\ ask[c].step = "failed"
          /\ route[c] = "explanation"
      BY <1>1, <1>2 DEF Fail, At, Admitted
    <2>2. k \in Conn /\ k.wire = <<>>
      BY <1>1, <2>1, QuietFacts
    <2>3. j.phase = "done" /\ j.told = k.told /\ j.wire = <<Start(ServerError), End>>
      BY <2>2 DEF Closed, Conn
    <2>4. conn' = [conn EXCEPT ![c] = j]
      BY <1>2 DEF Fail, Raise
    <2> HIDE DEF j
    <2>5. Admitted(route[c], j, ask[c])
      BY <2>1, <2>3 DEF Admitted
    <2> QED BY <1>1, <2>4, <2>5, ConnMoves
  <1>3. CASE Answer(c) /\ ask[c].step = "none"
    <2>1. ASSUME NEW m, Say(c, m)
          PROVE  \E j : conn' = [conn EXCEPT ![c] = j]
      BY <2>1 DEF Say
    <2>2. PICK j : conn' = [conn EXCEPT ![c] = j]
      BY <1>3, <2>1 DEF Answer, Return
    <2>3. Admitted(route[c], j, ask[c])
      BY <1>3 DEF Admitted
    <2> QED BY <1>1, <2>2, <2>3, ConnMoves
  <1>4. CASE Answer(c) /\ ask[c].step # "none"
    <2>1. k.told = "end" /\ ask[c].step = "answered" /\ route[c] = "explanation"
      BY <1>1, <1>4 DEF Answer, HasAnswer, Admitted
    <2>2. /\ k \in Conn /\ Passes(k) /\ ~Unanswered(k)
          /\ k.said = "ended" => k.wire # <<>>
          /\ \A i \in DOMAIN k.wire : k.wire[i] \in {Start(200), End}
      BY <1>1, <2>1, QuietFacts DEF Admitted
    <2>3. Status(c) = 200
      BY <2>1 DEF Status, At
    <2>4. ASSUME NEW m \in {Start(200), End}, Say(c, m)
          PROVE  AllAdmitted'
      <3> DEFINE w == Append(k.wire, m)
                 h == [k EXCEPT !.said = Says(k.said, m)]
                 j == [h EXCEPT !.started = TRUE, !.wire = w]
      <3>1. conn' = [conn EXCEPT ![c] = j]
        BY <2>2, <2>4 DEF Say
      <3>2. j.phase = "app" /\ j.told = "end" /\ j.wire = w
        BY <1>1, <2>1, <2>2 DEF Conn
      <3>3. \A i \in DOMAIN w : w[i] \in {Start(200), End}
        <4>1. k.wire \in Seq(Message)
          BY <2>2 DEF Conn
        <4>2. m \in Message
          BY MessageFacts DEF Message, Statuses
        <4>3. DOMAIN w = 1 .. (Len(k.wire) + 1) /\ w[Len(k.wire) + 1] = m
              /\ \A i \in 1 .. Len(k.wire) : w[i] = k.wire[i]
          BY <4>1, <4>2, AppendProperties
        <4>4. DOMAIN k.wire = 1 .. Len(k.wire) /\ Len(k.wire) \in Nat
          BY <4>1
        <4> HIDE DEF w
        <4> QED BY <2>2, <4>3, <4>4
      <3> HIDE DEF j
      <3>4. Admitted(route[c], j, ask[c])
        BY <2>1, <3>2, <3>3 DEF Admitted
      <3> QED BY <1>1, <3>1, <3>4, ConnMoves
    <2>5. CASE Return(c)
      <3> DEFINE j == Closed(k)
      <3>1. k.said = "ended" /\ conn' = [conn EXCEPT ![c] = j]
        BY <2>1, <2>2, <2>5 DEF Return
      <3>2. j.phase = "done" /\ j.told = "end" /\ j.wire = k.wire
        BY <2>1, <2>2, <3>1 DEF Closed, Conn
      <3> HIDE DEF j
      <3>3. Admitted(route[c], j, ask[c])
        BY <2>1, <2>2, <3>2 DEF Admitted
      <3> QED BY <1>1, <3>1, <3>3, ConnMoves
    <2> QED BY <1>4, <2>3, <2>4, <2>5 DEF Answer
  <1> QED BY <1>2, <1>3, <1>4

\* The handler begins with a body read to its end, and works unheard.
LEMMA WorkAdmits ==
    ASSUME Inv, NEW c \in Conns, Handle(c) \/ Work(c)
    PROVE  AllAdmitted'
  <1>1. ask \in [Conns -> Ask] /\ Sound(conn[c]) /\ UNCHANGED <<conn, route>>
        /\ Admitted(route[c], conn[c], ask[c]) /\ AllAdmitted
    BY DEF Inv, ExplInv, AsksFit, LimitInv, AllAdmitted, Handle, Work
  <1>2. CASE Handle(c)
    <2>1. PICK q : Begin(c, q)
      BY <1>2 DEF Handle
    <2> DEFINE a == [ask[c] EXCEPT !.step = "check", !.question = q]
    <2>2. ask' = [ask EXCEPT ![c] = a] /\ a.step = "check"
      BY <1>1, <2>1 DEF Begin, Ask
    <2> HIDE DEF a
    <2>3. Admitted(route[c], conn[c], a)
      BY <1>2, <2>2 DEF Admitted, Handle, Running, BodyRead
    <2> QED BY <1>1, <2>2, <2>3, AskMoves
  <1>3. CASE Work(c)
    <2>1. Explain(c)
      BY <1>3 DEF Work
    <2>2. ask[c].step \in {"check", "build", "mark", "read", "try", "count", "report"}
      BY <1>1, <2>1, ExplainMoves
    <2>3. PICK a : ask' = [ask EXCEPT ![c] = a]
      BY <1>1, <2>1, ExplainMoves
    <2>4. /\ conn[c].phase = "app" /\ conn[c].said = "nothing" /\ conn[c].told = "end"
          /\ route[c] = "explanation"
      BY <1>1, <2>2 DEF Admitted
    <2>5. conn[c].wire = <<>>
      BY <1>1, <2>4, QuietFacts
    <2>6. DOMAIN conn[c].wire = {}
      BY <2>5
    <2>7. Admitted(route[c], conn[c], a)
      BY <2>4, <2>6 DEF Admitted
    <2> QED BY <1>1, <2>3, <2>7, AskMoves
  <1> QED BY <1>2, <1>3
-----------------------------------------------------------------------------
(* The invariant holds.                                                    *)

LEMMA InvInit == Init => Inv
  <1> SUFFICES ASSUME Init PROVE Inv
    OBVIOUS
  <1>1. LimitInv /\ ExplInv
    BY LimitInvInit, ExplInvInit DEF Init
  <1>2. AllAdmitted
    BY DEF Init, ExplInit, Unasked, AllAdmitted, Admitted
  <1>3. CountsFit
    BY MixesAssumption DEF Init, CountsFit
  <1> QED BY <1>1, <1>2, <1>3 DEF Inv

\* The status that is counted is one of those the backend answers with.
LEMMA SeenType ==
    ASSUME LimitInv, NEW c \in Conns, conn[c].wire # <<>>
    PROVE  Seen(c) \in Statuses /\ conn[c].wire[1] = Start(Seen(c))
  <1> DEFINE w == conn[c].wire
  <1>1. w \in Seq(Message) /\ w[1].type = "start"
    BY SoundMeans DEF LimitInv, Sound, Conn, OneAnswer, Begins
  <1>2. w[1] \in Message
    BY <1>1
  <1>3. PICK s \in Statuses : w[1] = Start(s)
    BY <1>1, <1>2, MessageFacts DEF Message
  <1>4. Seen(c) = s
    BY <1>3, MessageFacts DEF Seen
  <1> QED BY <1>3, <1>4

LEMMA InvStep == Inv /\ [Next]_vars => Inv'
  <1> SUFFICES ASSUME Inv, [Next]_vars PROVE Inv'
    OBVIOUS
  <1> USE DEF Inv
  <1>1. CASE UNCHANGED vars
    <2>1. UNCHANGED <<conn, explVars, route, observed, requests>>
      BY <1>1 DEF vars
    <2>2. LimitInv'
      BY <2>1 DEF LimitInv
    <2>3. ExplInv'
      BY <2>1 DEF ExplInv, RuntimeFits, AsksFit, explVars
    <2>4. AllAdmitted' /\ CountsFit'
      BY <2>1 DEF AllAdmitted, CountsFit, explVars
    <2> QED BY <2>2, <2>3, <2>4
  <1>2. ASSUME NEW c \in Conns, Transport(c) \/ Observe(c) \/ Serve(c)
        PROVE  Inv'
    <2>1. ASSUME UNCHANGED explVars
          PROVE  ExplInv' /\ UNCHANGED ask
      BY <2>1 DEF ExplInv, RuntimeFits, AsksFit, explVars
    <2>2. ASSUME UNCHANGED <<route, observed, requests>>
          PROVE  CountsFit'
      BY <2>2 DEF CountsFit
    <2>3. \A s \in Statuses : Start(s) \in Message
      BY DEF Message
    <2>4. End \in Message
      BY MessageFacts
    <2>5. CASE Transport(c)
      BY <2>1, <2>2, <2>5, MoveKeeps, OutsideAdmits DEF Transport
    <2>6. CASE Refusal(c)
      BY <2>1, <2>2, <2>6, MoveKeeps, OutsideAdmits DEF Refusal
    <2>7. CASE Other(c)
      <3>1. \A s \in Answers : Start(s) \in Message
        BY <2>3, LimitAssumption DEF Statuses, TooLarge, ServerError
      <3>2. Client(c) \/ FinishRefusal(c) \/ Return(c) \/ Raise(c)
              \/ \E m \in Message : Say(c, m)
        BY <2>7, <3>1, MessageFacts DEF Other, Application
      <3>3. LimitInv'
        BY <3>2, MoveKeeps
      <3> QED BY <2>1, <2>2, <2>7, <3>3, OutsideAdmits DEF Other
    <2>8. CASE OverRate(c)
      <3>1. LimitInv'
        BY <2>3, <2>8, MoveKeeps DEF OverRate, Statuses
      <3> QED BY <2>1, <2>2, <2>8, <3>1, OutsideAdmits DEF OverRate
    <2>9. CASE Answer(c)
      <3>1. Start(Status(c)) \in Message
        BY <2>3 DEF Status, Statuses
      <3>2. LimitInv'
        BY <2>4, <2>9, <3>1, MoveKeeps DEF Answer
      <3> QED BY <2>1, <2>2, <2>9, <3>2, RouteAdmits DEF Answer
    <2>10. CASE Fail(c)
      BY <2>1, <2>2, <2>10, MoveKeeps, RouteAdmits DEF Fail
    <2>11. CASE Handle(c)
      <3>1. PICK q \in Asks[c] : Begin(c, q)
        BY <2>11 DEF Handle
      <3>2. q \in Questions
        BY AsksAssumption
      <3>3. LimitInv'
        BY <2>11 DEF LimitInv, Handle
      <3> QED BY <2>2, <2>11, <3>1, <3>2, <3>3, BeginStep, WorkAdmits DEF Handle
    <2>12. CASE Work(c)
      <3>1. LimitInv'
        BY <2>12 DEF LimitInv, Work
      <3> QED BY <2>2, <2>12, <3>1, ExplainStep, WorkAdmits DEF Work
    <2>13. CASE Observe(c)
      <3>1. LimitInv' /\ AllAdmitted'
        BY <2>13 DEF LimitInv, AllAdmitted, Observe, explVars
      <3>2. Seen(c) \in Statuses
        BY <2>13, SeenType DEF Observe
      <3>3. CountsFit'
        BY <2>13, <3>2 DEF Observe, CountsFit
      <3> QED BY <2>1, <2>13, <3>1, <3>3 DEF Observe
    <2> QED BY <1>2, <2>5, <2>6, <2>7, <2>8, <2>9, <2>10, <2>11, <2>12, <2>13
            DEF Serve, Route
  <1> QED BY <1>1, <1>2 DEF Next

\* The requests and their explanations keep to the invariant.
THEOREM RequestInvariance == Spec => []Inv
  BY InvInit, InvStep, PTL DEF Spec

-----------------------------------------------------------------------------
(* What the invariant means.                                               *)

\* The state of a request is what the middleware, the runtime and the
\* counters keep of it.
THEOREM RequestTypeCorrect == Spec => []TypeOK
  <1>1. Inv => TypeOK
    BY SoundMeans DEF Inv, TypeOK, ExplTypeOK, ExplInv, RuntimeFits, AsksFit, CountsFit
  <1> QED BY <1>1, RequestInvariance, PTL

\* The middleware keeps its promises around the explanation route: one
\* answer, 413 where it is due, and no handler on a body that is too large.
THEOREM RequestKeepsTheLimit ==
    Spec => [](OneAnswer /\ LimitIsKept)
  <1>1. Inv => OneAnswer /\ LimitIsKept
    BY SoundMeans DEF Inv, LimitIsKept
  <1> QED BY <1>1, RequestInvariance, PTL

\* A request that was answered was told that the layer is off if and only if
\* it is.
THEOREM RequestNeverFalselyOff == Spec => []NeverFalselyOff
  <1>1. ASSUME Inv
        PROVE  NeverFalselyOff
    <2>1. ASSUME NEW c \in Conns
          PROVE  /\ ask[c].step = "answered" => (ask[c].available <=> setting # "off")
                 /\ setting = "off" => ask[c].tried = <<>>
      BY <1>1, <2>1 DEF Inv, ExplInv, AsksFit, AskFits, AvailabilityFits
    <2>2. \A c \in Conns : ask[c].available \in BOOLEAN
      BY <1>1 DEF Inv, ExplInv, AsksFit, Ask
    <2> QED BY <2>1, <2>2 DEF NeverFalselyOff, At
  <1> QED BY <1>1, RequestInvariance, PTL

\* A sentence that is shown is grounded in the verdict of its own request and
\* in what the model has read of its message.
THEOREM RequestShowsGroundedText == Spec => []ShownIsGrounded
  <1>1. ASSUME Inv
        PROVE  ShownIsGrounded
    <2> SUFFICES ASSUME NEW c \in Conns, Shown(c)
                 PROVE  LET q == ask[c].question  o == ask[c].output IN
                        /\ \A x \in o.claims :
                              \/ \E line \in q.verdict.evidence : x \in line
                              \/ /\ KindOf[x] = "number"
                                 /\ \E i \in DOMAIN q.message :
                                       i <= MaxInput /\ x \in q.message[i].claims
                        /\ q.verdict.level # "low" => "reassures" \notin o.flaws
      BY DEF ShownIsGrounded
    <2>1. AskFits(ask[c], setting)
      BY <1>1 DEF Inv, ExplInv, AsksFit
    <2>2. ask[c].question \in Questions /\ ask[c].output \in Output
      BY <2>1 DEF AskFits, Ask
    <2>3. validate_explanation(ask[c].output, ask[c].question.verdict,
                               shown_message[ask[c].question]) = "ok"
      BY <2>1 DEF AskFits, TextFits, Shown
    <2> QED BY <2>2, <2>3, PassedIsGrounded
  <1> QED BY <1>1, RequestInvariance, PTL

\* Of a message that is not all instructions some of it reaches the model.
THEOREM RequestLeavesEvidence == Spec => []EvidenceIsLeft
  <1>1. ASSUME Inv
        PROVE  EvidenceIsLeft
    <2>1. \A c \in Conns : ask[c].question \in Questions
      BY <1>1 DEF Inv, ExplInv, AsksFit, Ask
    <2> QED BY <2>1, QuestionFacts DEF EvidenceIsLeft
  <1> QED BY <1>1, RequestInvariance, PTL

\* The provider is asked where there is something to explain, until a text
\* passes or the models are used up, and not again.
THEOREM RequestNeedsItsAttempts == Spec => []NoNeedlessAttempt
  <1>1. ASSUME Inv
        PROVE  NoNeedlessAttempt
    <2>1. ASSUME NEW c \in Conns
          PROVE  LET a == ask[c] IN
                 /\ a.tried # <<>> => has_grounded_evidence(a.question.verdict)
                 /\ \A i \in 1 .. (Len(a.tried) - 1) : a.tried[i] # "ok"
                 /\ Ended(c) /\ a.available /\ a.question.verdict.level # "low" =>
                       \/ a.tried # <<>> /\ a.tried[Len(a.tried)] = "ok"
                       \/ Len(a.tried) = Len(runtime)
      <3> DEFINE a == ask[c]
      <3>1. AskFits(a, setting) /\ (a.available => runtime = Contracts(setting))
        BY <1>1, <2>1 DEF Inv, ExplInv, AsksFit, RuntimeFits
      <3>2. a.question.verdict.level # "low" => has_grounded_evidence(a.question.verdict)
        BY <3>1, QuestionsAssumption DEF AskFits, Ask
      <3>3. TriesFit(a, setting)
        BY <3>1 DEF AskFits
      <3> QED BY <3>1, <3>2, <3>3 DEF TriesFit, Ended
    <2> QED BY <2>1 DEF NoNeedlessAttempt
  <1> QED BY <1>1, RequestInvariance, PTL

\* The provider is asked for a body that was read to its end and fits, and its
\* client hears the handler.
THEOREM RequestRefusedAsksNobody == Spec => []RefusedAsksNobody
  <1>1. ASSUME Inv
        PROVE  RefusedAsksNobody
    <2> SUFFICES ASSUME NEW c \in Conns, ~At(c, "none")
                 PROVE  /\ conn[c].told = "end" /\ ~TooLong(conn[c])
                        /\ \A i \in DOMAIN conn[c].wire :
                              \/ conn[c].wire[i] = End
                              \/ At(c, "answered") /\ conn[c].wire[i] = Start(200)
                              \/ At(c, "failed") /\ conn[c].wire[i] = Start(ServerError)
      BY DEF RefusedAsksNobody
    <2> DEFINE k == conn[c]
    <2>1. Sound(k) /\ Admitted(route[c], k, ask[c]) /\ ask[c].step # "none"
      BY <1>1 DEF Inv, LimitInv, AllAdmitted, At
    <2>2. k.told = "end" /\ k.phase \in {"app", "done"}
      BY <2>1 DEF Admitted
    <2>3. ~TooLong(k)
      BY <1>1, <2>2, SoundMeans DEF Inv, WholeBodiesFit
    <2>4. k.phase = "app" /\ k.said = "nothing" => DOMAIN k.wire = {}
      BY <2>1, <2>2, QuietFacts
    <2>5. CASE ask[c].step = "answered"
      BY <2>1, <2>2, <2>3, <2>5 DEF Admitted, At
    <2>6. CASE ask[c].step = "failed"
      <3>1. \A i \in DOMAIN <<Start(ServerError), End>> :
                <<Start(ServerError), End>>[i] \in {Start(ServerError), End}
        OBVIOUS
      <3> QED BY <2>1, <2>2, <2>3, <2>4, <2>6, <3>1 DEF Admitted, At
    <2>7. CASE ask[c].step \notin {"answered", "failed"}
      BY <2>1, <2>2, <2>3, <2>4, <2>7 DEF Admitted
    <2> QED BY <2>5, <2>6, <2>7
  <1> QED BY <1>1, RequestInvariance, PTL
-----------------------------------------------------------------------------
(* What is counted of the attempts and of the answers.                     *)

TallySize(a) == IF a.step = "count" THEN Len(a.tried) - 1 ELSE Len(a.tried)
Tallied(a, i, o) == i <= TallySize(a) /\ a.tried[i] = o
Ends(a, o) == /\ a.step = "answered" /\ a.available
              /\ o = IF a.tried = <<>> THEN "not_asked_no_evidence"
                     ELSE a.tried[Len(a.tried)]

AttemptsTell ==
    \A i \in DOMAIN Contracts(setting), o \in Outcome :
        attempts[<<Contracts(setting)[i], o>>] =
            Cardinality({c \in Conns : Tallied(ask[c], i, o)})

ResultsTell == \A o \in Outcome : results[o] = Cardinality({c \in Conns : Ends(ask[c], o)})

\* One more request of which P holds.
LEMMA OneMore ==
    ASSUME NEW T, NEW U, T \subseteq Conns, NEW c \in Conns, c \notin T, U = T \cup {c}
    PROVE  Cardinality(U) = Cardinality(T) + 1 /\ Cardinality(T) \in Nat
  <1>1. IsFiniteSet(T)
    BY FS_Subset, ConnsAssumption
  <1> QED BY <1>1, FS_AddElement, FS_CardinalityType

\* The requests that a tally counts, after a step of one request.
LEMMA TallyMoves ==
    ASSUME NEW c \in Conns, NEW b, ask \in [Conns -> Ask], ask' = [ask EXCEPT ![c] = b]
    PROVE  \A d \in Conns : ask'[d] = IF d = c THEN b ELSE ask[d]
  OBVIOUS

\* A step that leaves every attempt counted as it was.
LEMMA AttemptsStay ==
    ASSUME AttemptsTell, NEW c \in Conns, NEW b, ask \in [Conns -> Ask],
           ask' = [ask EXCEPT ![c] = b], UNCHANGED <<setting, attempts>>,
           \A i \in DOMAIN Contracts(setting), o \in Outcome :
               Tallied(b, i, o) <=> Tallied(ask[c], i, o)
    PROVE  AttemptsTell'
  <1> SUFFICES ASSUME NEW i \in DOMAIN Contracts(setting), NEW o \in Outcome
               PROVE  attempts[<<Contracts(setting)[i], o>>] =
                          Cardinality({d \in Conns : Tallied(ask'[d], i, o)})
    BY DEF AttemptsTell
  <1>1. ASSUME NEW d \in Conns
        PROVE  Tallied(ask'[d], i, o) <=> Tallied(ask[d], i, o)
    <2>1. CASE d = c
      <3>1. ask'[d] = b
        BY <2>1
      <3> QED BY <2>1, <3>1
    <2>2. CASE d # c
      <3>1. ask'[d] = ask[d]
        BY <2>2
      <3> QED BY <3>1
    <2> QED BY <2>1, <2>2
  <1>2. {d \in Conns : Tallied(ask'[d], i, o)} = {d \in Conns : Tallied(ask[d], i, o)}
    BY <1>1
  <1> QED BY <1>2 DEF AttemptsTell

\* A step that neither answers nor takes an answer back.
LEMMA ResultsStay ==
    ASSUME ResultsTell, NEW c \in Conns, NEW b, ask \in [Conns -> Ask],
           ask' = [ask EXCEPT ![c] = b], UNCHANGED results,
           ~(ask[c].step = "answered" /\ ask[c].available),
           ~(b.step = "answered" /\ b.available)
    PROVE  ResultsTell'
  <1> SUFFICES ASSUME NEW o \in Outcome
               PROVE  results[o] = Cardinality({d \in Conns : Ends(ask'[d], o)})
    BY DEF ResultsTell
  <1>1. ASSUME NEW d \in Conns
        PROVE  Ends(ask'[d], o) <=> Ends(ask[d], o)
    <2>1. CASE d = c
      <3>1. ask'[d] = b
        BY <2>1
      <3> QED BY <2>1, <3>1 DEF Ends
    <2>2. CASE d # c
      <3>1. ask'[d] = ask[d]
        BY <2>2
      <3> QED BY <3>1
    <2> QED BY <2>1, <2>2
  <1>2. {d \in Conns : Ends(ask'[d], o)} = {d \in Conns : Ends(ask[d], o)}
    BY <1>1
  <1> QED BY <1>2 DEF ResultsTell

\* A step to another stage, as far as it is counted.
LEMMA GotoTally ==
    ASSUME NEW a \in Ask, NEW x \in {"check", "build", "mark", "read", "try", "report",
                                     "answered", "failed"}
    PROVE  LET b == [a EXCEPT !.step = x] IN
           /\ b.step = x /\ b.tried = a.tried /\ (b.available <=> a.available)
           /\ a.step # "count" => \A i, o : Tallied(b, i, o) <=> Tallied(a, i, o)
  <1> DEFINE b == [a EXCEPT !.step = x]
  <1>1. b.step = x /\ b.tried = a.tried /\ (b.available <=> a.available)
    BY DEF Ask
  <1> HIDE DEF b
  <1>2. a.step # "count" => TallySize(b) = TallySize(a)
    BY <1>1 DEF TallySize
  <1>3. a.step # "count" => \A i, o : Tallied(b, i, o) <=> Tallied(a, i, o)
    BY <1>1, <1>2 DEF Tallied
  <1> QED BY <1>1, <1>3 DEF b

\* An attempt that was made is not counted yet.
LEMMA TriedTally ==
    ASSUME NEW a \in Ask, a.step = "try", NEW b, NEW o \in Outcome,
           b.step = "count", b.tried = Append(a.tried, o)
    PROVE  \A i \in Nat \ {0} : \A x : Tallied(b, i, x) <=> Tallied(a, i, x)
  <1>1. a.tried \in Seq(Outcome) /\ Len(a.tried) \in Nat
    BY DEF Ask
  <1>2. Len(b.tried) = Len(a.tried) + 1 /\ \A i \in 1 .. Len(a.tried) : b.tried[i] = a.tried[i]
    BY <1>1
  <1>3. TallySize(b) = Len(a.tried) /\ TallySize(a) = Len(a.tried)
    BY <1>1, <1>2 DEF TallySize
  <1> QED BY <1>1, <1>2, <1>3 DEF Tallied
\* observe_attempt(): the attempt goes to the model that made it.
LEMMA CountTells ==
    ASSUME ExplInv, AttemptsTell, NEW c \in Conns, CountAttempt(c)
    PROVE  AttemptsTell'
  <1> DEFINE a == ask[c]
             x == IF Finished(c) THEN "report" ELSE "try"
             b == [a EXCEPT !.step = x]
             n == Len(a.tried)
             C == Contracts(setting)
             k == <<C[n], a.outcome>>
  <1>1. /\ AskFits(a, setting) /\ a \in Ask /\ a.step = "count" /\ setting \in Settings
        /\ ask \in [Conns -> Ask] /\ runtime = C
    BY DEF ExplInv, AsksFit, RuntimeFits, AskFits, AvailabilityFits, CountAttempt, At
  <1>2. /\ a.tried # <<>> /\ a.outcome = a.tried[n] /\ n <= Len(C) /\ a.outcome \in Outcome
        /\ a.tried \in Seq(Outcome) /\ n \in Nat
    BY <1>1 DEF AskFits, TriesFit, Ask
  <1>3. /\ C \in Seq(Models) /\ Len(C) \in Nat
        /\ \A i, j \in DOMAIN C : C[i] = C[j] => i = j
    BY <1>1, ContractsFacts
  <1>4. n \in DOMAIN C /\ DOMAIN C = 1 .. Len(C)
    BY <1>2, <1>3
  <1>5. ask' = [ask EXCEPT ![c] = b]
    BY DEF CountAttempt, Goto
  <1>6. b.step = x /\ b.tried = a.tried /\ x # "count"
    BY <1>1, GotoTally
  <1>7. attempts' = [attempts EXCEPT ![k] = @ + 1] /\ setting' = setting
    BY <1>1 DEF CountAttempt, CountedModel, Model
  <1>8. attempts \in [Models \X Outcome -> Nat]
    BY DEF ExplInv
  <1> HIDE DEF b, x, C, n
  <1>9. TallySize(b) = n /\ TallySize(a) = n - 1
    BY <1>1, <1>6 DEF TallySize, n
  <1>10. \A i \in DOMAIN C, o \in Outcome :
            Tallied(b, i, o) <=> Tallied(a, i, o) \/ (i = n /\ o = a.outcome)
    BY <1>2, <1>3, <1>4, <1>6, <1>9 DEF Tallied
  <1>11. \A o \in Outcome : ~Tallied(a, n, o)
    BY <1>2, <1>9 DEF Tallied
  <1>12. \A d \in Conns : ask'[d] = IF d = c THEN b ELSE ask[d]
    BY <1>1, <1>5
  <1> SUFFICES ASSUME NEW i \in DOMAIN C, NEW o \in Outcome
               PROVE  attempts'[<<C[i], o>>] = Cardinality({d \in Conns : Tallied(ask'[d], i, o)})
    BY <1>7 DEF AttemptsTell, C
  <1> DEFINE T == {d \in Conns : Tallied(ask[d], i, o)}
             U == {d \in Conns : Tallied(ask'[d], i, o)}
  <1>13. attempts[<<C[i], o>>] = Cardinality(T)
    BY DEF AttemptsTell, C
  <1>14. <<C[i], o>> \in Models \X Outcome
    BY <1>3, <1>4
  <1>15. CASE i = n /\ o = a.outcome
    <2>1. c \notin T
      BY <1>11, <1>15
    <2>2. Tallied(ask'[c], i, o)
      BY <1>10, <1>12, <1>15
    <2>3. \A d \in Conns : d # c => ask'[d] = ask[d]
      BY <1>12
    <2>4. U = T \cup {c}
      BY <2>2, <2>3
    <2>5. Cardinality(U) = Cardinality(T) + 1
      <3>1. T \subseteq Conns
        OBVIOUS
      <3> HIDE DEF T, U
      <3> QED BY <2>1, <2>4, <3>1, OneMore
    <2>6. attempts'[<<C[i], o>>] = attempts[<<C[i], o>>] + 1
      BY <1>7, <1>8, <1>14, <1>15
    <2> QED BY <1>13, <2>5, <2>6
  <1>16. CASE ~(i = n /\ o = a.outcome)
    <2>1. \A d \in Conns : Tallied(ask'[d], i, o) <=> Tallied(ask[d], i, o)
      <3> SUFFICES ASSUME NEW d \in Conns
                   PROVE  Tallied(ask'[d], i, o) <=> Tallied(ask[d], i, o)
        OBVIOUS
      <3>1. CASE d = c
        <4>1. ask'[d] = b
          BY <1>12, <3>1
        <4> QED BY <1>10, <1>16, <3>1, <4>1
      <3>2. CASE d # c
        <4>1. ask'[d] = ask[d]
          BY <1>12, <3>2
        <4> QED BY <4>1
      <3> QED BY <3>1, <3>2
    <2>2. U = T
      BY <2>1
    <2>3. <<C[i], o>> # k
      BY <1>3, <1>4, <1>16
    <2>4. attempts'[<<C[i], o>>] = attempts[<<C[i], o>>]
      BY <1>7, <1>8, <1>14, <2>3
    <2> QED BY <1>13, <2>2, <2>4
  <1> QED BY <1>15, <1>16

\* observe_result(): the outcome is the one of the last attempt.
LEMMA ReportTells ==
    ASSUME ExplInv, ResultsTell, NEW c \in Conns, Report(c)
    PROVE  ResultsTell'
  <1> DEFINE a == ask[c]
             b == [a EXCEPT !.step = "answered"]
  <1>1. AskFits(a, setting) /\ a \in Ask /\ a.step = "report" /\ ask \in [Conns -> Ask]
        /\ a.available /\ a.outcome \in Outcome
    BY DEF ExplInv, AsksFit, AskFits, AvailabilityFits, Report, At, Ask
  <1>2. a.outcome = IF a.tried = <<>> THEN "not_asked_no_evidence" ELSE a.tried[Len(a.tried)]
    BY <1>1 DEF AskFits, TriesFit
  <1>3. ask' = [ask EXCEPT ![c] = b] /\ results' = [results EXCEPT ![a.outcome] = @ + 1]
    BY DEF Report, Goto
  <1>4. b.step = "answered" /\ b.tried = a.tried /\ b.available
    BY <1>1, GotoTally
  <1>5. results \in [Outcome -> Nat]
    BY DEF ExplInv
  <1> HIDE DEF b
  <1>6. \A o \in Outcome : Ends(b, o) <=> o = a.outcome
    BY <1>2, <1>4 DEF Ends
  <1>7. \A o \in Outcome : ~Ends(a, o)
    BY <1>1 DEF Ends
  <1>8. \A d \in Conns : ask'[d] = IF d = c THEN b ELSE ask[d]
    BY <1>1, <1>3
  <1> SUFFICES ASSUME NEW o \in Outcome
               PROVE  results'[o] = Cardinality({d \in Conns : Ends(ask'[d], o)})
    BY DEF ResultsTell
  <1> DEFINE T == {d \in Conns : Ends(ask[d], o)}
             U == {d \in Conns : Ends(ask'[d], o)}
  <1>9. results[o] = Cardinality(T)
    BY DEF ResultsTell
  <1>10. \A d \in Conns : d # c => ask'[d] = ask[d]
    BY <1>8
  <1>11. ask'[c] = b
    BY <1>8
  <1>12. CASE o = a.outcome
    <2>1. c \notin T
      BY <1>7
    <2>2. U = T \cup {c}
      BY <1>6, <1>10, <1>11, <1>12
    <2>3. Cardinality(U) = Cardinality(T) + 1
      <3>1. T \subseteq Conns
        OBVIOUS
      <3> HIDE DEF T, U
      <3> QED BY <2>1, <2>2, <3>1, OneMore
    <2>4. results'[o] = results[o] + 1
      BY <1>1, <1>3, <1>5, <1>12
    <2> QED BY <1>9, <2>3, <2>4
  <1>13. CASE o # a.outcome
    <2>1. U = T
      BY <1>6, <1>7, <1>10, <1>11, <1>13
    <2>2. results'[o] = results[o]
      BY <1>3, <1>5, <1>13
    <2> QED BY <1>9, <2>1, <2>2
  <1> QED BY <1>12, <1>13
Tell == AttemptsTell /\ ResultsTell

LEMMA TellInit == ExplInit => Tell
  <1> SUFFICES ASSUME ExplInit PROVE Tell
    OBVIOUS
  <1>1. setting \in Settings
    BY DEF ExplInit
  <1>2. \A c \in Conns : ask[c].step = "none" /\ Len(ask[c].tried) = 0
    BY DEF ExplInit, Unasked
  <1>3. \A i \in DOMAIN Contracts(setting) :
            i \in Nat \ {0} /\ Contracts(setting)[i] \in Models
    BY <1>1, ContractsFacts
  <1>4. \A c \in Conns, i \in Nat \ {0} : \A o : ~Tallied(ask[c], i, o)
    BY <1>2 DEF Tallied, TallySize
  <1>5. \A c \in Conns : \A o : ~Ends(ask[c], o)
    BY <1>2 DEF Ends
  <1>6. AttemptsTell
    <2> SUFFICES ASSUME NEW i \in DOMAIN Contracts(setting), NEW o \in Outcome
                 PROVE  attempts[<<Contracts(setting)[i], o>>] =
                            Cardinality({c \in Conns : Tallied(ask[c], i, o)})
      BY DEF AttemptsTell
    <2>1. {c \in Conns : Tallied(ask[c], i, o)} = {}
      BY <1>3, <1>4
    <2>2. <<Contracts(setting)[i], o>> \in Models \X Outcome
      BY <1>3
    <2>3. attempts[<<Contracts(setting)[i], o>>] = 0
      BY <2>2 DEF ExplInit
    <2> QED BY <2>1, <2>3, FS_EmptySet
  <1>7. ResultsTell
    <2> SUFFICES ASSUME NEW o \in Outcome
                 PROVE  results[o] = Cardinality({c \in Conns : Ends(ask[c], o)})
      BY DEF ResultsTell
    <2>1. {c \in Conns : Ends(ask[c], o)} = {}
      BY <1>5
    <2> QED BY <2>1, FS_EmptySet DEF ExplInit
  <1> QED BY <1>6, <1>7 DEF Tell

\* Of any other step nothing is counted.
LEMMA OthersTell ==
    ASSUME ExplInv, Tell, NEW c \in Conns,
           \/ \E q \in Questions : Begin(c, q)
           \/ CheckLoaded(c) \/ BuildRuntime(c) \/ BuildFails(c) \/ MarkLoaded(c)
           \/ ReadRuntime(c) \/ TryModel(c)
    PROVE  Tell'
  <1> DEFINE a == ask[c]
  <1>1. /\ a \in Ask /\ ask \in [Conns -> Ask] /\ AskFits(a, setting) /\ setting \in Settings
        /\ UNCHANGED <<setting, attempts, results>>
    BY DEF ExplInv, AsksFit, RuntimeFits, Begin, CheckLoaded, BuildRuntime, BuildFails,
           MarkLoaded, ReadRuntime, TryModel
  <1>2. ASSUME NEW b, ask' = [ask EXCEPT ![c] = b], a.step # "answered",
               ~(b.step = "answered" /\ b.available),
               \A i \in DOMAIN Contracts(setting), o \in Outcome :
                   Tallied(b, i, o) <=> Tallied(a, i, o)
        PROVE  Tell'
    BY <1>1, <1>2, AttemptsStay, ResultsStay DEF Tell
  <1>3. ASSUME NEW x \in {"check", "build", "mark", "read", "answered", "failed"},
               Goto(c, x), a.step \notin {"count", "answered"},
               x = "answered" => ~a.available
        PROVE  Tell'
    <2> DEFINE b == [a EXCEPT !.step = x]
    <2>1. ask' = [ask EXCEPT ![c] = b]
      BY <1>3 DEF Goto
    <2>2. b.step = x /\ b.tried = a.tried /\ (b.available <=> a.available)
      BY <1>1 DEF Ask
    <2> HIDE DEF b
    <2>3. TallySize(b) = TallySize(a)
      BY <1>3, <2>2 DEF TallySize
    <2>4. \A i, o : Tallied(b, i, o) <=> Tallied(a, i, o)
      BY <2>2, <2>3 DEF Tallied
    <2> QED BY <1>2, <1>3, <2>1, <2>2, <2>4
  <1>4. CASE \E q \in Questions : Begin(c, q)
    <2>1. PICK q \in Questions : Begin(c, q)
      BY <1>4
    <2> DEFINE b == [a EXCEPT !.step = "check", !.question = q]
    <2>2. ask' = [ask EXCEPT ![c] = b] /\ a.step = "none"
      BY <2>1 DEF Begin, At
    <2>3. b.step = "check" /\ b.tried = a.tried
      BY <1>1 DEF Ask
    <2> HIDE DEF b
    <2>4. TallySize(b) = TallySize(a)
      BY <2>2, <2>3 DEF TallySize
    <2>5. \A i, o : Tallied(b, i, o) <=> Tallied(a, i, o)
      BY <2>3, <2>4 DEF Tallied
    <2> QED BY <1>2, <2>2, <2>3, <2>5
  <1>5. CASE CheckLoaded(c)
    BY <1>3, <1>5 DEF CheckLoaded, At
  <1>6. CASE BuildRuntime(c)
    BY <1>3, <1>6 DEF BuildRuntime, At
  <1>7. CASE BuildFails(c)
    BY <1>3, <1>7 DEF BuildFails, At
  <1>8. CASE MarkLoaded(c)
    BY <1>3, <1>8 DEF MarkLoaded, At
  <1>9. CASE ReadRuntime(c)
    <2>1. a.step = "read" /\ ~a.available
      BY <1>1, <1>9 DEF ReadRuntime, At, AskFits, AvailabilityFits
    <2>2. CASE runtime = <<>>
      <3>1. Goto(c, "answered")
        BY <1>9, <2>2 DEF ReadRuntime
      <3> QED BY <1>3, <2>1, <3>1
    <2>3. CASE runtime # <<>>
      <3> DEFINE x == FirstStep(a.question)
                 b == [a EXCEPT !.available = TRUE, !.step = x,
                                !.outcome = IF x = "try" THEN @ ELSE "not_asked_no_evidence"]
      <3>1. ask' = [ask EXCEPT ![c] = b]
        BY <1>9, <2>3 DEF ReadRuntime
      <3>2. b.step \in {"try", "report"} /\ b.tried = a.tried
        BY <1>1 DEF Ask, FirstStep
      <3> HIDE DEF b
      <3>3. TallySize(b) = TallySize(a)
        BY <2>1, <3>2 DEF TallySize
      <3>4. \A i, o : Tallied(b, i, o) <=> Tallied(a, i, o)
        BY <3>2, <3>3 DEF Tallied
      <3> QED BY <1>2, <2>1, <3>1, <3>2, <3>4
    <2> QED BY <2>2, <2>3
  <1>10. CASE TryModel(c)
    <2>1. PICK r \in RepliesTo(a.question) :
            LET o == OutcomeOf[a.question][r] IN
            IF o = "raises" THEN Goto(c, "failed")
            ELSE ask' = [ask EXCEPT ![c].step = "count", ![c].outcome = o,
                                    ![c].tried = Append(@, o),
                                    ![c].output = IF o = "ok" THEN r.text ELSE NoOutput]
      BY <1>10 DEF TryModel
    <2>2. a.step = "try" /\ r \in a.question.replies \cup {StubReply}
          /\ a.question \in Questions
      BY <1>1, <1>10 DEF TryModel, At, RepliesTo, Ask
    <2> DEFINE o == OutcomeOf[a.question][r]
               b == [a EXCEPT !.step = "count", !.outcome = o, !.tried = Append(@, o),
                              !.output = IF o = "ok" THEN r.text ELSE NoOutput]
    <2>3. CASE o = "raises"
      BY <1>3, <2>1, <2>2, <2>3
    <2>4. CASE o # "raises"
      <3>1. ask' = [ask EXCEPT ![c] = b]
        BY <2>1, <2>4
      <3>2. b.step = "count" /\ b.tried = Append(a.tried, o)
        BY <1>1 DEF Ask
      <3>3. o \in Outcome
        BY <2>2, <2>4, OutcomeFacts
      <3>4. \A i \in DOMAIN Contracts(setting) : i \in Nat \ {0}
        BY <1>1, ContractsFacts
      <3> HIDE DEF b, o
      <3>5. \A i \in Nat \ {0} : \A x : Tallied(b, i, x) <=> Tallied(a, i, x)
        BY <1>1, <2>2, <3>2, <3>3, TriedTally
      <3> QED BY <1>2, <2>2, <3>1, <3>2, <3>4, <3>5
    <2> QED BY <2>3, <2>4
  <1> QED BY <1>4, <1>5, <1>6, <1>7, <1>8, <1>9, <1>10
\* What each model was asked and each request was told is counted once.
LEMMA TellMeans ==
    ASSUME ExplInv, Tell
    PROVE  MetricsTell
  <1>1. ASSUME NEW i \in DOMAIN runtime, NEW o \in Outcome
        PROVE  attempts[<<runtime[i], o>>] =
                   Cardinality({c \in Conns : i <= CountedTries(c) /\ ask[c].tried[i] = o})
    <2>1. runtime = Contracts(setting)
      <3>1. runtime = <<>> => DOMAIN runtime = {}
        OBVIOUS
      <3> QED BY <1>1, <3>1 DEF ExplInv, RuntimeFits
    <2>2. {c \in Conns : i <= CountedTries(c) /\ ask[c].tried[i] = o} =
              {c \in Conns : Tallied(ask[c], i, o)}
      BY DEF Tallied, TallySize, CountedTries, At
    <2> QED BY <2>1, <2>2 DEF Tell, AttemptsTell
  <1>2. ASSUME NEW o \in Outcome
        PROVE  results[o] =
                   Cardinality({c \in Conns : /\ At(c, "answered") /\ ask[c].available
                                              /\ o = IF ask[c].tried = <<>>
                                                     THEN "not_asked_no_evidence"
                                                     ELSE ask[c].tried[Len(ask[c].tried)]})
    BY DEF Tell, ResultsTell, Ends, At
  <1> QED BY <1>1, <1>2 DEF MetricsTell

LEMMA TellStep == Inv /\ Tell /\ [Next]_vars => Tell'
  <1> SUFFICES ASSUME Inv, Tell, [Next]_vars PROVE Tell'
    OBVIOUS
  <1>1. ASSUME UNCHANGED explVars
        PROVE  Tell'
    BY <1>1 DEF Tell, AttemptsTell, ResultsTell, explVars
  <1>2. ASSUME NEW c \in Conns, Explain(c)
        PROVE  Tell'
    <2>1. ExplInv /\ ask \in [Conns -> Ask]
      BY DEF Inv, ExplInv, AsksFit
    <2>2. CASE CountAttempt(c)
      <3> DEFINE x == IF Finished(c) THEN "report" ELSE "try"
                 b == [ask[c] EXCEPT !.step = x]
      <3>1. ask' = [ask EXCEPT ![c] = b] /\ ask[c].step = "count" /\ results' = results
        BY <2>2 DEF CountAttempt, Goto, At
      <3>2. b.step # "answered"
        BY <2>1 DEF Ask
      <3> HIDE DEF b
      <3>3. ResultsTell'
        BY <2>1, <3>1, <3>2, ResultsStay DEF Tell
      <3> QED BY <2>1, <2>2, <3>3, CountTells DEF Tell
    <2>3. CASE Report(c)
      <3> DEFINE b == [ask[c] EXCEPT !.step = "answered"]
      <3>1. /\ ask' = [ask EXCEPT ![c] = b] /\ ask[c].step = "report"
            /\ UNCHANGED <<setting, attempts>>
        BY <2>3 DEF Report, Goto, At
      <3>2. \A i, o : Tallied(b, i, o) <=> Tallied(ask[c], i, o)
        BY <2>1, <3>1, GotoTally
      <3> HIDE DEF b
      <3>3. AttemptsTell'
        BY <2>1, <3>1, <3>2, AttemptsStay DEF Tell
      <3> QED BY <2>1, <2>3, <3>3, ReportTells DEF Tell
    <2> QED BY <1>2, <2>1, <2>2, <2>3, OthersTell DEF Explain
  <1>3. ASSUME NEW c \in Conns, NEW q \in Questions, Begin(c, q)
        PROVE  Tell'
    BY <1>3, OthersTell DEF Inv
  <1>4. CASE UNCHANGED vars
    BY <1>1, <1>4 DEF vars
  <1>5. ASSUME NEW c \in Conns, Handle(c)
        PROVE  Tell'
    BY <1>3, <1>5, AsksAssumption DEF Handle
  <1>6. ASSUME NEW c \in Conns, Transport(c) \/ Observe(c) \/ Serve(c)
        PROVE  Tell'
    BY <1>1, <1>2, <1>5, <1>6 DEF Transport, Observe, Serve, Refusal, Other, Work, Route,
       OverRate, Answer, Fail
  <1> QED BY <1>4, <1>6 DEF Next

\* The metrics of the explanations are exact, for any number of requests.
THEOREM RequestMetricsTell == Spec => []MetricsTell
  <1>1. Init => Tell
    BY TellInit DEF Init
  <1>2. Inv /\ Tell => MetricsTell
    BY TellMeans DEF Inv
  <1> QED BY <1>1, <1>2, TellStep, RequestInvariance, PTL DEF Spec
-----------------------------------------------------------------------------
(* What is counted of the answers of the whole backend.                    *)

ObservedHeard == \A c \in observed : conn[c].wire # <<>>

Told(c, s) == conn[c].wire[1] = Start(s)

StatusesTell == \A s \in Statuses : requests[s] = Cardinality({c \in observed : Told(c, s)})

\* What has begun for a client begins the same way ever after.
LEMMA BeginningStays ==
    ASSUME LimitInv, NEW d \in Conns,
           \/ Client(d) \/ FinishRefusal(d) \/ Return(d) \/ Raise(d)
           \/ \E m : Say(d, m),
           NEW c \in Conns, conn[c].wire # <<>>
    PROVE  conn'[c].wire # <<>> /\ conn'[c].wire[1] = conn[c].wire[1]
  <1> DEFINE k == conn[d]
  <1>1. conn \in [Conns -> Conn] /\ Sound(k) /\ k \in Conn /\ k.wire \in Seq(Message)
    BY DEF LimitInv, Sound, Conn
  <1>2. CASE c # d
    <2>1. \A j : conn' = [conn EXCEPT ![d] = j] => conn'[c] = conn[c]
      BY <1>1, <1>2
    <2>2. conn'[c] = conn[c]
      BY <1>1, <1>2 DEF Client, Arrive, Receive, ClientGone, FinishRefusal, Return, Raise, Say
    <2> QED BY <2>2
  <1>3. CASE c = d
    <2>1. \A m : Append(k.wire, m) # <<>> /\ Append(k.wire, m)[1] = k.wire[1]
      <3> TAKE m
      <3>1. Len(k.wire) \in Nat \ {0}
        BY <1>1, <1>3, EmptySeq
      <3> QED BY <1>1, <3>1
    <2>2. ASSUME NEW j, conn' = [conn EXCEPT ![d] = j], j.wire = k.wire \/
                     \E m : j.wire = Append(k.wire, m)
          PROVE  conn'[c].wire # <<>> /\ conn'[c].wire[1] = conn[c].wire[1]
      BY <1>1, <1>3, <2>1, <2>2
    <2>3. CASE Client(d)
      <3>1. \A n : ~Arrive(d, n)
        BY <1>1, <1>3 DEF Arrive, Sound, Passing, Standing
      <3>2. ASSUME NEW n, NEW more, Receive(d, n, more)
            PROVE  conn'[c].wire = conn[c].wire
        BY <1>1, <1>3, <3>2 DEF Receive, Conn
      <3>3. ASSUME ClientGone(d)
            PROVE  conn'[c].wire = conn[c].wire
        BY <1>1, <1>3, <3>3 DEF ClientGone, Conn
      <3> QED BY <2>3, <3>1, <3>2, <3>3 DEF Client
    <2>4. CASE FinishRefusal(d)
      <3> DEFINE p == IF k.rejected THEN "app" ELSE "done"
                 w == Append(k.wire, End)
                 j == [k EXCEPT !.phase = p, !.wire = w]
      <3>1. conn' = [conn EXCEPT ![d] = j]
        BY <2>4 DEF FinishRefusal
      <3> HIDE DEF p, w
      <3>2. j.wire = w
        BY <1>1 DEF Conn
      <3> HIDE DEF j
      <3> QED BY <2>2, <3>1, <3>2 DEF w
    <2>6. CASE Return(d)
      <3>1. Refusing(k).wire = Append(k.wire, Start(TooLarge))
        BY <1>1, RefusingFields
      <3>2. Closed(k).wire = k.wire
        BY <1>1, <1>3 DEF Closed, Conn
      <3>3. conn' = [conn EXCEPT ![d] = Refusing(k)] \/ conn' = [conn EXCEPT ![d] = Closed(k)]
        BY <2>6 DEF Return
      <3> QED BY <2>2, <3>1, <3>2, <3>3
    <2>7. CASE Raise(d)
      <3>1. Closed(k).wire = k.wire
        BY <1>1, <1>3 DEF Closed, Conn
      <3>2. conn' = [conn EXCEPT ![d] = Closed(k)]
        BY <2>7 DEF Raise
      <3> QED BY <2>2, <3>1, <3>2
    <2>8. ASSUME NEW m, Say(d, m)
          PROVE  conn'[c].wire # <<>> /\ conn'[c].wire[1] = conn[c].wire[1]
      <3> DEFINE h == [k EXCEPT !.said = Says(k.said, m)]
                 w == Append(k.wire, m)
                 j1 == [h EXCEPT !.started = TRUE, !.wire = w]
                 h2 == [h EXCEPT !.rejected = TRUE]
      <3>1. h \in Conn /\ h.wire = k.wire
        BY <1>1 DEF Says, Conn
      <3>2. \/ conn' = [conn EXCEPT ![d] = j1]
            \/ conn' = [conn EXCEPT ![d] = Refusing(h2)]
            \/ conn' = [conn EXCEPT ![d] = h]
        <4>1. [h EXCEPT !.started = TRUE, !.wire = Append(@, m)] = j1
          BY <3>1
        <4> QED BY <2>8, <4>1 DEF Say
      <3> HIDE DEF h, w
      <3>3. j1.wire = w
        BY <3>1 DEF Conn
      <3>4. h2 \in Conn /\ h2.wire = k.wire
        BY <3>1 DEF Conn
      <3> HIDE DEF j1, h2
      <3>5. Refusing(h2).wire = Append(k.wire, Start(TooLarge))
        BY <3>4, RefusingFields
      <3> QED BY <2>2, <3>1, <3>2, <3>3, <3>5 DEF w
    <2> QED BY <2>3, <2>4, <2>6, <2>7, <2>8
  <1> QED BY <1>2, <1>3

LEMMA StatusesStep ==
    Inv /\ ObservedHeard /\ StatusesTell /\ [Next]_vars => (ObservedHeard /\ StatusesTell)'
  <1> SUFFICES ASSUME Inv, ObservedHeard, StatusesTell, [Next]_vars
               PROVE  (ObservedHeard /\ StatusesTell)'
    OBVIOUS
  <1>1. LimitInv /\ observed \subseteq Conns /\ requests \in [Statuses -> Nat]
    BY DEF Inv, CountsFit
  <1>2. ASSUME UNCHANGED <<observed, requests>>,
               \A c \in observed : /\ conn'[c].wire # <<>>
                                   /\ conn'[c].wire[1] = conn[c].wire[1]
        PROVE  (ObservedHeard /\ StatusesTell)'
    <2>1. ObservedHeard'
      BY <1>2 DEF ObservedHeard
    <2>2. \A s \in Statuses : {c \in observed : conn'[c].wire[1] = Start(s)} =
                                  {c \in observed : conn[c].wire[1] = Start(s)}
      BY <1>2
    <2>3. StatusesTell'
      BY <1>2, <2>2 DEF StatusesTell, Told
    <2> QED BY <2>1, <2>3
  <1>3. CASE UNCHANGED <<conn, observed, requests>>
    BY <1>2, <1>3 DEF ObservedHeard
  <1>4. ASSUME NEW d \in Conns, UNCHANGED <<observed, requests>>,
               \/ Client(d) \/ FinishRefusal(d) \/ Return(d) \/ Raise(d)
               \/ \E m : Say(d, m)
        PROVE  (ObservedHeard /\ StatusesTell)'
    <2>1. \A c \in observed : conn[c].wire # <<>> /\ c \in Conns
      BY <1>1 DEF ObservedHeard
    <2> QED BY <1>1, <1>2, <1>4, <2>1, BeginningStays
  <1>5. ASSUME NEW d \in Conns, Observe(d)
        PROVE  (ObservedHeard /\ StatusesTell)'
    <2>1. /\ d \notin observed /\ conn[d].wire # <<>> /\ observed' = observed \cup {d}
          /\ conn' = conn /\ requests' = [requests EXCEPT ![Seen(d)] = @ + 1]
      BY <1>5 DEF Observe
    <2>2. Seen(d) \in Statuses /\ conn[d].wire[1] = Start(Seen(d))
      BY <1>1, <2>1, SeenType
    <2>3. ObservedHeard'
      BY <2>1 DEF ObservedHeard
    <2>4. \A s \in Statuses : Told(d, s) <=> s = Seen(d)
      BY <2>2, MessageFacts DEF Told
    <2>5. ASSUME NEW s \in Statuses
          PROVE  requests'[s] = Cardinality({c \in observed' : conn'[c].wire[1] = Start(s)})
      <3> DEFINE T == {c \in observed : Told(c, s)}
                 U == {c \in observed' : conn'[c].wire[1] = Start(s)}
      <3>1. requests[s] = Cardinality(T)
        BY DEF StatusesTell
      <3>2. U = {c \in observed \cup {d} : Told(c, s)}
        BY <2>1 DEF Told
      <3>3. CASE s = Seen(d)
        <4>1. U = T \cup {d} /\ d \notin T
          BY <2>1, <2>4, <3>2, <3>3
        <4>2. T \subseteq Conns
          BY <1>1
        <4>3. Cardinality(U) = Cardinality(T) + 1
          <5> HIDE DEF T, U
          <5> QED BY <4>1, <4>2, OneMore
        <4>4. requests'[s] = requests[s] + 1
          BY <1>1, <2>1, <2>2, <3>3
        <4> QED BY <3>1, <4>3, <4>4
      <3>4. CASE s # Seen(d)
        <4>1. U = T
          BY <2>4, <3>2, <3>4
        <4>2. requests'[s] = requests[s]
          BY <1>1, <2>1, <3>4
        <4> QED BY <3>1, <4>1, <4>2
      <3> QED BY <3>3, <3>4
    <2>6. StatusesTell'
      BY <2>5 DEF StatusesTell, Told
    <2> QED BY <2>3, <2>6
  <1>6. CASE UNCHANGED vars
    BY <1>3, <1>6 DEF vars
  <1>7. ASSUME NEW c \in Conns, Transport(c) \/ Serve(c)
        PROVE  (ObservedHeard /\ StatusesTell)'
    BY <1>3, <1>4, <1>7 DEF Transport, Serve, Refusal, Other, Application, Work, Route,
       OverRate, Answer, Fail, Handle
  <1> QED BY <1>5, <1>6, <1>7 DEF Next

\* The metrics of the requests are exact: every answer counts once, under the
\* status that its client saw.
THEOREM RequestCountedAsSeen == Spec => []CountedAsSeen
  <1>1. Init => ObservedHeard /\ StatusesTell
    <2> SUFFICES ASSUME Init PROVE ObservedHeard /\ StatusesTell
      OBVIOUS
    <2>1. observed = {} /\ requests = [s \in Statuses |-> 0]
      BY DEF Init
    <2>2. \A s : {c \in observed : Told(c, s)} = {}
      BY <2>1
    <2> QED BY <2>1, <2>2, FS_EmptySet DEF ObservedHeard, StatusesTell
  <1>2. StatusesTell => CountedAsSeen
    BY DEF StatusesTell, CountedAsSeen, Told
  <1> QED BY <1>1, <1>2, StatusesStep, RequestInvariance, PTL DEF Spec

-----------------------------------------------------------------------------
(* Both layers together.                                                   *)

\* The provider is asked for nobody who is refused, for nothing without
\* evidence, and never again after a text.
THEOREM RequestAsksNoMore == Spec => []AsksNoMore
  BY RequestNeedsItsAttempts, RequestRefusedAsksNobody, PTL DEF AsksNoMore

\* The counters of both layers are exact.
THEOREM RequestCountsTell == Spec => []CountsTell
  BY RequestMetricsTell, RequestCountedAsSeen, PTL DEF CountsTell

-----------------------------------------------------------------------------
(* The composition implements its parts.                                    *)

\* The size limit around applications that answer with any status.
AnyAnswer == INSTANCE RequestLimit WITH Answers <- Statuses

\* Requests behind the middleware, whatever they are for, are requests of the
\* explanation layer by itself: what is shown of that layer for any threads
\* that call it holds for the threads that FastAPI starts.
THEOREM RequestImplementsExplanation == Spec => ExplSpec
  <1>1. Init => ExplInit
    BY DEF Init
  <1>2. ASSUME [Next]_vars
        PROVE  [ExplNext]_explVars
    <2>1. CASE \E c \in Conns : Handle(c)
      <3>1. PICK c \in Conns : Handle(c)
        BY <2>1
      <3>2. PICK q \in Asks[c] : Begin(c, q)
        BY <3>1 DEF Handle
      <3>3. q \in Questions
        BY AsksAssumption
      <3> QED BY <3>2, <3>3 DEF ExplNext
    <2>2. CASE \E c \in Conns : Work(c)
      BY <2>2 DEF Work, ExplNext
    <2>3. CASE \E c \in Conns : \/ Transport(c) \/ Refusal(c) \/ Observe(c) \/ Other(c)
                                \/ OverRate(c) \/ Answer(c) \/ Fail(c)
      <3>1. UNCHANGED explVars
        BY <2>3 DEF Transport, Refusal, Observe, Other, OverRate, Answer, Fail
      <3> QED BY <3>1
    <2>4. CASE UNCHANGED vars
      BY <2>4 DEF vars
    <2> QED BY <1>2, <2>1, <2>2, <2>3, <2>4 DEF Next, Serve, Route
  <1> QED BY <1>1, <1>2, PTL DEF Spec, ExplSpec

\* FastAPI with the explanation route is one of the applications that the size
\* limit was written for: each step of a request is one that the middleware
\* allows of any application, or nothing that it sees.
THEOREM RequestImplementsLimit == Spec => AnyAnswer!LimitSpec
  <1>1. Init => AnyAnswer!LimitInit
    BY DEF Init, LimitInit, AnyAnswer!LimitInit, Idle, AnyAnswer!Idle
  <1>2. ASSUME [Next]_vars
        PROVE  [AnyAnswer!LimitNext]_conn
    <2>1. ASSUME NEW c \in Conns, Client(c) \/ FinishRefusal(c)
          PROVE  AnyAnswer!LimitNext
      BY <2>1 DEF Client, FinishRefusal, Arrive, Receive, ClientGone, Refusing, Exceeds, Counted,
            Idle, Start, End, TooLarge,
            AnyAnswer!LimitNext, AnyAnswer!Client, AnyAnswer!FinishRefusal,
            AnyAnswer!Arrive, AnyAnswer!Receive, AnyAnswer!ClientGone, AnyAnswer!Refusing,
            AnyAnswer!Exceeds, AnyAnswer!Counted, AnyAnswer!Idle, AnyAnswer!Start,
            AnyAnswer!End, AnyAnswer!TooLarge
    <2>2. ASSUME NEW c \in Conns, NEW m \in {Start(s) : s \in Statuses} \cup {Part, End}, Say(c, m)
          PROVE  AnyAnswer!LimitNext
      <3>1. AnyAnswer!Say(c, m)
        BY <2>2 DEF Say, Protocol, Says, Passes, Refusing, Part, End, Start, TooLarge,
              AnyAnswer!Say, AnyAnswer!Protocol, AnyAnswer!Says, AnyAnswer!Passes,
              AnyAnswer!Refusing, AnyAnswer!Part, AnyAnswer!End, AnyAnswer!Start, AnyAnswer!TooLarge
      <3>2. m \in {AnyAnswer!Start(s) : s \in Statuses} \cup {AnyAnswer!Part, AnyAnswer!End}
        BY <2>2 DEF Start, Part, End, AnyAnswer!Start, AnyAnswer!Part, AnyAnswer!End
      <3> QED BY <3>1, <3>2 DEF AnyAnswer!LimitNext, AnyAnswer!Application
    <2>3. ASSUME NEW c \in Conns, Return(c) \/ Raise(c)
          PROVE  AnyAnswer!LimitNext
      BY <2>3 DEF Return, Raise, Unanswered, Refusing, Closed, Start, End, TooLarge, ServerError,
            AnyAnswer!LimitNext, AnyAnswer!Application, AnyAnswer!Return, AnyAnswer!Raise,
            AnyAnswer!Unanswered, AnyAnswer!Refusing, AnyAnswer!Closed, AnyAnswer!Start,
            AnyAnswer!End, AnyAnswer!TooLarge, AnyAnswer!ServerError
    <2>4. \A s \in Answers \cup {200, 400, 422, 429} : s \in Statuses
      BY LimitAssumption DEF Statuses, TooLarge, ServerError
    <2>5. CASE \E c \in Conns : Transport(c) \/ Refusal(c)
      BY <2>1, <2>5 DEF Transport, Refusal
    <2>6. CASE \E c \in Conns : Other(c) \/ Fail(c)
      BY <2>2, <2>3, <2>4, <2>6 DEF Other, Fail, Application
    <2>7. CASE \E c \in Conns : OverRate(c) \/ Answer(c)
      BY <2>2, <2>3, <2>4, <2>7 DEF OverRate, Answer, Status
    <2>8. CASE (\E c \in Conns : Observe(c) \/ Handle(c) \/ Work(c)) \/ UNCHANGED vars
      BY <2>8 DEF Observe, Handle, Work, vars
    <2> QED BY <1>2, <2>5, <2>6, <2>7, <2>8 DEF Next, Serve, Route
  <1> QED BY <1>1, <1>2, PTL DEF Spec, AnyAnswer!LimitSpec

-----------------------------------------------------------------------------
(* An explanation ends.  That a thread goes on is fairness; that it has an  *)
(* end to come to is a number that each of its steps lowers.                *)

StepsLeft == [none |-> 7, check |-> 6, build |-> 5, mark |-> 4, read |-> 3, count |-> 3,
              try |-> 2, report |-> 1, answered |-> 0, failed |-> 0]

\* What a request may still do: its way through the steps, and two steps for
\* each model that was not asked yet.
EffortOf(a, s) == StepsLeft[a.step] + 2 * (Len(Contracts(s)) - Len(a.tried))
Effort(c) == EffortOf(ask[c], setting)

LEMMA EffortIsANumber ==
    ASSUME NEW s \in Settings, NEW a, AskFits(a, s)
    PROVE  /\ EffortOf(a, s) \in Nat
           /\ EffortOf(a, s) <= 7 + 2 * Len(Contracts(s))
  <1>1. a \in Ask /\ Len(a.tried) \in Nat /\ Len(a.tried) <= Len(Contracts(s))
    BY DEF AskFits, TriesFit, Ask
  <1>2. StepsLeft[a.step] \in 0 .. 7
    BY <1>1 DEF StepsLeft, Ask
  <1>3. Len(Contracts(s)) \in Nat
    BY ContractsFacts
  <1> DEFINE w == StepsLeft[a.step]
             k == Len(a.tried)
             n == Len(Contracts(s))
  <1>4. EffortOf(a, s) = w + 2 * (n - k)
    BY DEF EffortOf
  <1> HIDE DEF w, k, n
  <1>5. w \in 0 .. 7 /\ k \in Nat /\ n \in Nat /\ k <= n
    BY <1>1, <1>2, <1>3 DEF w, k, n
  <1>6. EffortOf(a, s) \in Nat /\ EffortOf(a, s) <= 7 + 2 * n
    BY <1>4, <1>5
  <1> QED BY <1>6 DEF n

LEMMA EffortFalls ==
    ASSUME ExplInv, NEW c \in Conns,
           Explain(c) \/ \E q \in Questions : Begin(c, q)
    PROVE  \E a : /\ ask' = [ask EXCEPT ![c] = a] /\ EffortOf(a, setting) \in Int
                 /\ EffortOf(a, setting) < EffortOf(ask[c], setting)
  <1> DEFINE a0 == ask[c]
             n == Len(Contracts(setting))
  <1>1. a0 \in Ask /\ setting \in Settings /\ ask \in [Conns -> Ask]
    BY DEF ExplInv, AsksFit, RuntimeFits
  <1>2. n \in Nat /\ Len(a0.tried) \in Nat /\ a0.tried \in Seq(Outcome)
    BY <1>1, ContractsFacts DEF Ask
  <1> HIDE DEF n
  <1>3. ASSUME NEW x \in {"check", "build", "mark", "read", "try", "report", "answered", "failed"},
               Goto(c, x), StepsLeft[x] < StepsLeft[a0.step]
        PROVE  \E a : /\ ask' = [ask EXCEPT ![c] = a] /\ EffortOf(a, setting) \in Int
                     /\ EffortOf(a, setting) < EffortOf(a0, setting)
    <2> DEFINE b == [a0 EXCEPT !.step = x]
    <2>1. ask' = [ask EXCEPT ![c] = b] /\ b.step = x /\ b.tried = a0.tried
      BY <1>1, <1>3 DEF Goto, Ask
    <2>2. StepsLeft[x] \in Nat /\ StepsLeft[a0.step] \in Nat
      BY <1>1 DEF StepsLeft, Ask
    <2> HIDE DEF b, StepsLeft
    <2>3. EffortOf(b, setting) \in Int /\ EffortOf(b, setting) < EffortOf(a0, setting)
      BY <1>2, <1>3, <2>1, <2>2 DEF EffortOf, n
    <2> QED BY <2>1, <2>3
  <1>4. CASE CheckLoaded(c) \/ BuildRuntime(c) \/ BuildFails(c) \/ MarkLoaded(c) \/ Report(c)
    BY <1>3, <1>4 DEF CheckLoaded, BuildRuntime, BuildFails, MarkLoaded, Report, At, StepsLeft
  <1>5. CASE CountAttempt(c)
    BY <1>3, <1>5 DEF CountAttempt, At, StepsLeft
  <1>6. CASE \E q \in Questions : Begin(c, q)
    <2>1. PICK q \in Questions : Begin(c, q)
      BY <1>6
    <2> DEFINE b == [a0 EXCEPT !.step = "check", !.question = q]
    <2>2. ask' = [ask EXCEPT ![c] = b] /\ b.step = "check" /\ b.tried = a0.tried /\ a0.step = "none"
      BY <1>1, <2>1 DEF Begin, At, Ask
    <2> HIDE DEF b
    <2>3. EffortOf(b, setting) \in Int /\ EffortOf(b, setting) < EffortOf(a0, setting)
      BY <1>2, <2>2 DEF EffortOf, StepsLeft, n
    <2> QED BY <2>2, <2>3
  <1>7. CASE ReadRuntime(c)
    <2> DEFINE x == FirstStep(a0.question)
               b == [a0 EXCEPT !.available = TRUE, !.step = x,
                               !.outcome = IF x = "try" THEN @ ELSE "not_asked_no_evidence"]
    <2>1. a0.step = "read" /\ x \in {"try", "report"}
      BY <1>7 DEF ReadRuntime, At, FirstStep
    <2>2. CASE runtime = <<>>
      BY <1>3, <1>7, <2>1, <2>2 DEF ReadRuntime, StepsLeft
    <2>3. CASE runtime # <<>>
      <3>1. ask' = [ask EXCEPT ![c] = b]
        BY <1>7, <2>3 DEF ReadRuntime
      <3> HIDE DEF x
      <3>2. b.step = x /\ b.tried = a0.tried
        BY <1>1 DEF Ask
      <3> HIDE DEF b
      <3>3. EffortOf(b, setting) \in Int /\ EffortOf(b, setting) < EffortOf(a0, setting)
        BY <1>2, <2>1, <3>2 DEF EffortOf, StepsLeft, n
      <3> QED BY <3>1, <3>3
    <2> QED BY <2>2, <2>3
  <1>8. CASE TryModel(c)
    <2>1. PICK r \in RepliesTo(a0.question) :
            LET o == OutcomeOf[a0.question][r] IN
            IF o = "raises" THEN Goto(c, "failed")
            ELSE ask' = [ask EXCEPT ![c].step = "count", ![c].outcome = o,
                                    ![c].tried = Append(@, o),
                                    ![c].output = IF o = "ok" THEN r.text ELSE NoOutput]
      BY <1>8 DEF TryModel
    <2> DEFINE o == OutcomeOf[a0.question][r]
               b == [a0 EXCEPT !.step = "count", !.outcome = o, !.tried = Append(@, o),
                               !.output = IF o = "ok" THEN r.text ELSE NoOutput]
    <2>2. a0.step = "try"
      BY <1>8 DEF TryModel, At
    <2>3. CASE o = "raises"
      BY <1>3, <2>1, <2>2, <2>3 DEF StepsLeft
    <2>4. CASE o # "raises"
      <3>1. ask' = [ask EXCEPT ![c] = b]
        BY <2>1, <2>4
      <3> HIDE DEF o
      <3>2. b.step = "count" /\ b.tried = Append(a0.tried, o)
        BY <1>1 DEF Ask
      <3> HIDE DEF b
      <3>3. Len(b.tried) = Len(a0.tried) + 1
        BY <1>2, <3>2
      <3>4. EffortOf(b, setting) \in Int /\ EffortOf(b, setting) < EffortOf(a0, setting)
        BY <1>2, <2>2, <3>2, <3>3 DEF EffortOf, StepsLeft, n
      <3> QED BY <3>1, <3>4
    <2> QED BY <2>3, <2>4
  <1> QED BY <1>4, <1>5, <1>6, <1>7, <1>8 DEF Explain

\* Each step of a thread brings its request nearer to its answer, and no step
\* of another takes it back: a request is done after seven steps and two for
\* each model, however the threads interleave and whatever the provider sends.
THEOREM ExplanationsEnd ==
    Spec => /\ [](\A c \in Conns : Effort(c) \in 0 .. (7 + 2 * Len(Contracts(setting))))
            /\ [][\A c \in Conns : /\ Effort(c)' <= Effort(c)
                                   /\ Explain(c) => Effort(c)' < Effort(c)]_vars
  <1>1. ASSUME Inv
        PROVE  \A c \in Conns : Effort(c) \in 0 .. (7 + 2 * Len(Contracts(setting)))
    <2> SUFFICES ASSUME NEW c \in Conns
                 PROVE  Effort(c) \in 0 .. (7 + 2 * Len(Contracts(setting)))
      OBVIOUS
    <2>1. setting \in Settings /\ AskFits(ask[c], setting)
      BY <1>1 DEF Inv, ExplInv, RuntimeFits, AsksFit
    <2>2. Len(Contracts(setting)) \in Nat
      BY <2>1, ContractsFacts
    <2> QED BY <2>1, <2>2, EffortIsANumber DEF Effort
  <1>2. ASSUME Inv, [Next]_vars
        PROVE  \A c \in Conns : /\ Effort(c)' <= Effort(c)
                                /\ Explain(c) => Effort(c)' < Effort(c)
    <2>1. ExplInv /\ setting \in Settings /\ ask \in [Conns -> Ask]
      BY <1>2 DEF Inv, ExplInv, RuntimeFits, AsksFit
    <2>2. \A c \in Conns : EffortOf(ask[c], setting) \in Nat
      BY <2>1, EffortIsANumber DEF ExplInv, AsksFit
    <2>3. setting' = setting
      BY <1>2 DEF Next, Transport, Refusal, Observe, Other, OverRate, Handle, Work, Answer, Fail,
           Serve, Route, vars, explVars, Begin, Explain, CheckLoaded, BuildRuntime, BuildFails,
           MarkLoaded, ReadRuntime, TryModel, CountAttempt, Report
    <2>4. ASSUME NEW d \in Conns, Explain(d) \/ \E q \in Questions : Begin(d, q),
                 NEW c \in Conns
          PROVE  /\ Effort(c)' <= Effort(c)
                 /\ c = d => Effort(c)' < Effort(c)
      <3>1. PICK a : /\ ask' = [ask EXCEPT ![d] = a] /\ EffortOf(a, setting) \in Int
                     /\ EffortOf(a, setting) < EffortOf(ask[d], setting)
        BY <2>1, <2>4, EffortFalls
      <3>2. CASE c = d
        <4>1. ask'[c] = a
          BY <2>1, <3>1, <3>2
        <4>2. EffortOf(a, setting) < EffortOf(ask[c], setting)
          BY <3>1, <3>2
        <4>3. EffortOf(a, setting) <= EffortOf(ask[c], setting)
          BY <2>2, <3>1, <4>2
        <4> QED BY <2>3, <4>1, <4>2, <4>3 DEF Effort
      <3>3. CASE c # d
        <4>1. ask'[c] = ask[c]
          BY <3>1, <3>3
        <4> QED BY <2>2, <2>3, <3>3, <4>1 DEF Effort
      <3> QED BY <3>2, <3>3
    <2>5. ASSUME UNCHANGED ask, NEW c \in Conns
          PROVE  Effort(c)' <= Effort(c)
      BY <2>2, <2>3, <2>5 DEF Effort
    <2>6. CASE \E d \in Conns : Work(d) \/ Handle(d)
      <3>1. PICK d \in Conns : Explain(d) \/ \E q \in Questions : Begin(d, q)
        BY <2>6, AsksAssumption DEF Work, Handle
      <3> QED BY <2>4, <3>1
    <2>7. CASE (\E d \in Conns : \/ Transport(d) \/ Refusal(d) \/ Observe(d) \/ Other(d)
                                 \/ OverRate(d) \/ Answer(d) \/ Fail(d))
               \/ UNCHANGED vars
      <3>1. UNCHANGED ask
        BY <2>7 DEF Transport, Refusal, Observe, Other, OverRate, Answer, Fail, vars, explVars
      <3>2. ASSUME NEW c \in Conns, Explain(c) PROVE FALSE
        <4>1. PICK a : ask' = [ask EXCEPT ![c] = a]
                       /\ EffortOf(a, setting) < EffortOf(ask[c], setting)
          BY <2>1, <3>2, EffortFalls
        <4>2. a = ask[c]
          BY <2>1, <3>1, <4>1
        <4> QED BY <2>2, <4>1, <4>2
      <3> QED BY <2>5, <3>1, <3>2
    <2> QED BY <1>2, <2>6, <2>7 DEF Next, Serve, Route
  <1> QED BY <1>1, <1>2, RequestInvariance, PTL DEF Spec
=============================================================================
