-------------------------- MODULE ExplanationRequest --------------------------
(***************************************************************************)
(* Requests on their way through the backend (app/main.py): observability,  *)
(* the size limit, and inside of it the route POST /analyze/explanation or  *)
(* any other application.                                                  *)
(*                                                                         *)
(* FastAPI reads the body of the explanation route to its end, answers 400  *)
(* if it is cut off and 422 if it does not fit the schema, and runs the     *)
(* handler in a thread.  The rate limit (RateLimit.tla) stands in front of  *)
(* the route and may answer 429 in its place.                              *)
(***************************************************************************)
EXTENDS RequestLimit, Explanation

Routes == {"explanation", "other"}

CONSTANTS
    Mixes,   \* the routes that the requests are for
    Asks     \* the questions that each request may ask

ASSUME MixesAssumption == Mixes \subseteq [Conns -> Routes]
ASSUME AsksAssumption == Asks \in [Conns -> SUBSET Questions]

VARIABLES
    route,      \* what each request is for
    observed,   \* the requests that the observability middleware has counted
    requests    \* RequestMetrics._requests, by status

vars == <<conn, explVars, route, observed, requests>>

Init ==
    /\ LimitInit /\ ExplInit
    /\ route \in Mixes
    /\ observed = {}
    /\ requests = [s \in Statuses |-> 0]

-----------------------------------------------------------------------------
(* What the client and the middleware do.                                  *)

Transport(c) ==
    /\ Client(c)
    /\ UNCHANGED <<explVars, route, observed, requests>>

Refusal(c) ==
    /\ FinishRefusal(c)
    /\ UNCHANGED <<explVars, route, observed, requests>>

\* The answer of the route; a body that is cut off or does not fit the schema
\* never reaches the handler.
Status(c) == IF conn[c].told = "disconnect" THEN 400
             ELSE IF At(c, "answered") THEN 200 ELSE 422

Seen(c) == conn[c].wire[1].status

\* ObservabilityMiddleware.dispatch(): call_next() has the answer as soon as
\* it begins, or raises and leaves 500 to what is outside.
Observe(c) ==
    /\ c \notin observed /\ conn[c].wire # <<>>
    /\ observed' = observed \cup {c}
    /\ requests' = [requests EXCEPT ![Seen(c)] = @ + 1]
    /\ UNCHANGED <<conn, explVars, route>>

-----------------------------------------------------------------------------
(* The applications.                                                       *)

Other(c) ==
    /\ route[c] = "other"
    /\ Application(c)
    /\ UNCHANGED <<explVars, route, observed, requests>>

\* Mutant: the handler starts with the first part of the body.
BodyRead_Early(c) == conn[c].told \in {"more", "end"}

BodyRead(c) == conn[c].told = "end"

Running(c) == route[c] = "explanation" /\ conn[c].phase = "app"

\* RateLimitMiddleware.dispatch(): the request is over the limit.
OverRate(c) ==
    /\ Running(c) /\ conn[c].told = "nothing"
    /\ Say(c, Start(429))
    /\ UNCHANGED <<explVars, route, observed, requests>>

Handle(c) ==
    /\ Running(c) /\ BodyRead(c) /\ conn[c].said = "nothing"
    /\ \E q \in Asks[c] : Begin(c, q)
    /\ UNCHANGED <<conn, route, observed, requests>>

Work(c) ==
    /\ Explain(c)
    /\ UNCHANGED <<conn, route, observed, requests>>

\* Mutant: a body that is cut off is waited for.
HasAnswer_Waits(c) == \/ conn[c].said # "nothing"
                      \/ BodyRead(c) /\ ask[c].step \in {"none", "answered"}

HasAnswer(c) == \/ conn[c].told = "disconnect" \/ conn[c].said # "nothing"
                \/ BodyRead(c) /\ ask[c].step \in {"none", "answered"}

Answer(c) ==
    /\ Running(c) /\ HasAnswer(c)
    /\ Say(c, Start(Status(c))) \/ Say(c, End) \/ Return(c)
    /\ UNCHANGED <<explVars, route, observed, requests>>

\* The handler raises.
Fail(c) ==
    /\ Running(c) /\ At(c, "failed")
    /\ Raise(c)
    /\ UNCHANGED <<explVars, route, observed, requests>>

Route(c) == OverRate(c) \/ Handle(c) \/ Answer(c) \/ Fail(c)

\* The coroutine, or the thread, that serves request c.
Serve(c) == Refusal(c) \/ Other(c) \/ Work(c) \/ Route(c)

Next == \E c \in Conns : Transport(c) \/ Observe(c) \/ Serve(c)

Spec == Init /\ [][Next]_vars

\* Threads run and applications come to an end; a call of the provider ends
\* because each of its phases has a timeout.  Nothing of clients.
FairSpec ==
    /\ Spec
    /\ \A c \in Conns : WF_vars(Serve(c)) /\ WF_vars(Observe(c))

-----------------------------------------------------------------------------
TypeOK ==
    /\ LimitTypeOK
    /\ ExplTypeOK
    /\ route \in [Conns -> Routes]
    /\ observed \subseteq Conns
    /\ requests \in [Statuses -> Nat]

\* Nothing is paid for a request that is refused: the provider is asked only
\* for a body that was read to its end and fits the limit, and the client of
\* such a request hears the handler's answer or its failure, and no other.
RefusedAsksNobody ==
    \A c \in Conns : ~At(c, "none") =>
        /\ conn[c].told = "end" /\ ~TooLong(conn[c])
        /\ \A i \in DOMAIN conn[c].wire :
              \/ conn[c].wire[i] = End
              \/ At(c, "answered") /\ conn[c].wire[i] = Start(200)
              \/ At(c, "failed") /\ conn[c].wire[i] = Start(ServerError)

\* The provider is asked no more than it has to be: for nobody who is
\* refused, nothing without evidence, and never again after a text.
AsksNoMore == RefusedAsksNobody /\ NoNeedlessAttempt

\* Each request counts once, under the status its client saw, whichever part
\* of the backend answered it.
CountedAsSeen ==
    \A s \in Statuses :
        requests[s] = Cardinality({c \in observed : conn[c].wire[1] = Start(s)})

\* What an operator reads off the counters is what happened, in the
\* explanation layer and in the whole backend.
CountsTell == MetricsTell /\ CountedAsSeen

\* A request whose body was read, or cut off, is answered and counted in the
\* end, whatever the provider sends back.
HeardIsAnswered ==
    \A c \in Conns :
        conn[c].told \in {"end", "disconnect"}
            ~> conn[c].phase = "done" /\ conn[c].wire # <<>> /\ c \in observed
=============================================================================
