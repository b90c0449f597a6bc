----------------------------- MODULE RequestLimit -----------------------------
(***************************************************************************)
(* RequestSizeLimitMiddleware (app/core/request_limits.py): it stands       *)
(* between the server and the application, counts the bytes of the body as  *)
(* the application reads them, and puts one 413 in the place of whatever    *)
(* the application says of a body that is too large.                        *)
(*                                                                         *)
(* The application is any ASGI application: it reads and answers in an      *)
(* order of its own.  `conn[c].wire` is what left for the client.           *)
(***************************************************************************)
EXTENDS Connections, Naturals, Sequences

CONSTANTS
    MaxBytes,   \* FINSHIELD_MAX_REQUEST_BYTES
    Sizes,      \* lengths of the chunks of a body
    Lengths,    \* declared lengths; 0 also where there is none, or no number
    Answers,    \* the statuses that applications answer with
    MaxParts    \* bound: parts of the body of an answer

ASSUME LimitAssumption ==
    /\ MaxBytes \in Nat /\ Sizes \subseteq Nat /\ Lengths \subseteq Nat
    /\ Answers \subseteq {200, 400, 413, 422, 429, 500}

VARIABLE conn

TooLarge == 413
ServerError == 500
Statuses == {200, 400, TooLarge, 422, 429, ServerError}

\* ASGI messages to the client.
Start(s) == [type |-> "start", status |-> s]
Part == [type |-> "body", more |-> TRUE]
End == [type |-> "body", more |-> FALSE]
Message == {Start(s) : s \in Statuses} \cup {Part, End}

Conn == [phase    : {"idle", "app", "refusing", "done"},
         declared : Nat,
         sent     : Nat,      \* history: bytes of the body that were read
         received : Nat,
         told     : {"nothing", "more", "end", "disconnect"},  \* to the application
         said     : {"nothing", "started", "ended"},           \* by the application
         exceeded : BOOLEAN,
         started  : BOOLEAN,
         rejected : BOOLEAN,
         wire     : Seq(Message)]

Idle == [phase |-> "idle", declared |-> 0, sent |-> 0, received |-> 0,
         told |-> "nothing", said |-> "nothing", exceeded |-> FALSE, started |-> FALSE,
         rejected |-> FALSE, wire |-> <<>>]

LimitInit == conn = [c \in Conns |-> Idle]

-----------------------------------------------------------------------------
(* The middleware.                                                         *)

\* _too_large(): the answer begins; FinishRefusal ends it.
Refusing(k) == [k EXCEPT !.phase = "refusing", !.wire = Append(@, Start(TooLarge))]

\* __call__(): a declared length beyond the limit is refused unread.
Arrive(c, declared) ==
    /\ conn[c].phase = "idle"
    /\ conn' = [conn EXCEPT ![c] =
            IF declared > MaxBytes
            THEN Refusing([Idle EXCEPT !.declared = declared])
            ELSE [Idle EXCEPT !.phase = "app", !.declared = declared]]

\* Mutant: each chunk is measured by itself.
Counted_Alone(k, n) == n

Counted(k, n) == k.received + n
Exceeds(total) == total > MaxBytes

\* counting_receive(): past the limit the application hears of a disconnect.
Receive(c, n, more) ==
    LET k == conn[c]  total == Counted(k, n) IN
    /\ k.phase = "app" /\ k.told \in {"nothing", "more"}
    /\ conn' = [conn EXCEPT ![c].sent = @ + n,
                            ![c].received = total,
                            ![c].exceeded = Exceeds(total),
                            ![c].told = IF Exceeds(total) THEN "disconnect"
                                        ELSE IF more THEN "more" ELSE "end"]

\* The client is gone: that message is no part of the body and passes.
ClientGone(c) ==
    /\ conn[c].phase = "app" /\ conn[c].told \in {"nothing", "more"}
    /\ conn' = [conn EXCEPT ![c].told = "disconnect"]

Passes(k) == ~k.exceeded \/ k.started

Protocol(said, m) == \/ m.type = "start" /\ said = "nothing"
                     \/ m.type = "body" /\ said = "started"
Says(said, m) == IF m = End THEN "ended" ELSE "started"

\* limiting_send(): a message of the application passes, is replaced by the
\* 413, or is dropped because the 413 has been sent.
Say(c, m) ==
    LET k == conn[c]  heard == [k EXCEPT !.said = Says(k.said, m)] IN
    /\ k.phase = "app" /\ Protocol(k.said, m)
    /\ m = Part => Len(k.wire) <= MaxParts
    /\ \/ /\ Passes(k)
          /\ conn' = [conn EXCEPT ![c] = [heard EXCEPT !.started = TRUE,
                                                       !.wire = Append(@, m)]]
       \/ /\ ~Passes(k) /\ ~k.rejected
          /\ conn' = [conn EXCEPT ![c] = Refusing([heard EXCEPT !.rejected = TRUE])]
       \/ /\ ~Passes(k) /\ k.rejected
          /\ conn' = [conn EXCEPT ![c] = heard]

\* The end of the 413: the call of send returns, or the middleware does.
FinishRefusal(c) ==
    /\ conn[c].phase = "refusing"
    /\ conn' = [conn EXCEPT ![c].phase = IF conn[c].rejected THEN "app" ELSE "done",
                            ![c].wire = Append(@, End)]

\* What is outside answers for an application that left no answer.
Closed(k) == [k EXCEPT !.phase = "done",
                       !.wire = IF @ = <<>> THEN <<Start(ServerError), End>> ELSE @]

\* Mutant: the 413 follows an answer that was already replaced.
Unanswered_Rejected(k) == k.exceeded /\ ~k.started

Unanswered(k) == k.exceeded /\ ~k.started /\ ~k.rejected

\* The application returns: it has answered, or was told of a disconnect.
Return(c) ==
    LET k == conn[c] IN
    /\ k.phase = "app" /\ (k.said = "ended" \/ k.told = "disconnect")
    /\ conn' = [conn EXCEPT ![c] = IF Unanswered(k) THEN Refusing(k) ELSE Closed(k)]

\* The application raises.  Not after the disconnect it was told of: FastAPI
\* makes an answer of whatever reading the body raises.
Raise(c) ==
    /\ conn[c].phase = "app" /\ conn[c].told # "disconnect" /\ conn[c].said # "ended"
    /\ conn' = [conn EXCEPT ![c] = Closed(conn[c])]

-----------------------------------------------------------------------------
Client(c) == \/ \E n \in Lengths : Arrive(c, n)
             \/ \E n \in Sizes, more \in BOOLEAN : Receive(c, n, more)
             \/ ClientGone(c)
Application(c) == (\E m \in {Start(s) : s \in Answers} \cup {Part, End} : Say(c, m)) \/ Return(c) \/ Raise(c)

LimitNext == \E c \in Conns : Client(c) \/ FinishRefusal(c) \/ Application(c)

LimitSpec == LimitInit /\ [][LimitNext]_conn

-----------------------------------------------------------------------------
LimitTypeOK == conn \in [Conns -> Conn]

Begins(wire) == wire # <<>> /\ wire[1].type = "start"

\* A client gets one answer: one beginning, and nothing after the end,
\* whichever of middleware and application answers first.
OneAnswer ==
    \A c \in Conns : LET w == conn[c].wire IN
        /\ w # <<>> => Begins(w)
        /\ \A i \in 2 .. Len(w) : w[i].type = "body"
        /\ \A i \in 1 .. (Len(w) - 1) : w[i] # End

TooLong(k) == k.declared > MaxBytes \/ k.sent > MaxBytes

\* A request with a body beyond the limit ends with the 413, whatever the
\* application makes of the disconnect, unless its answer had begun before;
\* and the middleware refuses no other request.
RefusedForLength ==
    \A c \in Conns : LET k == conn[c] IN
        /\ k.phase = "done" /\ TooLong(k) /\ ~k.started
               => k.wire = <<Start(TooLarge), End>>
        /\ (\E i \in DOMAIN k.wire : k.wire[i] = Start(TooLarge)) /\ ~k.started
               => TooLong(k)

\* An application that has read a body to its end has not read more than the
\* limit: a handler never runs on a body that is too large.
WholeBodiesFit ==
    \A c \in Conns : conn[c].told = "end" => ~TooLong(conn[c])

\* The limit is kept on both sides of the middleware: towards the client and
\* towards the application.
LimitIsKept == RefusedForLength /\ WholeBodiesFit
=============================================================================
