----------------------------- MODULE AccountPromise -----------------------------
(***************************************************************************)
(* What the service promises the holder of an anonymous account, with no    *)
(* tables, requests or retention process: an account is opened once, closes *)
(* for good when its session ends, and is erased, once and with everything  *)
(* it holds, either because its holder asked while it was open or because   *)
(* it is closed (docs/24-anonymous-data-lifecycle.md).                      *)
(***************************************************************************)
CONSTANTS Users, Profiles

VARIABLES
    account,    \* "unused", "open", "closed" or "erased", for each user
    holds,      \* the profiles stored for each user
    asked,      \* users whose request for erasure is being carried out
    spent       \* profile identifiers that were ever given out

vars == <<account, holds, asked, spent>>

Init ==
    /\ account = [u \in Users |-> "unused"]
    /\ holds = [u \in Users |-> {}]
    /\ asked = {}
    /\ spent \in SUBSET Profiles

\* Every step may end requests for erasure, answered or not.
EndRequests == asked' \in SUBSET asked

Open(u) ==
    /\ account[u] = "unused"
    /\ account' = [account EXCEPT ![u] = "open"]
    /\ EndRequests
    /\ UNCHANGED <<holds, spent>>

\* A logout closes one account, the clock may close several.
Close(S) ==
    /\ \A u \in S : account[u] = "open"
    /\ account' = [u \in Users |-> IF u \in S THEN "closed" ELSE account[u]]
    /\ EndRequests
    /\ UNCHANGED <<holds, spent>>

Ask(u) ==
    /\ account[u] = "open"
    /\ asked' = asked \cup {u}
    /\ UNCHANGED <<account, holds, spent>>

Erase(S) ==
    /\ \A u \in S : \/ account[u] = "closed"
                    \/ account[u] = "open" /\ u \in asked
    /\ account' = [u \in Users |-> IF u \in S THEN "erased" ELSE account[u]]
    /\ holds' = [u \in Users |-> IF u \in S THEN {} ELSE holds[u]]
    /\ EndRequests
    /\ UNCHANGED spent

\* A request admitted while the account was open may store after it closed.
Store(u, p) ==
    /\ account[u] \in {"open", "closed"}
    /\ p \notin spent
    /\ holds' = [holds EXCEPT ![u] = @ \cup {p}]
    /\ spent' = spent \cup {p}
    /\ EndRequests
    /\ UNCHANGED account

Discard(u, P) ==
    /\ holds' = [holds EXCEPT ![u] = @ \ P]
    /\ EndRequests
    /\ UNCHANGED <<account, spent>>

Withdraw ==
    /\ EndRequests
    /\ UNCHANGED <<account, holds, spent>>

Next ==
    \/ \E u \in Users : Open(u) \/ Ask(u)
    \/ \E S \in SUBSET Users : Close(S) \/ Erase(S)
    \/ \E u \in Users, p \in Profiles : Store(u, p)
    \/ \E u \in Users, P \in SUBSET Profiles : Discard(u, P)
    \/ Withdraw

Spec == Init /\ [][Next]_vars
=============================================================================
