----------------------------- MODULE RemoteCall -----------------------------
(***************************************************************************)
(* What RcClient::request() promises a tool handler, with no connection,   *)
(* port, socket or retry in sight: the editor executes a request at most   *)
(* twice, possibly after the caller has its answer; success is reported    *)
(* only of a request that was executed, and a request refused before it    *)
(* was sent ("notConnected", "badVerb") has no effect, then or later.      *)
(***************************************************************************)
EXTENDS Naturals

CONSTANT Requests

VARIABLES outcome, executed

vars == <<outcome, executed>>

Refusals == {"notConnected", "badVerb"}
Answers  == {"ok", "httpError", "lost"}

Init ==
    /\ outcome = [r \in Requests |-> "new"]
    /\ executed = [r \in Requests |-> 0]

Issue(r) ==
    /\ outcome[r] = "new"
    /\ outcome' = [outcome EXCEPT ![r] = "open"]
    /\ UNCHANGED executed

Execute(r) ==
    /\ outcome[r] \in {"open"} \cup Answers
    /\ executed[r] < 2
    /\ executed' = [executed EXCEPT ![r] = @ + 1]
    /\ UNCHANGED outcome

Return(r, o) ==
    /\ outcome[r] = "open"
    /\ o \in Refusals => executed[r] = 0
    /\ o = "ok" => executed[r] >= 1
    /\ outcome' = [outcome EXCEPT ![r] = o]
    /\ UNCHANGED executed

Next ==
    \E r \in Requests :
        \/ Issue(r)
        \/ Execute(r)
        \/ \E o \in Refusals \cup Answers : Return(r, o)

Safety == Init /\ [][Next]_vars

Returns(r) == \E o \in Refusals \cup Answers : Return(r, o)

Spec == Safety /\ \A r \in Requests : WF_vars(Returns(r))
=============================================================================
