------------------------------ MODULE RcClient ------------------------------
(***************************************************************************)
(* The HTTP client that carries every tool call to the Unreal editor       *)
(* (src/src/rc_client.cpp): lazy connection over the candidate ports, a    *)
(* throttle on probes while the engine is down, and ONE retry of a request *)
(* whose connection was lost.                                              *)
(*                                                                         *)
(* The environment is the editor's RemoteControl server behind each port.  *)
(* It may come up, hang (game thread blocked, nothing answered until the   *)
(* read timeout), resume, and go down at any time, also while a request is *)
(* in flight.  The client is single-threaded, so there is one current call.*)
(***************************************************************************)
EXTENDS Naturals

CONSTANTS
    Requests,    \* the requests handlers issue, each of them once
    BadVerbs,    \* those whose verb is none of GET, PUT, POST, DELETE
    NoRequest,   \* "no request": connect() and ensure_connected() on their own
    NPorts,      \* length of RcConfig::ports; ports are tried as 1, 2, ...
    MaxChanges   \* bound: changes of the state of the servers

ASSUME RcAssumption ==
    /\ NoRequest \notin Requests
    /\ BadVerbs \subseteq Requests
    /\ NPorts \in Nat \ {0}
    /\ MaxChanges \in Nat

Ports == 1..NPorts

\* What request() may return to its caller.
Outcomes == {"notConnected", "badVerb", "lost", "httpError", "ok"}

\* A request as the server holds it: the attempt that sent it, the port, and
\* whether the client still has the socket it came on.
Messages == [req : Requests, try : 1..2, port : Ports, open : BOOLEAN]
Replies == [req : Requests, code : {"ok", "httpError"}]

VARIABLES
    server,          \* port -> state of what listens there
    changes,         \* number of changes of server so far (bounded)
    inbox,           \* messages accepted by servers and not yet handled
    wire,            \* replies readable on the client's current socket
    executed,        \* request -> how often the editor has executed it
    connected, http, active_port, generation, attempted_once,
    throttled,       \* since last_attempt_ < reconnect_throttle
    pc,              \* where the client is
    probing,         \* port connect() is trying
    cur, try,        \* the current request and its attempt
    outcome          \* request -> "new", "open" or what was returned

env    == <<server, changes>>
engine == <<inbox, wire, executed>>
link   == <<connected, http, active_port, generation>>
vars   == <<server, changes, inbox, wire, executed, connected, http,
            active_port, generation, attempted_once, throttled, pc, probing,
            cur, try, outcome>>

TypeOK ==
    /\ server \in [Ports -> {"down", "up", "hung"}]
    /\ changes \in 0..MaxChanges
    /\ inbox \subseteq Messages
    /\ wire \subseteq Replies
    /\ executed \in [Requests -> Nat]
    /\ connected \in BOOLEAN
    /\ http \in BOOLEAN
    /\ active_port \in 0..NPorts
    /\ generation \in Nat
    /\ attempted_once \in BOOLEAN
    /\ throttled \in BOOLEAN
    /\ pc \in {"boot", "idle", "ensure", "probe", "send", "await"}
    /\ probing \in Ports
    /\ cur \in Requests \cup {NoRequest}
    /\ try \in 1..2
    /\ outcome \in [Requests -> Outcomes \cup {"new", "open"}]

Init ==
    /\ server \in [Ports -> {"down", "up"}]
    /\ changes = 0
    /\ inbox = {}
    /\ wire = {}
    /\ executed = [r \in Requests |-> 0]
    /\ connected = FALSE
    /\ http = FALSE
    /\ active_port = 0
    /\ generation = 0
    /\ attempted_once = FALSE
    /\ throttled = FALSE
    /\ pc = "boot"
    /\ probing = 1
    /\ cur = NoRequest
    /\ try = 1
    /\ outcome = [r \in Requests |-> "new"]

-----------------------------------------------------------------------------
(* The editor.                                                             *)

\* What listens on p changes state.  Going down loses what it had accepted.
ServerChanges(p, old, new) ==
    /\ changes < MaxChanges
    /\ server[p] = old
    /\ server' = [server EXCEPT ![p] = new]
    /\ changes' = changes + 1
    /\ inbox' = IF new = "down" THEN {m \in inbox : m.port # p} ELSE inbox
    /\ UNCHANGED <<wire, executed, link, attempted_once, throttled, pc,
                   probing, cur, try, outcome>>

EngineStarts(p)  == ServerChanges(p, "down", "up")
EngineHangs(p)   == ServerChanges(p, "up", "hung")
EngineResumes(p) == ServerChanges(p, "hung", "up")
EngineStops(p)   == ServerChanges(p, "up", "down") \/ ServerChanges(p, "hung", "down")

\* The editor handles an accepted request, possibly long after the client has
\* given up on it; the reply reaches the client only on the socket it came on.
Handle(m, code) ==
    /\ m \in inbox
    /\ server[m.port] = "up"
    /\ inbox' = inbox \ {m}
    /\ executed' = IF code = "ok"
                   THEN [executed EXCEPT ![m.req] = @ + 1] ELSE executed
    /\ wire' = IF m.open THEN wire \cup {[req |-> m.req, code |-> code]} ELSE wire
    /\ UNCHANGED <<env, link, attempted_once, throttled, pc, probing, cur, try,
                   outcome>>

-----------------------------------------------------------------------------
(* RcClient.                                                               *)

\* steady_clock passes last_attempt_ + reconnect_throttle.
ThrottleElapses ==
    /\ throttled
    /\ throttled' = FALSE
    /\ UNCHANGED <<env, engine, link, attempted_once, pc, probing, cur, try,
                   outcome>>

\* The current call returns o to its caller.
Return(o) ==
    /\ pc' = "idle"
    /\ cur' = NoRequest
    /\ try' = 1
    /\ outcome' = IF cur = NoRequest THEN outcome ELSE [outcome EXCEPT ![cur] = o]

\* Mutant of DropConnection: the old socket goes on being read.
DropConnectionKeepingSocket ==
    /\ connected' = FALSE
    /\ http' = FALSE
    /\ UNCHANGED <<inbox, wire, active_port, generation>>

\* Mutant of DropConnection: connected_ is cleared and http.reset() forgotten.
DropConnectionWithoutReset ==
    /\ connected' = FALSE
    /\ inbox' = {[m EXCEPT !.open = FALSE] : m \in inbox}
    /\ wire' = {}
    /\ UNCHANGED <<http, active_port, generation>>

\* connected_ = false; http.reset(): the socket is closed, so whatever the
\* editor still answers on it is never read.
DropConnection ==
    /\ connected' = FALSE
    /\ http' = FALSE
    /\ inbox' = {[m EXCEPT !.open = FALSE] : m \in inbox}
    /\ wire' = {}
    /\ UNCHANGED <<active_port, generation>>

\* connect() begins: last_attempt_ is taken before the first port is tried.
BeginConnect ==
    /\ attempted_once' = TRUE
    /\ throttled' = TRUE
    /\ probing' = 1
    /\ pc' = "probe"
    /\ UNCHANGED <<env, engine, link, cur, try, outcome>>

\* main() connects once before it serves.
Boot == pc = "boot" /\ BeginConnect

\* handle_tools_call() ensures a connection before it looks at the tool.
CallEnsure ==
    /\ pc = "idle"
    /\ pc' = "ensure"
    /\ UNCHANGED <<env, engine, link, attempted_once, throttled, probing, cur,
                   try, outcome>>

\* A handler calls request() or request_raw().
Call(r) ==
    /\ pc = "idle"
    /\ outcome[r] = "new"
    /\ outcome' = [outcome EXCEPT ![r] = "open"]
    /\ cur' = r
    /\ try' = 1
    /\ pc' = "ensure"
    /\ UNCHANGED <<env, engine, link, attempted_once, throttled, probing>>

\* ensure_connected() or connect() returned true.
Reached ==
    IF cur = NoRequest
    THEN Return("ok")
    ELSE pc' = "send" /\ UNCHANGED <<cur, try, outcome>>

\* Mutant of NotReached: the retry that found no server says "not connected".
NotReachedForgettingRetry ==
    /\ Return("notConnected")
    /\ IF try = 2
       THEN DropConnection
       ELSE /\ connected' = FALSE
            /\ UNCHANGED <<inbox, wire, http, active_port, generation>>

\* ensure_connected() or connect() returned false.  On the retry request()
\* has no response either: it drops the connection once more.
NotReached ==
    /\ Return(IF try = 1 THEN "notConnected" ELSE "lost")
    /\ IF try = 2
       THEN DropConnection
       ELSE /\ connected' = FALSE
            /\ UNCHANGED <<inbox, wire, http, active_port, generation>>

Usable == connected /\ http

EnsureUsable ==
    /\ pc = "ensure"
    /\ Usable
    /\ Reached
    /\ UNCHANGED <<env, engine, link, attempted_once, throttled, probing>>

\* Mutant of EnsureThrottled: the first failure is remembered for good.
EnsureThrottledForever ==
    /\ pc = "ensure"
    /\ ~Usable
    /\ attempted_once
    /\ NotReached
    /\ UNCHANGED <<env, executed, attempted_once, throttled, probing>>

EnsureThrottled ==
    /\ pc = "ensure"
    /\ ~Usable
    /\ attempted_once /\ throttled
    /\ NotReached
    /\ UNCHANGED <<env, executed, attempted_once, throttled, probing>>

EnsureConnects ==
    /\ pc = "ensure"
    /\ ~Usable
    /\ ~(attempted_once /\ throttled)
    /\ BeginConnect

\* Mutant of ProbeAnswered: a reconnection is not counted.
ProbeAnsweredUncounted ==
    /\ pc = "probe"
    /\ server[probing] = "up"
    /\ connected' = TRUE
    /\ http' = TRUE
    /\ active_port' = probing
    /\ generation' = IF attempted_once /\ generation > 0 THEN generation ELSE generation + 1
    /\ Reached
    /\ UNCHANGED <<env, engine, attempted_once, throttled, probing>>

\* GET /remote/info was answered (by any status): this port is the one.
ProbeAnswered ==
    /\ pc = "probe"
    /\ server[probing] = "up"
    /\ connected' = TRUE
    /\ http' = TRUE
    /\ active_port' = probing
    /\ generation' = generation + 1
    /\ Reached
    /\ UNCHANGED <<env, engine, attempted_once, throttled, probing>>

\* Mutant of ProbeUnanswered: the loop over the ports runs one too far.
ProbeUnansweredPastEnd ==
    /\ pc = "probe"
    /\ server[probing] # "up"
    /\ IF probing <= NPorts
       THEN /\ probing' = probing + 1
            /\ UNCHANGED <<inbox, wire, link, pc, cur, try, outcome>>
       ELSE NotReached /\ UNCHANGED probing
    /\ UNCHANGED <<env, executed, attempted_once, throttled>>

\* Mutant of ProbeUnanswered: connect() goes round the ports until one answers.
ProbeUnansweredForever ==
    /\ pc = "probe"
    /\ server[probing] # "up"
    /\ probing' = IF probing < NPorts THEN probing + 1 ELSE 1
    /\ UNCHANGED <<env, engine, link, attempted_once, throttled, pc, cur, try,
                   outcome>>

\* Refused, or no answer within the timeout: the next port, or give up.
ProbeUnanswered ==
    /\ pc = "probe"
    /\ server[probing] # "up"
    /\ IF probing < NPorts
       THEN /\ probing' = probing + 1
            /\ UNCHANGED <<inbox, wire, link, pc, cur, try, outcome>>
       ELSE NotReached /\ UNCHANGED probing
    /\ UNCHANGED <<env, executed, attempted_once, throttled>>

RejectVerb ==
    /\ pc = "send"
    /\ cur \in BadVerbs
    /\ Return("badVerb")
    /\ UNCHANGED <<env, engine, link, attempted_once, throttled, probing>>

\* httplib reopens a keep-alive socket its peer has closed, so the request goes
\* to whatever listens on active_port_ NOW.  A hung server still accepts it.
Send ==
    /\ pc = "send"
    /\ cur \notin BadVerbs
    /\ server[active_port] # "down"
    /\ inbox' = inbox \cup
          {[req |-> cur, try |-> try, port |-> active_port, open |-> TRUE]}
    /\ pc' = "await"
    /\ UNCHANGED <<env, wire, executed, link, attempted_once, throttled,
                   probing, cur, try, outcome>>

\* Mutant of NullResult: every null result is retried.
NullResultRetriesAlways ==
    /\ DropConnection
    /\ attempted_once' = FALSE
    /\ pc' = "ensure"
    /\ UNCHANGED <<env, executed, throttled, probing, cur, try, outcome>>

\* A null result on the first attempt: invalidate, bypass the throttle, retry;
\* on the second one: give up.
NullResult ==
    /\ DropConnection
    /\ IF try = 1
       THEN /\ attempted_once' = FALSE
            /\ try' = 2
            /\ pc' = "ensure"
            /\ UNCHANGED <<cur, outcome>>
       ELSE Return("lost") /\ UNCHANGED attempted_once
    /\ UNCHANGED <<env, executed, throttled, probing>>

SendRefused ==
    /\ pc = "send"
    /\ cur \notin BadVerbs
    /\ server[active_port] = "down"
    /\ NullResult

\* The read timeout expires or the socket breaks.  The editor may have handled
\* the request, or may still.
ReplyLost == pc = "await" /\ NullResult

Receive ==
    /\ pc = "await"
    /\ \E reply \in wire :
          /\ wire' = wire \ {reply}
          /\ Return(reply.code)
    /\ UNCHANGED <<env, inbox, executed, link, attempted_once, throttled,
                   probing>>

-----------------------------------------------------------------------------
Editor ==
    \/ \E p \in Ports : \/ EngineStarts(p)
                        \/ EngineHangs(p)
                        \/ EngineResumes(p)
                        \/ EngineStops(p)
    \/ \E m \in inbox, code \in {"ok", "httpError"} : Handle(m, code)

\* What the client's thread does once it is inside a call.
ClientStep ==
    \/ Boot
    \/ EnsureUsable \/ EnsureThrottled \/ EnsureConnects
    \/ ProbeAnswered \/ ProbeUnanswered
    \/ RejectVerb \/ Send \/ SendRefused
    \/ Receive \/ ReplyLost

Next ==
    \/ Editor
    \/ ThrottleElapses
    \/ CallEnsure
    \/ \E r \in Requests : Call(r)
    \/ ClientStep

Spec == Init /\ [][Next]_vars

\* Time passes, the client's thread runs, and tool calls keep arriving.
Fairness ==
    /\ WF_vars(ClientStep)
    /\ WF_vars(ThrottleElapses)
    /\ WF_vars(CallEnsure)

FairSpec == Spec /\ Fairness

-----------------------------------------------------------------------------
(* Properties.                                                             *)

\* The request is waiting at a server, or may still be executed by one.
Pending(r) == \E m \in inbox : m.req = r

InFlight(r, t) == IF \E m \in inbox : m.req = r /\ m.try = t THEN 1 ELSE 0

\* The retry of request() may execute a request a second time, never a third,
\* counting the executions that are still to come after the client gave up.
AtMostTwice ==
    \A r \in Requests : executed[r] + InFlight(r, 1) + InFlight(r, 2) <= 2

\* What request() returned is true of the editor: success means it was
\* executed, "not connected" and "unsupported verb" that it never was and
\* never will be.
HonestOutcome ==
    \A r \in Requests :
        /\ outcome[r] = "ok" => executed[r] >= 1
        /\ outcome[r] \in {"new", "notConnected", "badVerb"} =>
              executed[r] = 0 /\ ~Pending(r)

\* A late reply to an abandoned attempt is never read as the reply to another
\* request: whatever can be read answers the request being waited for.
ReplyMatches ==
    \A reply \in wire : pc = "await" /\ reply.req = cur

\* connected_ and the existence of the HTTP client never disagree when a call
\* looks at them, and a connected client knows its port.
LinkCoherent ==
    /\ connected <=> http
    /\ connected => active_port \in Ports
    /\ pc \in {"send", "await"} => connected

\* generation() counts connections: it moves exactly when a connection comes
\* into being, which is what the capability registry relies on.
GenerationCounts ==
    [][ /\ generation' \in {generation, generation + 1}
        /\ generation' # generation <=> ~connected /\ connected' ]_<<generation, connected>>

\* The client implements the promise of request() to the handlers: safety, and
\* that every request is answered.
Promise == INSTANCE RemoteCall
    WITH Requests <- Requests, outcome <- outcome, executed <- executed
ImplementsRemoteCall == Promise!Safety
ImplementsRemoteCallFairly == Promise!Spec

\* Every call returns, whatever the servers do.
EveryCallReturns == pc # "idle" ~> pc = "idle"

\* While some server stays up and tool calls keep coming, the client is
\* connected again and again: no drop, hang or throttle strands it.
Reconnects ==
    (\E p \in Ports : <>[](server[p] = "up")) => []<>connected
=============================================================================
