--------------------------- MODULE RcClientProofs ---------------------------
(***************************************************************************)
(* Proofs about RcClient, for any set of requests and any number of ports. *)
(***************************************************************************)
EXTENDS RcClient, TLAPS

\* Attempts of r that have been put on the wire, or may have been.
Sent(r) ==
    IF outcome[r] \in {"new", "notConnected", "badVerb"} THEN 0
    ELSE IF outcome[r] = "open" THEN IF pc = "await" THEN try ELSE try - 1
    ELSE 2

\* The request that is open is the current one.
CurInv ==
    /\ \A r \in Requests : outcome[r] = "open" <=> cur = r
    /\ pc \in {"boot", "idle"} => cur = NoRequest
    /\ pc \in {"send", "await"} => cur # NoRequest
    /\ cur = NoRequest => try = 1
    /\ cur \in BadVerbs => try = 1 /\ pc # "await"

LinkInv ==
    /\ LinkCoherent
    /\ pc \in {"boot", "probe"} => ~connected

\* A message is identified by its request and attempt; only that of the
\* attempt being waited for has its socket open.
InboxInv ==
    /\ \A m, n \in inbox : m.req = n.req /\ m.try = n.try => m = n
    /\ \A m \in inbox : m.open => pc = "await" /\ m.req = cur /\ m.try = try
    /\ \A m \in inbox : m.try <= Sent(m.req)

WireInv ==
    /\ \A a, b \in wire : a = b
    /\ \A a \in wire : /\ pc = "await"
                       /\ a.req = cur
                       /\ a.code = "ok" => executed[cur] >= 1
                       /\ \A m \in inbox : ~m.open

\* Every execution, past or to come, is paid for by an attempt.
CountInv ==
    \A r \in Requests :
        /\ executed[r] + InFlight(r, 1) + InFlight(r, 2) <= Sent(r)
        /\ outcome[r] = "ok" => executed[r] >= 1

-----------------------------------------------------------------------------
(* Type correctness.                                                       *)

\* A message whose socket is closed is the same message otherwise.
LEMMA Orphan ==
    ASSUME TypeOK, NEW m \in inbox
    PROVE  /\ m \in Messages
           /\ [m EXCEPT !.open = FALSE] \in Messages
           /\ [m EXCEPT !.open = FALSE].req = m.req
           /\ [m EXCEPT !.open = FALSE].try = m.try
           /\ [m EXCEPT !.open = FALSE].port = m.port
           /\ [m EXCEPT !.open = FALSE].open = FALSE
  BY DEF TypeOK, Messages

LEMMA DropType ==
    ASSUME TypeOK, DropConnection
    PROVE  /\ inbox' \subseteq Messages /\ wire' \subseteq Replies
           /\ connected' \in BOOLEAN /\ http' \in BOOLEAN
           /\ active_port' \in 0..NPorts /\ generation' \in Nat
  <1>1. inbox' \subseteq Messages
    <2>1. SUFFICES ASSUME NEW n \in inbox' PROVE n \in Messages
      OBVIOUS
    <2>2. PICK m \in inbox : n = [m EXCEPT !.open = FALSE]
      BY DEF DropConnection
    <2>3. QED  BY <2>2, Orphan
  <1>2. QED  BY <1>1 DEF TypeOK, DropConnection

LEMMA ReturnType ==
    ASSUME TypeOK, NEW o \in Outcomes, Return(o)
    PROVE  /\ pc' = "idle" /\ cur' = NoRequest /\ try' = 1
           /\ outcome' \in [Requests -> Outcomes \cup {"new", "open"}]
  BY DEF TypeOK, Return

LEMMA NotReachedType ==
    ASSUME TypeOK, NotReached
    PROVE  /\ pc' = "idle" /\ cur' = NoRequest /\ try' = 1
           /\ outcome' \in [Requests -> Outcomes \cup {"new", "open"}]
           /\ inbox' \subseteq Messages /\ wire' \subseteq Replies
           /\ connected' \in BOOLEAN /\ http' \in BOOLEAN
           /\ active_port' \in 0..NPorts /\ generation' \in Nat
  <1>1. \E o \in Outcomes : Return(o)
    BY DEF NotReached, Outcomes
  <1>2. CASE try = 2
    BY <1>1, <1>2, ReturnType, DropType DEF NotReached
  <1>3. CASE try # 2
    BY <1>1, <1>3, ReturnType DEF NotReached, TypeOK
  <1>4. QED  BY <1>2, <1>3

LEMMA ReachedType ==
    ASSUME TypeOK, Reached
    PROVE  /\ pc' \in {"idle", "send"} /\ cur' \in Requests \cup {NoRequest}
           /\ try' \in 1..2
           /\ outcome' \in [Requests -> Outcomes \cup {"new", "open"}]
  <1>1. CASE cur = NoRequest
    BY <1>1, ReturnType DEF Reached, Outcomes
  <1>2. CASE cur # NoRequest
    BY <1>2 DEF Reached, TypeOK
  <1>3. QED  BY <1>1, <1>2

LEMMA NullResultType ==
    ASSUME TypeOK, NullResult
    PROVE  TypeOK'
  <1>1. /\ inbox' \subseteq Messages /\ wire' \subseteq Replies
        /\ connected' \in BOOLEAN /\ http' \in BOOLEAN
        /\ active_port' \in 0..NPorts /\ generation' \in Nat
    BY DropType DEF NullResult
  <1>2. /\ pc' \in {"ensure", "idle"} /\ cur' \in Requests \cup {NoRequest}
        /\ try' \in 1..2 /\ attempted_once' \in BOOLEAN
        /\ outcome' \in [Requests -> Outcomes \cup {"new", "open"}]
    <2>1. CASE try = 1
      <3>1. attempted_once' = FALSE /\ try' = 2 /\ pc' = "ensure"
        BY <2>1 DEF NullResult
      <3>2. cur' = cur /\ outcome' = outcome
        BY <2>1 DEF NullResult
      <3>3. try' \in 1..2
        BY <3>1
      <3>4. attempted_once' \in BOOLEAN
        BY <3>1
      <3>5. cur' \in Requests \cup {NoRequest}
            /\ outcome' \in [Requests -> Outcomes \cup {"new", "open"}]
        BY <3>2 DEF TypeOK
      <3>6. QED  BY <3>1, <3>3, <3>4, <3>5
    <2>2. CASE try # 1
      <3>1. "lost" \in Outcomes /\ Return("lost")
        BY <2>2 DEF Outcomes, NullResult
      <3>2. QED  BY <2>2, <3>1, ReturnType DEF NullResult, TypeOK
    <2>3. QED  BY <2>1, <2>2
  <1>3. QED
    BY <1>1, <1>2 DEF NullResult, TypeOK, env

LEMMA EditorType ==
    ASSUME TypeOK, Editor
    PROVE  TypeOK'
  <1>1. ASSUME NEW p \in Ports, NEW old, NEW new \in {"down", "up", "hung"},
               ServerChanges(p, old, new)
        PROVE  TypeOK'
    BY <1>1, RcAssumption DEF TypeOK, ServerChanges, link
  <1>2. ASSUME NEW m \in inbox, NEW code \in {"ok", "httpError"}, Handle(m, code)
        PROVE  TypeOK'
    <2>1. m \in Messages  BY DEF TypeOK
    <2>2. wire' \subseteq Replies
      BY <1>2, <2>1 DEF Handle, TypeOK, Messages, Replies
    <2>3. executed' \in [Requests -> Nat]
      BY <1>2, <2>1 DEF Handle, TypeOK, Messages
    <2>4. QED  BY <1>2, <2>2, <2>3 DEF Handle, TypeOK, env, link
  <1>3. QED
    BY <1>1, <1>2 DEF Editor, EngineStarts, EngineHangs, EngineResumes, EngineStops

LEMMA BeginConnectType ==
    ASSUME TypeOK, BeginConnect
    PROVE  TypeOK'
  BY RcAssumption DEF TypeOK, BeginConnect, env, engine, link, Ports

LEMMA ClientStepType ==
    ASSUME TypeOK, CurInv, LinkInv, ClientStep
    PROVE  TypeOK'
  <1>1. CASE Boot  BY <1>1, BeginConnectType DEF Boot
  <1>2. CASE EnsureUsable
    BY <1>2, ReachedType DEF EnsureUsable, TypeOK, env, engine, link
  <1>3. CASE EnsureThrottled
    BY <1>3, NotReachedType DEF EnsureThrottled, TypeOK, env
  <1>4. CASE EnsureConnects  BY <1>4, BeginConnectType DEF EnsureConnects
  <1>5. CASE ProbeAnswered
    BY <1>5, ReachedType, RcAssumption
       DEF ProbeAnswered, TypeOK, env, engine, link, Ports
  <1>6. CASE ProbeUnanswered
    <2>1. CASE probing < NPorts
      BY <1>6, <2>1, RcAssumption DEF ProbeUnanswered, TypeOK, env, link, Ports
    <2>2. CASE ~(probing < NPorts)
      BY <1>6, <2>2, NotReachedType DEF ProbeUnanswered, TypeOK, env
    <2>3. QED  BY <2>1, <2>2
  <1>7. CASE RejectVerb
    <2>1. "badVerb" \in Outcomes  BY DEF Outcomes
    <2>2. QED
      BY <1>7, <2>1, ReturnType DEF RejectVerb, TypeOK, env, engine, link
  <1>8. CASE Send
    <2>1. cur \in Requests /\ active_port \in Ports
      BY <1>8 DEF Send, TypeOK, CurInv, LinkInv, LinkCoherent
    <2>2. [req |-> cur, try |-> try, port |-> active_port, open |-> TRUE] \in Messages
      BY <2>1 DEF TypeOK, Messages
    <2>3. QED  BY <1>8, <2>2 DEF Send, TypeOK, env, link
  <1>9. CASE SendRefused  BY <1>9, NullResultType DEF SendRefused
  <1>10. CASE Receive
    <2>1. PICK reply \in wire : wire' = wire \ {reply} /\ Return(reply.code)
      BY <1>10 DEF Receive
    <2>2. reply.code \in Outcomes
      BY <2>1 DEF TypeOK, Replies, Outcomes
    <2>3. QED
      BY <1>10, <2>1, <2>2, ReturnType DEF Receive, TypeOK, env, link
  <1>11. CASE ReplyLost  BY <1>11, NullResultType DEF ReplyLost
  <1>12. QED
    BY <1>1, <1>2, <1>3, <1>4, <1>5, <1>6, <1>7, <1>8, <1>9, <1>10, <1>11
       DEF ClientStep

-----------------------------------------------------------------------------
(* One call at a time.                                                     *)

LEMMA ReturnCur ==
    ASSUME TypeOK, CurInv, NEW o \in Outcomes, Return(o)
    PROVE  CurInv'
  <1>1. pc' = "idle" /\ cur' = NoRequest /\ try' = 1
    BY DEF Return
  <1>2. ASSUME NEW r \in Requests  PROVE outcome'[r] # "open"
    <2>1. outcome[r] = "open" <=> cur = r
      BY DEF CurInv
    <2>2. o # "open"
      BY DEF Outcomes
    <2>3. CASE cur = NoRequest
      BY <2>1, <2>3, RcAssumption DEF Return
    <2>4. CASE cur # NoRequest
      BY <2>1, <2>2, <2>4 DEF Return, TypeOK
    <2>5. QED  BY <2>3, <2>4
  <1>3. QED  BY <1>1, <1>2, RcAssumption DEF CurInv

LEMMA NotReachedCur ==
    ASSUME TypeOK, CurInv, NotReached
    PROVE  CurInv'
  <1>1. \E o \in Outcomes : Return(o)
    BY DEF NotReached, Outcomes
  <1>2. QED  BY <1>1, ReturnCur

LEMMA ReachedCur ==
    ASSUME TypeOK, CurInv, Reached
    PROVE  CurInv'
  <1>1. CASE cur = NoRequest
    BY <1>1, ReturnCur DEF Reached, Outcomes
  <1>2. CASE cur # NoRequest
    BY <1>2 DEF Reached, CurInv
  <1>3. QED  BY <1>1, <1>2

LEMMA NullResultCur ==
    ASSUME TypeOK, CurInv, pc \in {"send", "await"}, cur \notin BadVerbs, NullResult
    PROVE  CurInv'
  <1>1. CASE try = 1
    <2>1. pc' = "ensure" /\ cur' = cur /\ outcome' = outcome
      BY <1>1 DEF NullResult
    <2>2. QED  BY <2>1 DEF CurInv
  <1>2. CASE try # 1
    BY <1>2, ReturnCur DEF NullResult, Outcomes
  <1>3. QED  BY <1>1, <1>2

LEMMA CurStep ==
    ASSUME TypeOK, CurInv, [Next]_vars
    PROVE  CurInv'
  <1>1. CASE Editor
    <2>1. pc' = pc /\ cur' = cur /\ try' = try /\ outcome' = outcome
      BY <1>1 DEF Editor, EngineStarts, EngineHangs, EngineResumes, EngineStops,
                  ServerChanges, Handle
    <2>2. QED  BY <2>1 DEF CurInv
  <1>2. CASE ThrottleElapses
    BY <1>2 DEF ThrottleElapses, CurInv
  <1>3. CASE CallEnsure
    BY <1>3 DEF CallEnsure, CurInv
  <1>4. ASSUME NEW r \in Requests, Call(r)  PROVE CurInv'
    <2>1. /\ cur' = r /\ pc' = "ensure" /\ try' = 1
          /\ outcome' = [outcome EXCEPT ![r] = "open"] /\ cur = NoRequest
      BY <1>4 DEF Call, CurInv
    <2>2. \A q \in Requests : outcome[q] # "open"
      BY <2>1, RcAssumption DEF CurInv
    <2>3. \A q \in Requests : outcome'[q] = "open" <=> q = r
      BY <2>1, <2>2 DEF TypeOK
    <2>4. cur' # NoRequest
      BY <2>1, RcAssumption
    <2>5. QED  BY <2>1, <2>3, <2>4 DEF CurInv
  <1>5. CASE Boot \/ EnsureConnects
    BY <1>5 DEF Boot, EnsureConnects, BeginConnect, CurInv
  <1>6. CASE EnsureUsable \/ ProbeAnswered
    BY <1>6, ReachedCur DEF EnsureUsable, ProbeAnswered
  <1>7. CASE EnsureThrottled
    BY <1>7, NotReachedCur DEF EnsureThrottled
  <1>8. CASE ProbeUnanswered
    <2>1. CASE NotReached  BY <2>1, NotReachedCur
    <2>2. CASE UNCHANGED <<pc, cur, outcome>> /\ try' = try
      BY <2>2 DEF CurInv
    <2>3. QED  BY <1>8, <2>1, <2>2 DEF ProbeUnanswered
  <1>9. CASE RejectVerb
    BY <1>9, ReturnCur DEF RejectVerb, Outcomes
  <1>10. CASE Send
    BY <1>10 DEF Send, CurInv
  <1>11. CASE SendRefused
    BY <1>11, NullResultCur DEF SendRefused
  <1>12. CASE Receive
    <2>1. PICK reply \in wire : Return(reply.code)
      BY <1>12 DEF Receive
    <2>2. reply.code \in Outcomes
      BY <2>1 DEF TypeOK, Replies, Outcomes
    <2>3. QED  BY <2>1, <2>2, ReturnCur
  <1>13. CASE ReplyLost
    BY <1>13, NullResultCur DEF ReplyLost, CurInv
  <1>14. CASE UNCHANGED vars
    BY <1>14 DEF vars, CurInv
  <1>15. QED
    BY <1>1, <1>2, <1>3, <1>4, <1>5, <1>6, <1>7, <1>8, <1>9, <1>10, <1>11,
       <1>12, <1>13, <1>14 DEF Next, ClientStep

-----------------------------------------------------------------------------
(* The connection.                                                         *)

LEMMA LinkStep ==
    ASSUME TypeOK, CurInv, LinkInv, [Next]_vars
    PROVE  LinkInv'
  <1> USE DEF LinkInv, LinkCoherent
  <1>1. CASE Editor
    <2>1. UNCHANGED link /\ pc' = pc
      BY <1>1 DEF Editor, EngineStarts, EngineHangs, EngineResumes, EngineStops,
                  ServerChanges, Handle
    <2>2. QED  BY <2>1 DEF link
  <1>2. CASE ThrottleElapses \/ CallEnsure
    BY <1>2 DEF ThrottleElapses, CallEnsure, link
  <1>3. ASSUME NEW r \in Requests, Call(r)  PROVE LinkInv'
    BY <1>3 DEF Call, link
  <1>4. CASE Boot \/ EnsureConnects
    BY <1>4 DEF Boot, EnsureConnects, Usable, BeginConnect, link
  <1>5. CASE EnsureUsable
    BY <1>5 DEF EnsureUsable, Usable, Reached, Return, link
  <1>6. CASE ProbeAnswered
    <2>1. connected' /\ http' /\ active_port' \in Ports /\ pc' \in {"idle", "send"}
      BY <1>6 DEF ProbeAnswered, Reached, Return, TypeOK
    <2>2. QED  BY <2>1
  <1>7. ASSUME NotReached, ~http  PROVE LinkInv'
    <2>1. ~connected' /\ ~http' /\ pc' = "idle"
      BY <1>7 DEF NotReached, Return, DropConnection
    <2>2. QED  BY <2>1
  <1>8. CASE EnsureThrottled
    BY <1>7, <1>8 DEF EnsureThrottled, Usable
  <1>9. CASE ProbeUnanswered
    <2>1. CASE NotReached  BY <1>7, <1>9, <2>1 DEF ProbeUnanswered
    <2>2. CASE UNCHANGED <<link, pc>>  BY <2>2 DEF link
    <2>3. QED  BY <1>9, <2>1, <2>2 DEF ProbeUnanswered
  <1>10. CASE RejectVerb
    BY <1>10 DEF RejectVerb, Return, link
  <1>11. CASE Send
    BY <1>11 DEF Send, link
  <1>12. CASE SendRefused \/ ReplyLost
    <2>1. ~connected' /\ ~http' /\ pc' \in {"ensure", "idle"}
      BY <1>12 DEF SendRefused, ReplyLost, NullResult, DropConnection, Return
    <2>2. QED  BY <2>1
  <1>13. CASE Receive
    BY <1>13 DEF Receive, Return, link
  <1>14. CASE UNCHANGED vars
    BY <1>14 DEF vars
  <1>15. QED
    BY <1>1, <1>2, <1>3, <1>4, <1>5, <1>6, <1>8, <1>9, <1>10, <1>11, <1>12,
       <1>13, <1>14 DEF Next, ClientStep

LEMMA TypeStep ==
    ASSUME TypeOK, CurInv, LinkInv, [Next]_vars
    PROVE  TypeOK'
  <1>1. CASE ThrottleElapses \/ CallEnsure
    BY <1>1 DEF ThrottleElapses, CallEnsure, TypeOK, env, engine, link
  <1>2. ASSUME NEW r \in Requests, Call(r)  PROVE TypeOK'
    BY <1>2 DEF Call, TypeOK, env, engine, link
  <1>3. CASE UNCHANGED vars
    BY <1>3 DEF vars, TypeOK
  <1>4. QED
    BY <1>1, <1>2, <1>3, EditorType, ClientStepType DEF Next

LEMMA InitBasic ==
    ASSUME Init
    PROVE  TypeOK /\ CurInv /\ LinkInv
  <1>1. TypeOK
    <2>1. /\ server \in [Ports -> {"down", "up", "hung"}]
          /\ executed \in [Requests -> Nat]
          /\ outcome \in [Requests -> Outcomes \cup {"new", "open"}]
          /\ inbox \subseteq Messages /\ wire \subseteq Replies
      BY DEF Init
    <2>2. /\ changes \in 0..MaxChanges /\ active_port \in 0..NPorts
          /\ generation \in Nat /\ probing \in Ports /\ try \in 1..2
      BY RcAssumption DEF Init, Ports
    <2>3. /\ connected \in BOOLEAN /\ http \in BOOLEAN
          /\ attempted_once \in BOOLEAN /\ throttled \in BOOLEAN
      BY DEF Init
    <2>4. /\ cur \in Requests \cup {NoRequest}
          /\ pc \in {"boot", "idle", "ensure", "probe", "send", "await"}
      BY DEF Init
    <2>5. QED  BY <2>1, <2>2, <2>3, <2>4 DEF TypeOK
  <1>2. CurInv
    BY RcAssumption DEF Init, CurInv
  <1>3. LinkInv
    BY DEF Init, LinkInv, LinkCoherent
  <1>4. QED  BY <1>1, <1>2, <1>3

\* Every variable has its type in every reachable state, for any set of
\* requests, any number of ports and however the servers behave.
THEOREM TypeCorrect == Spec => []TypeOK
  <1>1. Init => TypeOK /\ CurInv /\ LinkInv
    BY InitBasic
  <1>2. TypeOK /\ CurInv /\ LinkInv /\ [Next]_vars => (TypeOK /\ CurInv /\ LinkInv)'
    BY TypeStep, CurStep, LinkStep
  <1>3. QED  BY <1>1, <1>2, PTL DEF Spec

\* connected_ and the HTTP client agree, and a connected client knows the port.
THEOREM LinkCorrect == Spec => []LinkCoherent
  <1>1. Init => TypeOK /\ CurInv /\ LinkInv
    BY InitBasic
  <1>2. TypeOK /\ CurInv /\ LinkInv /\ [Next]_vars => (TypeOK /\ CurInv /\ LinkInv)'
    BY TypeStep, CurStep, LinkStep
  <1>3. LinkInv => LinkCoherent
    BY DEF LinkInv
  <1>4. QED  BY <1>1, <1>2, <1>3, PTL DEF Spec

-----------------------------------------------------------------------------
(* Messages: what a step may do to them.                                   *)

Basic == TypeOK /\ CurInv /\ LinkInv
Msgs  == InboxInv /\ WireInv /\ CountInv

\* No message is gained, and none has its socket reopened.
Shrinks ==
    /\ \A m \in inbox' : \E n \in inbox :
          n.req = m.req /\ n.try = m.try /\ (m.open => n.open)
    /\ \A m, n \in inbox' : m.req = n.req /\ m.try = n.try => m = n

LEMMA SentType ==
    ASSUME TypeOK, NEW r \in Requests
    PROVE  Sent(r) \in 0..2
  BY DEF TypeOK, Sent

LEMMA SentTypeNext ==
    ASSUME TypeOK', NEW r \in Requests
    PROVE  Sent(r)' \in 0..2
  BY DEF TypeOK, Sent

LEMMA InFlightType ==
    ASSUME NEW r, NEW t
    PROVE  InFlight(r, t) \in 0..1
  BY DEF InFlight

LEMMA DropShrinks ==
    ASSUME TypeOK, InboxInv, DropConnection
    PROVE  Shrinks /\ wire' = {} /\ \A m \in inbox' : ~m.open
  <1>1. wire' = {} /\ inbox' = {[m EXCEPT !.open = FALSE] : m \in inbox}
    BY DEF DropConnection
  <1>2. ASSUME NEW m \in inbox'
        PROVE  \E n \in inbox : /\ m = [n EXCEPT !.open = FALSE]
                                /\ n.req = m.req /\ n.try = m.try /\ ~m.open
    <2>1. PICK n \in inbox : m = [n EXCEPT !.open = FALSE]
      BY <1>1
    <2>2. QED  BY <2>1, Orphan
  <1>3. ASSUME NEW m \in inbox', NEW n \in inbox', m.req = n.req, m.try = n.try
        PROVE  m = n
    <2>1. PICK a \in inbox : /\ m = [a EXCEPT !.open = FALSE]
                             /\ a.req = m.req /\ a.try = m.try
      BY <1>2
    <2>2. PICK b \in inbox : /\ n = [b EXCEPT !.open = FALSE]
                             /\ b.req = n.req /\ b.try = n.try
      BY <1>2
    <2>3. a = b
      BY <1>3, <2>1, <2>2 DEF InboxInv
    <2>4. QED  BY <2>1, <2>2, <2>3
  <1>4. \A m \in inbox' : ~m.open
    BY <1>2
  <1>5. Shrinks
    BY <1>2, <1>3 DEF Shrinks
  <1>6. QED  BY <1>1, <1>4, <1>5

LEMMA SubsetShrinks ==
    ASSUME InboxInv, inbox' \subseteq inbox
    PROVE  Shrinks
  BY DEF InboxInv, Shrinks

\* A step that gains no message, executes nothing and takes back no attempt
\* keeps the account.
LEMMA CountFrame ==
    ASSUME TypeOK, TypeOK', CountInv, Shrinks, executed' = executed,
           \A r \in Requests : Sent(r) <= Sent(r)',
           \A r \in Requests : outcome'[r] = "ok" => executed[r] >= 1
    PROVE  CountInv'
  <1>1. SUFFICES ASSUME NEW r \in Requests
                 PROVE  executed'[r] + InFlight(r, 1)' + InFlight(r, 2)' <= Sent(r)'
    BY DEF CountInv
  <1>2. ASSUME NEW t  PROVE InFlight(r, t)' <= InFlight(r, t)
    BY DEF InFlight, Shrinks
  <1>3. executed[r] + InFlight(r, 1) + InFlight(r, 2) <= Sent(r)
    BY DEF CountInv
  <1>4. /\ executed[r] \in Nat
        /\ InFlight(r, 1) \in 0..1 /\ InFlight(r, 2) \in 0..1
        /\ InFlight(r, 1)' \in 0..1 /\ InFlight(r, 2)' \in 0..1
        /\ Sent(r) \in 0..2 /\ Sent(r)' \in 0..2
    BY SentType, SentTypeNext, InFlightType DEF TypeOK, InFlight
  <1>5. InFlight(r, 1)' <= InFlight(r, 1) /\ InFlight(r, 2)' <= InFlight(r, 2)
    BY <1>2
  <1>6. QED  BY <1>3, <1>4, <1>5

\* A step outside the wait for a reply that neither gains a message nor takes
\* back an attempt.
LEMMA QuietStep ==
    ASSUME Basic, Basic', Msgs, Shrinks, executed' = executed, wire' = {},
           \A m \in inbox' : ~m.open,
           \A r \in Requests : Sent(r) <= Sent(r)',
           \A r \in Requests : outcome'[r] = "ok" => executed[r] >= 1
    PROVE  Msgs'
  <1>1. CountInv'
    BY CountFrame DEF Basic, Msgs
  <1>2. WireInv'
    BY DEF WireInv
  <1>3. ASSUME NEW m \in inbox'  PROVE m.try <= Sent(m.req)'
    <2>1. PICK n \in inbox : n.req = m.req /\ n.try = m.try
      BY DEF Shrinks
    <2>2. n.try <= Sent(n.req) /\ n.req \in Requests /\ n.try \in 1..2
      BY DEF Msgs, InboxInv, Basic, TypeOK, Messages
    <2>3. Sent(n.req) <= Sent(n.req)' /\ Sent(n.req) \in 0..2 /\ Sent(n.req)' \in 0..2
      BY <2>2, SentType, SentTypeNext DEF Basic
    <2>4. n.try <= Sent(n.req)'
      BY <2>2, <2>3
    <2>5. QED  BY <2>1, <2>4
  <1>4. InboxInv'
    BY <1>3 DEF InboxInv, Shrinks
  <1>5. QED  BY <1>1, <1>2, <1>4 DEF Msgs

LEMMA Quiet ==
    ASSUME Msgs, pc # "await"
    PROVE  wire = {} /\ \A m \in inbox : ~m.open
  BY DEF Msgs, WireInv, InboxInv

LEMMA OkExecuted ==
    ASSUME Msgs, \A r \in Requests : outcome'[r] = "ok" => outcome[r] = "ok"
    PROVE  \A r \in Requests : outcome'[r] = "ok" => executed[r] >= 1
  BY DEF Msgs, CountInv

\* A request that returns without a reply has no attempt taken back.
LEMMA ReturnSent ==
    ASSUME Basic, NEW o \in {"notConnected", "badVerb", "lost"}, Return(o),
           o # "lost" => try = 1 /\ pc # "await"
    PROVE  /\ \A r \in Requests : Sent(r) <= Sent(r)'
           /\ \A r \in Requests : outcome'[r] = "ok" => outcome[r] = "ok"
  <1>1. SUFFICES ASSUME NEW r \in Requests
                 PROVE  /\ Sent(r) <= Sent(r)'
                        /\ outcome'[r] = "ok" => outcome[r] = "ok"
    OBVIOUS
  <1>2. CASE r = cur
    <2>1. outcome[r] = "open" /\ cur # NoRequest
      BY <1>2, RcAssumption DEF Basic, CurInv
    <2>2. outcome'[r] = o
      <3>1. outcome' = [outcome EXCEPT ![cur] = o]
        BY <2>1 DEF Return
      <3>2. QED  BY <1>2, <3>1 DEF Basic, TypeOK
    <2>3. CASE o = "lost"
      <3>1. Sent(r)' = 2
        BY <2>2, <2>3 DEF Sent
      <3>2. QED  BY <3>1, <2>2, <2>3, SentType DEF Basic
    <2>4. CASE o # "lost"
      <3>1. Sent(r)' = 0
        BY <2>2, <2>4 DEF Sent
      <3>2. Sent(r) = 0
        BY <2>1, <2>4 DEF Sent
      <3>3. QED  BY <3>1, <3>2, <2>2, <2>4
    <2>5. QED  BY <2>3, <2>4
  <1>3. CASE r # cur
    <2>1. outcome'[r] = outcome[r] /\ outcome[r] # "open"
      BY <1>3 DEF Return, Basic, CurInv, TypeOK
    <2>2. Sent(r)' = Sent(r)
      BY <2>1 DEF Sent
    <2>3. QED  BY <2>1, <2>2, SentType DEF Basic
  <1>4. QED  BY <1>2, <1>3

\* connect() moving on, or ensure_connected() finding the link usable.
LEMMA ControlStep ==
    ASSUME Basic, Basic', Msgs, pc # "await", pc' # "await",
           inbox' = inbox, wire' = wire, executed' = executed,
           try' = try, outcome' = outcome
    PROVE  Msgs'
  <1>1. \A r \in Requests : Sent(r)' = Sent(r)
    BY DEF Sent
  <1>2. \A r \in Requests : Sent(r) <= Sent(r)'
    BY <1>1, SentType DEF Basic
  <1>3. Shrinks
    BY SubsetShrinks DEF Msgs
  <1>4. QED  BY <1>2, <1>3, Quiet, OkExecuted, QuietStep

LEMMA NotReachedStep ==
    ASSUME Basic, Basic', Msgs, pc # "await", executed' = executed, NotReached
    PROVE  Msgs'
  <1>1. Shrinks /\ wire' = {} /\ \A m \in inbox' : ~m.open
    <2>1. CASE try = 2
      BY <2>1, DropShrinks DEF NotReached, Basic, Msgs
    <2>2. CASE try # 2
      <3>1. inbox' = inbox /\ wire' = wire
        BY <2>2 DEF NotReached
      <3>2. QED  BY <3>1, SubsetShrinks, Quiet DEF Msgs
    <2>3. QED  BY <2>1, <2>2
  <1>2. /\ \A r \in Requests : Sent(r) <= Sent(r)'
        /\ \A r \in Requests : outcome'[r] = "ok" => outcome[r] = "ok"
    <2>1. CASE try = 1
      BY <2>1, ReturnSent DEF NotReached
    <2>2. CASE try # 1
      BY <2>2, ReturnSent DEF NotReached
    <2>3. QED  BY <2>1, <2>2
  <1>3. QED  BY <1>1, <1>2, OkExecuted, QuietStep

LEMMA ReachedStep ==
    ASSUME Basic, Basic', Msgs, pc # "await", inbox' = inbox, wire' = wire,
           executed' = executed, Reached
    PROVE  Msgs'
  <1>1. try' = try /\ outcome' = outcome /\ pc' # "await"
    BY DEF Reached, Return, Basic, CurInv
  <1>2. QED  BY <1>1, ControlStep

LEMMA NullResultStep ==
    ASSUME Basic, Basic', Msgs, pc \in {"send", "await"}, NullResult
    PROVE  Msgs'
  <1>1. Shrinks /\ wire' = {} /\ \A m \in inbox' : ~m.open
    BY DropShrinks DEF NullResult, Basic, Msgs
  <1>2. executed' = executed
    BY DEF NullResult
  <1>3. /\ \A r \in Requests : Sent(r) <= Sent(r)'
        /\ \A r \in Requests : outcome'[r] = "ok" => outcome[r] = "ok"
    <2>1. CASE try = 1
      <3>1. try' = 2 /\ pc' = "ensure" /\ outcome' = outcome
        BY <2>1 DEF NullResult
      <3>2. \A r \in Requests : Sent(r) <= Sent(r)'
        BY <2>1, <3>1 DEF Sent
      <3>3. QED  BY <3>1, <3>2
    <2>2. CASE try # 1
      BY <2>2, ReturnSent DEF NullResult
    <2>3. QED  BY <2>1, <2>2
  <1>4. QED  BY <1>1, <1>2, <1>3, OkExecuted, QuietStep

LEMMA CallStep ==
    ASSUME Basic, Basic', Msgs, NEW q \in Requests, Call(q)
    PROVE  Msgs'
  <1>1. /\ inbox' = inbox /\ wire' = wire /\ executed' = executed /\ pc = "idle"
        /\ try' = 1 /\ pc' = "ensure" /\ outcome[q] = "new"
        /\ outcome' = [outcome EXCEPT ![q] = "open"]
    BY DEF Call, engine
  <1>2. ASSUME NEW r \in Requests
        PROVE  Sent(r) <= Sent(r)' /\ (outcome'[r] = "ok" => outcome[r] = "ok")
    <2>1. CASE r = q
      <3>1. outcome'[r] = "open"
        BY <1>1, <2>1 DEF Basic, TypeOK
      <3>2. Sent(r) = 0 /\ Sent(r)' = 0
        BY <1>1, <2>1, <3>1 DEF Sent
      <3>3. QED  BY <3>1, <3>2
    <2>2. CASE r # q
      <3>1. outcome'[r] = outcome[r] /\ outcome[r] # "open"
        BY <1>1, <2>2, RcAssumption DEF Basic, CurInv, TypeOK
      <3>2. Sent(r)' = Sent(r)
        BY <3>1 DEF Sent
      <3>3. QED  BY <3>1, <3>2, SentType DEF Basic
    <2>3. QED  BY <2>1, <2>2
  <1>3. Shrinks
    BY <1>1, SubsetShrinks DEF Msgs
  <1>4. QED  BY <1>1, <1>2, <1>3, Quiet, OkExecuted, QuietStep

LEMMA RejectVerbStep ==
    ASSUME Basic, Basic', Msgs, RejectVerb
    PROVE  Msgs'
  <1>1. /\ inbox' = inbox /\ wire' = wire /\ executed' = executed
        /\ pc = "send" /\ Return("badVerb") /\ try = 1
    BY DEF RejectVerb, engine, Basic, CurInv
  <1>2. /\ \A r \in Requests : Sent(r) <= Sent(r)'
        /\ \A r \in Requests : outcome'[r] = "ok" => outcome[r] = "ok"
    BY <1>1, ReturnSent
  <1>3. Shrinks
    BY <1>1, SubsetShrinks DEF Msgs
  <1>4. QED  BY <1>1, <1>2, <1>3, Quiet, OkExecuted, QuietStep

LEMMA ServerStep ==
    ASSUME Basic, Basic', Msgs, NEW p, NEW old, NEW new, ServerChanges(p, old, new)
    PROVE  Msgs'
  <1>1. /\ inbox' \subseteq inbox /\ wire' = wire /\ executed' = executed
        /\ pc' = pc /\ cur' = cur /\ try' = try /\ outcome' = outcome
    BY DEF ServerChanges
  <1>2. \A r \in Requests : Sent(r)' = Sent(r)
    BY <1>1 DEF Sent
  <1>3. Shrinks
    BY <1>1, SubsetShrinks DEF Msgs
  <1>4. CountInv'
    <2>1. \A r \in Requests : Sent(r) <= Sent(r)'
      BY <1>2, SentType DEF Basic
    <2>2. QED  BY <1>1, <1>3, <2>1, CountFrame, OkExecuted DEF Basic, Msgs
  <1>5. InboxInv'
    <2>1. ASSUME NEW m \in inbox'  PROVE m.try <= Sent(m.req)'
      BY <1>1, <1>2 DEF Msgs, InboxInv, Basic, TypeOK, Messages
    <2>2. QED  BY <1>1, <2>1 DEF Msgs, InboxInv
  <1>6. WireInv'
    BY <1>1 DEF Msgs, WireInv
  <1>7. QED  BY <1>4, <1>5, <1>6 DEF Msgs

LEMMA HandleStep ==
    ASSUME Basic, Basic', Msgs, NEW h \in inbox, NEW code \in {"ok", "httpError"},
           Handle(h, code)
    PROVE  Msgs'
  <1>1. /\ inbox' = inbox \ {h}
        /\ pc' = pc /\ cur' = cur /\ try' = try /\ outcome' = outcome
        /\ h \in Messages
    BY DEF Handle, Basic, TypeOK
  <1>2. \A r \in Requests : Sent(r)' = Sent(r)
    BY <1>1 DEF Sent
  <1>3. InboxInv'
    <2>1. ASSUME NEW m \in inbox'  PROVE m.try <= Sent(m.req)'
      BY <1>1, <1>2 DEF Msgs, InboxInv, Basic, TypeOK, Messages
    <2>2. QED  BY <1>1, <2>1 DEF Msgs, InboxInv
  <1>4. \A r \in Requests : executed'[r] \in {executed[r], executed[r] + 1}
                            /\ (executed'[r] # executed[r] => r = h.req)
    BY <1>1 DEF Handle, Basic, TypeOK, Messages
  <1>5. CountInv'
    <2>1. SUFFICES ASSUME NEW r \in Requests
                   PROVE  /\ executed'[r] + InFlight(r, 1)' + InFlight(r, 2)' <= Sent(r)'
                          /\ outcome'[r] = "ok" => executed'[r] >= 1
      BY DEF CountInv
    <2>2. /\ executed[r] + InFlight(r, 1) + InFlight(r, 2) <= Sent(r)
          /\ outcome[r] = "ok" => executed[r] >= 1
      BY DEF Msgs, CountInv
    <2>3. /\ executed[r] \in Nat /\ executed'[r] \in Nat
          /\ InFlight(r, 1) \in 0..1 /\ InFlight(r, 2) \in 0..1
          /\ Sent(r) \in 0..2 /\ Sent(r)' = Sent(r)
      BY <1>2, SentType, InFlightType DEF Basic, TypeOK
    <2>4. ASSUME NEW t  PROVE InFlight(r, t)' \in 0..1 /\ InFlight(r, t)' <= InFlight(r, t)
      BY <1>1 DEF InFlight
    <2>5. CASE r = h.req
      <3>1. InFlight(r, h.try) = 1
        BY <2>5 DEF InFlight
      <3>2. InFlight(r, h.try)' = 0
        BY <1>1, <2>5 DEF InFlight, Msgs, InboxInv
      <3>3. h.try = 1 \/ h.try = 2
        BY <1>1 DEF Messages
      <3>4. InFlight(r, 1)' + InFlight(r, 2)' < InFlight(r, 1) + InFlight(r, 2)
        <4>1. CASE h.try = 1
          BY <3>1, <3>2, <4>1, <2>3, <2>4
        <4>2. CASE h.try = 2
          BY <3>1, <3>2, <4>2, <2>3, <2>4
        <4>3. QED  BY <3>3, <4>1, <4>2
      <3>5. QED
        BY <1>1, <1>4, <2>2, <2>3, <2>4, <3>4
    <2>6. CASE r # h.req
      BY <1>1, <1>4, <2>2, <2>3, <2>4, <2>6
    <2>7. QED  BY <2>5, <2>6
  <1>6. WireInv'
    <2>1. CASE h.open
      <3>1. pc = "await" /\ h.req = cur /\ wire = {}
        BY <2>1 DEF Msgs, InboxInv, WireInv
      <3>2. wire' = {[req |-> cur, code |-> code]}
        BY <2>1, <3>1 DEF Handle
      <3>3. \A m \in inbox' : ~m.open
        BY <1>1, <2>1 DEF Msgs, InboxInv
      <3>4. code = "ok" => executed'[cur] >= 1
        BY <1>1, <3>1 DEF Handle, Basic, TypeOK, Messages
      <3>5. QED  BY <1>1, <3>1, <3>2, <3>3, <3>4 DEF WireInv
    <2>2. CASE ~h.open
      <3>1. wire' = wire
        BY <2>2 DEF Handle
      <3>2. ASSUME NEW a \in wire, a.code = "ok"  PROVE executed'[cur] >= 1
        <4>1. executed[cur] >= 1 /\ cur \in Requests
          BY <3>2 DEF Msgs, WireInv, Basic, TypeOK, Replies
        <4>2. QED  BY <4>1, <1>4 DEF Basic, TypeOK
      <3>3. QED  BY <1>1, <3>1, <3>2 DEF Msgs, WireInv
    <2>3. QED  BY <2>1, <2>2
  <1>7. QED  BY <1>3, <1>5, <1>6 DEF Msgs

LEMMA SendStep ==
    ASSUME Basic, Basic', Msgs, Send
    PROVE  Msgs'
  <1> DEFINE sent == [req |-> cur, try |-> try, port |-> active_port, open |-> TRUE]
  <1>1. /\ inbox' = inbox \cup {sent} /\ wire' = wire /\ executed' = executed
        /\ pc = "send" /\ pc' = "await" /\ cur' = cur /\ try' = try
        /\ outcome' = outcome
    BY DEF Send
  <1>2. cur \in Requests /\ outcome[cur] = "open" /\ try \in 1..2
    BY <1>1 DEF Basic, TypeOK, CurInv
  <1>3. sent.req = cur /\ sent.try = try /\ sent.open
    OBVIOUS
  <1> HIDE DEF sent
  <1>4. \A r \in Requests : r = cur => Sent(r) = try - 1 /\ Sent(r)' = try
    BY <1>1, <1>2 DEF Sent
  <1>5. \A r \in Requests : r # cur => Sent(r)' = Sent(r)
    BY <1>1 DEF Sent, Basic, CurInv
  <1>6. wire = {} /\ \A m \in inbox : ~m.open
    BY <1>1, Quiet
  <1>7. \A m \in inbox : m.req = cur => m.try < try
    <2>1. ASSUME NEW m \in inbox, m.req = cur  PROVE m.try < try
      <3>1. m.try <= try - 1 /\ m.try \in 1..2
        BY <1>2, <1>4, <2>1 DEF Msgs, InboxInv, Basic, TypeOK, Messages
      <3>2. QED  BY <1>2, <3>1
    <2>2. QED  BY <2>1
  <1>8. InboxInv'
    <2>1. ASSUME NEW m \in inbox'  PROVE m.try <= Sent(m.req)'
      <3>1. CASE m = sent
        BY <1>2, <1>3, <1>4, <3>1
      <3>2. CASE m \in inbox
        <4>1. m.req \in Requests /\ m.try \in 1..2 /\ m.try <= Sent(m.req)
          BY <3>2 DEF Msgs, InboxInv, Basic, TypeOK, Messages
        <4>2. CASE m.req = cur
          BY <1>2, <1>4, <1>7, <3>2, <4>1, <4>2
        <4>3. CASE m.req # cur
          BY <1>5, <4>1, <4>3
        <4>4. QED  BY <4>2, <4>3
      <3>3. QED  BY <1>1, <3>1, <3>2
    <2>2. \A m \in inbox' : m.open => pc' = "await" /\ m.req = cur' /\ m.try = try'
      BY <1>1, <1>3, <1>6
    <2>3. \A m, n \in inbox' : m.req = n.req /\ m.try = n.try => m = n
      <3>1. \A m \in inbox : ~(m.req = cur /\ m.try = try)
        BY <1>2, <1>7 DEF Basic, TypeOK, Messages
      <3>2. QED  BY <1>1, <1>3, <3>1 DEF Msgs, InboxInv
    <2>4. QED  BY <2>1, <2>2, <2>3 DEF InboxInv
  <1>9. WireInv'
    BY <1>1, <1>6 DEF WireInv
  <1>10. CountInv'
    <2>1. SUFFICES ASSUME NEW r \in Requests
                   PROVE  /\ executed'[r] + InFlight(r, 1)' + InFlight(r, 2)' <= Sent(r)'
                          /\ outcome'[r] = "ok" => executed'[r] >= 1
      BY DEF CountInv
    <2>2. /\ executed[r] + InFlight(r, 1) + InFlight(r, 2) <= Sent(r)
          /\ outcome[r] = "ok" => executed[r] >= 1
      BY DEF Msgs, CountInv
    <2>3. /\ executed[r] \in Nat
          /\ InFlight(r, 1) \in 0..1 /\ InFlight(r, 2) \in 0..1
          /\ Sent(r) \in 0..2
      BY SentType, InFlightType DEF Basic, TypeOK
    <2>4. CASE r # cur
      <3>1. ASSUME NEW t  PROVE InFlight(r, t)' = InFlight(r, t)
        BY <1>1, <1>3, <2>4 DEF InFlight
      <3>2. InFlight(r, 1)' = InFlight(r, 1) /\ InFlight(r, 2)' = InFlight(r, 2)
        BY <3>1
      <3>3. QED  BY <1>1, <1>5, <2>2, <2>4, <3>2
    <2>5. CASE r = cur
      <3>1. ASSUME NEW t, t # try  PROVE InFlight(r, t)' = InFlight(r, t)
        BY <1>1, <1>3, <2>5, <3>1 DEF InFlight
      <3>2. ASSUME NEW t, t = try  PROVE InFlight(r, t)' = 1 /\ InFlight(r, t) = 0
        <4>1. \A m \in inbox : ~(m.req = cur /\ m.try = try)
          BY <1>2, <1>7 DEF Basic, TypeOK, Messages
        <4>2. \E m \in inbox' : m.req = r /\ m.try = t
          BY <1>1, <1>3, <2>5, <3>2
        <4>3. QED  BY <1>1, <3>2, <4>1, <4>2, <2>5 DEF InFlight
      <3>3. InFlight(r, 1)' + InFlight(r, 2)' = InFlight(r, 1) + InFlight(r, 2) + 1
        <4>1. CASE try = 1
          <5>1. InFlight(r, 2)' = InFlight(r, 2)  BY <3>1, <4>1
          <5>2. InFlight(r, 1)' = 1 /\ InFlight(r, 1) = 0  BY <3>2, <4>1
          <5>3. QED  BY <5>1, <5>2, <2>3
        <4>2. CASE try = 2
          <5>1. InFlight(r, 1)' = InFlight(r, 1)  BY <3>1, <4>2
          <5>2. InFlight(r, 2)' = 1 /\ InFlight(r, 2) = 0  BY <3>2, <4>2
          <5>3. QED  BY <5>1, <5>2, <2>3
        <4>3. QED  BY <1>2, <4>1, <4>2
      <3>4. InFlight(r, 1)' \in 0..1 /\ InFlight(r, 2)' \in 0..1
        BY DEF InFlight
      <3>5. QED
        BY <1>1, <1>2, <1>4, <2>2, <2>3, <2>5, <3>3, <3>4
    <2>6. QED  BY <2>4, <2>5
  <1>11. QED  BY <1>8, <1>9, <1>10 DEF Msgs

LEMMA ReceiveStep ==
    ASSUME Basic, Basic', Msgs, Receive
    PROVE  Msgs'
  <1>1. PICK reply \in wire : wire' = wire \ {reply} /\ Return(reply.code)
    BY DEF Receive
  <1>2. /\ reply.req = cur /\ wire' = {} /\ \A m \in inbox : ~m.open
        /\ reply.code = "ok" => executed[cur] >= 1
    BY <1>1 DEF Msgs, WireInv
  <1>3. /\ inbox' = inbox /\ executed' = executed /\ pc = "await"
    BY DEF Receive
  <1>4. cur \in Requests /\ reply.code \in {"ok", "httpError"}
    BY <1>2 DEF Basic, TypeOK, Replies
  <1>5. ASSUME NEW r \in Requests
        PROVE  /\ Sent(r) <= Sent(r)'
               /\ outcome'[r] = "ok" => executed[r] >= 1
    <2>1. CASE r = cur
      <3>1. outcome'[r] = reply.code
        <4>1. outcome' = [outcome EXCEPT ![cur] = reply.code]
          BY <1>1, <1>4, RcAssumption DEF Return
        <4>2. QED  BY <2>1, <4>1 DEF Basic, TypeOK
      <3>2. Sent(r)' = 2
        BY <1>4, <3>1 DEF Sent
      <3>3. QED  BY <1>2, <2>1, <3>1, <3>2, SentType DEF Basic
    <2>2. CASE r # cur
      <3>1. outcome'[r] = outcome[r] /\ outcome[r] # "open"
        BY <1>1, <2>2 DEF Return, Basic, CurInv, TypeOK
      <3>2. Sent(r)' = Sent(r)
        BY <3>1 DEF Sent
      <3>3. QED  BY <3>1, <3>2, SentType DEF Basic, Msgs, CountInv
    <2>3. QED  BY <2>1, <2>2
  <1>6. Shrinks
    BY <1>3, SubsetShrinks DEF Msgs
  <1>7. QED  BY <1>2, <1>3, <1>5, <1>6, QuietStep

-----------------------------------------------------------------------------
(* The inductive invariant.                                                *)

LEMMA InitMsgs ==
    ASSUME Init
    PROVE  Msgs
  <1>1. inbox = {} /\ wire = {}
    BY DEF Init
  <1>2. ASSUME NEW r \in Requests
        PROVE  /\ executed[r] + InFlight(r, 1) + InFlight(r, 2) <= Sent(r)
               /\ outcome[r] # "ok"
    <2>1. InFlight(r, 1) = 0 /\ InFlight(r, 2) = 0
      BY <1>1 DEF InFlight
    <2>2. executed[r] = 0 /\ outcome[r] = "new"
      BY DEF Init
    <2>3. Sent(r) = 0
      BY <2>2 DEF Sent
    <2>4. QED  BY <2>1, <2>2, <2>3
  <1>3. QED  BY <1>1, <1>2 DEF Msgs, InboxInv, WireInv, CountInv

LEMMA MsgsStep ==
    ASSUME Basic, Basic', Msgs, [Next]_vars
    PROVE  Msgs'
  <1>1. CASE Editor
    BY <1>1, ServerStep, HandleStep
       DEF Editor, EngineStarts, EngineHangs, EngineResumes, EngineStops
  <1>2. CASE ThrottleElapses \/ UNCHANGED vars
    <2>1. /\ inbox' = inbox /\ wire' = wire /\ executed' = executed
          /\ pc' = pc /\ cur' = cur /\ try' = try /\ outcome' = outcome
      BY <1>2 DEF ThrottleElapses, engine, vars
    <2>2. InboxInv' /\ WireInv'
      BY <2>1 DEF Msgs, InboxInv, WireInv, Sent
    <2>3. CountInv'
      BY <2>1 DEF Msgs, CountInv, InFlight, Sent
    <2>4. QED  BY <2>2, <2>3 DEF Msgs
  <1>3. CASE CallEnsure
    BY <1>3, ControlStep DEF CallEnsure, engine
  <1>4. ASSUME NEW r \in Requests, Call(r)  PROVE Msgs'
    BY <1>4, CallStep
  <1>5. CASE Boot \/ EnsureConnects
    BY <1>5, ControlStep DEF Boot, EnsureConnects, BeginConnect, engine
  <1>6. CASE EnsureUsable
    BY <1>6, ReachedStep DEF EnsureUsable, engine
  <1>7. CASE ProbeAnswered
    BY <1>7, ReachedStep DEF ProbeAnswered, engine
  <1>8. CASE EnsureThrottled
    BY <1>8, NotReachedStep DEF EnsureThrottled
  <1>9. CASE ProbeUnanswered
    <2>1. pc = "probe" /\ executed' = executed
      BY <1>9 DEF ProbeUnanswered
    <2>2. CASE NotReached
      BY <2>1, <2>2, NotReachedStep
    <2>3. CASE UNCHANGED <<inbox, wire, pc, try, outcome>>
      BY <2>1, <2>3, ControlStep
    <2>4. QED  BY <1>9, <2>2, <2>3 DEF ProbeUnanswered
  <1>10. CASE RejectVerb  BY <1>10, RejectVerbStep
  <1>11. CASE Send  BY <1>11, SendStep
  <1>12. CASE SendRefused \/ ReplyLost
    BY <1>12, NullResultStep DEF SendRefused, ReplyLost
  <1>13. CASE Receive  BY <1>13, ReceiveStep
  <1>14. QED
    BY <1>1, <1>2, <1>3, <1>4, <1>5, <1>6, <1>7, <1>8, <1>9, <1>10, <1>11,
       <1>12, <1>13 DEF Next, ClientStep

THEOREM Invariance == Spec => [](Basic /\ Msgs)
  <1>1. Init => Basic /\ Msgs
    BY InitBasic, InitMsgs DEF Basic
  <1>2. Basic /\ Msgs /\ [Next]_vars => (Basic /\ Msgs)'
    <2>1. Basic /\ [Next]_vars => Basic'
      BY TypeStep, CurStep, LinkStep DEF Basic
    <2>2. QED  BY <2>1, MsgsStep
  <1>3. QED  BY <1>1, <1>2, PTL DEF Spec

-----------------------------------------------------------------------------
(* What follows for the callers.                                           *)

\* The retry executes a request a second time at most, whatever arrives late.
THEOREM ExecutedAtMostTwice == Spec => []AtMostTwice
  <1>1. ASSUME Basic, Msgs  PROVE AtMostTwice
    <2>1. SUFFICES ASSUME NEW r \in Requests
                   PROVE  executed[r] + InFlight(r, 1) + InFlight(r, 2) <= 2
      BY DEF AtMostTwice
    <2>2. executed[r] + InFlight(r, 1) + InFlight(r, 2) <= Sent(r)
      BY <1>1 DEF Msgs, CountInv
    <2>3. /\ executed[r] \in Nat
          /\ InFlight(r, 1) \in 0..1 /\ InFlight(r, 2) \in 0..1
          /\ Sent(r) \in 0..2
      BY <1>1, SentType, InFlightType DEF Basic, TypeOK
    <2>4. QED  BY <2>2, <2>3
  <1>2. QED  BY <1>1, Invariance, PTL

LEMMA UnsentIsUnexecuted ==
    ASSUME Basic, Msgs, NEW r \in Requests, Sent(r) = 0
    PROVE  executed[r] = 0 /\ ~Pending(r)
  <1>1. /\ executed[r] + InFlight(r, 1) + InFlight(r, 2) <= 0
        /\ executed[r] \in Nat
        /\ InFlight(r, 1) \in 0..1 /\ InFlight(r, 2) \in 0..1
    BY InFlightType DEF Basic, Msgs, CountInv, TypeOK
  <1>2. executed[r] = 0 /\ InFlight(r, 1) = 0 /\ InFlight(r, 2) = 0
    BY <1>1
  <1>3. ASSUME NEW m \in inbox, m.req = r  PROVE FALSE
    <2>1. m.try \in 1..2 /\ InFlight(r, m.try) = 1
      BY <1>3 DEF InFlight, Basic, TypeOK, Messages
    <2>2. m.try = 1 \/ m.try = 2
      BY <2>1
    <2>3. QED  BY <1>2, <2>1, <2>2
  <1>4. QED  BY <1>2, <1>3 DEF Pending

\* An answer is true: success was executed, a refusal never is.
THEOREM OutcomesAreHonest == Spec => []HonestOutcome
  <1>1. ASSUME Basic, Msgs  PROVE HonestOutcome
    <2>1. ASSUME NEW r \in Requests, outcome[r] = "ok"
          PROVE  executed[r] >= 1
      BY <1>1, <2>1 DEF Msgs, CountInv
    <2>2. ASSUME NEW r \in Requests, outcome[r] \in {"new", "notConnected", "badVerb"}
          PROVE  executed[r] = 0 /\ ~Pending(r)
      <3>1. Sent(r) = 0
        BY <2>2 DEF Sent
      <3>2. QED  BY <1>1, <3>1, UnsentIsUnexecuted
    <2>3. QED  BY <2>1, <2>2 DEF HonestOutcome
  <1>2. QED  BY <1>1, Invariance, PTL

\* Whatever can be read from the socket answers the request being waited for.
THEOREM RepliesMatch == Spec => []ReplyMatches
  <1>1. Msgs => ReplyMatches
    BY DEF Msgs, WireInv, ReplyMatches
  <1>2. QED  BY <1>1, Invariance, PTL

\* generation() moves exactly when a connection comes into being.
THEOREM GenerationIsExact == Spec => GenerationCounts
  <1> DEFINE Counts == /\ generation' \in {generation, generation + 1}
                       /\ generation' # generation <=> ~connected /\ connected'
  <1>1. ASSUME Basic, [Next]_vars
        PROVE  [Counts]_<<generation, connected>>
    <2>1. CASE UNCHANGED <<generation, connected>>
      BY <2>1
    <2>2. CASE ProbeAnswered
      <3>1. generation' = generation + 1 /\ generation \in Nat
        BY <2>2, <1>1 DEF ProbeAnswered, Basic, TypeOK
      <3>2. ~connected /\ connected'
        BY <2>2, <1>1 DEF ProbeAnswered, Basic, LinkInv
      <3>3. generation' # generation
        BY <3>1
      <3>4. QED  BY <3>1, <3>2, <3>3
    <2>3. ASSUME generation' = generation, ~connected'  PROVE Counts
      BY <2>3
    <2>4. CASE EnsureThrottled \/ ProbeUnanswered
      <3>1. CASE NotReached
        BY <2>3, <3>1 DEF NotReached, DropConnection
      <3>2. CASE UNCHANGED link
        BY <2>1, <3>2 DEF link
      <3>3. QED  BY <2>4, <3>1, <3>2 DEF EnsureThrottled, ProbeUnanswered
    <2>5. CASE SendRefused \/ ReplyLost
      BY <2>3, <2>5 DEF SendRefused, ReplyLost, NullResult, DropConnection
    <2>6. CASE Editor
      BY <2>1, <2>6
         DEF Editor, EngineStarts, EngineHangs, EngineResumes, EngineStops,
             ServerChanges, Handle, link
    <2>7. CASE ThrottleElapses \/ CallEnsure \/ UNCHANGED vars
      BY <2>1, <2>7 DEF ThrottleElapses, CallEnsure, vars, link
    <2>8. ASSUME NEW r \in Requests, Call(r)  PROVE [Counts]_<<generation, connected>>
      BY <2>1, <2>8 DEF Call, link
    <2>9. CASE Boot \/ EnsureConnects \/ EnsureUsable
      BY <2>1, <2>9 DEF Boot, EnsureConnects, EnsureUsable, BeginConnect, link
    <2>10. CASE RejectVerb \/ Send \/ Receive
      BY <2>1, <2>10 DEF RejectVerb, Send, Receive, link
    <2>11. QED
      BY <1>1, <2>2, <2>4, <2>5, <2>6, <2>7, <2>8, <2>9, <2>10
         DEF Next, ClientStep
  <1>2. QED  BY <1>1, Invariance, PTL DEF Spec, GenerationCounts

-----------------------------------------------------------------------------
(* The client keeps the promise of request().                              *)

LEMMA ReturnRefines ==
    ASSUME Basic, Msgs, NEW o \in Outcomes, Return(o), cur \in Requests,
           executed' = executed,
           o \in {"notConnected", "badVerb"} => try = 1 /\ pc # "await",
           o = "ok" => executed[cur] >= 1
    PROVE  Promise!Next
  <1>1. outcome[cur] = "open"
    BY DEF Basic, CurInv
  <1>2. o \in {"notConnected", "badVerb"} => executed[cur] = 0
    <2>1. ASSUME o \in {"notConnected", "badVerb"}  PROVE executed[cur] = 0
      <3>1. Sent(cur) = 0
        BY <1>1, <2>1 DEF Sent
      <3>2. QED  BY <3>1, UnsentIsUnexecuted
    <2>2. QED  BY <2>1
  <1>3. outcome' = [outcome EXCEPT ![cur] = o]
    BY RcAssumption DEF Return
  <1>4. Promise!Return(cur, o)
    BY <1>1, <1>2, <1>3 DEF Promise!Return, Promise!Refusals
  <1>5. o \in Promise!Refusals \cup Promise!Answers
    BY DEF Promise!Refusals, Promise!Answers, Outcomes
  <1>6. QED  BY <1>4, <1>5 DEF Promise!Next

LEMMA HandleRefines ==
    ASSUME Basic, Msgs, NEW h \in inbox, NEW code \in {"ok", "httpError"},
           Handle(h, code)
    PROVE  [Promise!Next]_Promise!vars
  <1>1. CASE code # "ok"
    BY <1>1 DEF Handle, Promise!vars
  <1>2. CASE code = "ok"
    <2>1. /\ h.req \in Requests /\ h.try \in 1..2 /\ h.try <= Sent(h.req)
          /\ InFlight(h.req, h.try) = 1
      BY DEF Basic, TypeOK, Messages, Msgs, InboxInv, InFlight
    <2>2. executed[h.req] < 2
      <3>1. /\ executed[h.req] + InFlight(h.req, 1) + InFlight(h.req, 2) <= Sent(h.req)
            /\ executed[h.req] \in Nat /\ Sent(h.req) \in 0..2
            /\ InFlight(h.req, 1) \in 0..1 /\ InFlight(h.req, 2) \in 0..1
        BY <2>1, SentType, InFlightType DEF Basic, TypeOK, Msgs, CountInv
      <3>2. h.try = 1 \/ h.try = 2
        BY <2>1
      <3>3. CASE h.try = 1  BY <2>1, <3>1, <3>3
      <3>4. CASE h.try = 2  BY <2>1, <3>1, <3>4
      <3>5. QED  BY <3>2, <3>3, <3>4
    <2>3. outcome[h.req] \in {"open"} \cup Promise!Answers
      <3>1. Sent(h.req) # 0
        BY <2>1, SentType DEF Basic
      <3>2. outcome[h.req] \notin {"new", "notConnected", "badVerb"}
        BY <3>1 DEF Sent
      <3>3. QED
        BY <2>1, <3>2 DEF Basic, TypeOK, Outcomes, Promise!Answers
    <2>4. executed' = [executed EXCEPT ![h.req] = @ + 1] /\ outcome' = outcome
      BY <1>2 DEF Handle
    <2>5. Promise!Execute(h.req)
      BY <2>2, <2>3, <2>4 DEF Promise!Execute
    <2>6. QED  BY <2>1, <2>5 DEF Promise!Next
  <1>3. QED  BY <1>1, <1>2

LEMMA ReturnOrStutter ==
    ASSUME Basic, Msgs, executed' = executed, NEW o \in Outcomes, Return(o),
           o \in {"notConnected", "badVerb"} => try = 1 /\ pc # "await",
           o = "ok" => cur = NoRequest \/ executed[cur] >= 1
    PROVE  [Promise!Next]_Promise!vars
  <1>1. CASE cur = NoRequest
    BY <1>1 DEF Return, Promise!vars
  <1>2. CASE cur # NoRequest
    <2>1. cur \in Requests
      BY <1>2 DEF Basic, TypeOK
    <2>2. QED  BY <1>2, <2>1, ReturnRefines
  <1>3. QED  BY <1>1, <1>2

LEMMA ClientRefines ==
    ASSUME Basic, Msgs, ClientStep
    PROVE  [Promise!Next]_Promise!vars
  <1>1. ASSUME UNCHANGED <<outcome, executed>>
        PROVE  [Promise!Next]_Promise!vars
    BY <1>1 DEF Promise!vars
  <1>2. CASE Boot \/ EnsureConnects \/ Send
    BY <1>1, <1>2 DEF Boot, EnsureConnects, BeginConnect, Send, engine
  <1>3. CASE EnsureUsable \/ ProbeAnswered
    <2>1. executed' = executed /\ Reached
      BY <1>3 DEF EnsureUsable, ProbeAnswered, engine
    <2>2. CASE cur = NoRequest
      BY <2>1, <2>2, ReturnOrStutter DEF Reached, Outcomes
    <2>3. CASE cur # NoRequest
      BY <1>1, <2>1, <2>3 DEF Reached
    <2>4. QED  BY <2>2, <2>3
  <1>4. ASSUME NotReached, pc # "await", executed' = executed
        PROVE  [Promise!Next]_Promise!vars
    <2>1. CASE try = 1
      BY <1>4, <2>1, ReturnOrStutter DEF NotReached, Outcomes
    <2>2. CASE try # 1
      BY <1>4, <2>2, ReturnOrStutter DEF NotReached, Outcomes
    <2>3. QED  BY <2>1, <2>2
  <1>5. CASE EnsureThrottled
    BY <1>4, <1>5 DEF EnsureThrottled
  <1>6. CASE ProbeUnanswered
    <2>1. pc # "await" /\ executed' = executed
      BY <1>6 DEF ProbeUnanswered
    <2>2. CASE NotReached  BY <1>4, <2>1, <2>2
    <2>3. CASE outcome' = outcome  BY <1>1, <2>1, <2>3
    <2>4. QED  BY <1>6, <2>2, <2>3 DEF ProbeUnanswered
  <1>7. CASE RejectVerb
    BY <1>7, ReturnOrStutter DEF RejectVerb, engine, Basic, CurInv, Outcomes
  <1>8. CASE SendRefused \/ ReplyLost
    <2>1. NullResult
      BY <1>8 DEF SendRefused, ReplyLost
    <2>2. CASE try = 1
      BY <1>1, <2>1, <2>2 DEF NullResult
    <2>3. CASE try # 1
      BY <2>1, <2>3, ReturnOrStutter DEF NullResult, Outcomes
    <2>4. QED  BY <2>2, <2>3
  <1>9. CASE Receive
    <2>1. PICK reply \in wire : Return(reply.code)
      BY <1>9 DEF Receive
    <2>2. reply.code \in {"ok", "httpError"} /\ (reply.code = "ok" => executed[cur] >= 1)
      BY <2>1 DEF Msgs, WireInv, Basic, TypeOK, Replies
    <2>3. executed' = executed /\ reply.code \in Outcomes
      BY <1>9, <2>2 DEF Receive, Outcomes
    <2>4. QED  BY <2>1, <2>2, <2>3, ReturnOrStutter
  <1>10. QED
    BY <1>2, <1>3, <1>5, <1>6, <1>7, <1>8, <1>9 DEF ClientStep

\* Every behaviour of the client, the retries, drops and late executions
\* included, is a behaviour of RemoteCall.
THEOREM ClientKeepsPromise == Spec => ImplementsRemoteCall
  <1>1. Init => Promise!Init
    BY DEF Init, Promise!Init
  <1>2. ASSUME Basic, Msgs, [Next]_vars
        PROVE  [Promise!Next]_Promise!vars
    <2>1. CASE \E p \in Ports : \/ EngineStarts(p) \/ EngineHangs(p)
                               \/ EngineResumes(p) \/ EngineStops(p)
      BY <2>1 DEF EngineStarts, EngineHangs, EngineResumes, EngineStops,
                  ServerChanges, Promise!vars
    <2>2. CASE \E m \in inbox, code \in {"ok", "httpError"} : Handle(m, code)
      BY <1>2, <2>2, HandleRefines
    <2>3. CASE ThrottleElapses \/ CallEnsure \/ UNCHANGED vars
      BY <2>3 DEF ThrottleElapses, CallEnsure, engine, vars, Promise!vars
    <2>4. ASSUME NEW r \in Requests, Call(r)  PROVE Promise!Next
      BY <2>4 DEF Call, engine, Promise!Next, Promise!Issue
    <2>5. CASE ClientStep
      BY <1>2, <2>5, ClientRefines
    <2>6. QED  BY <1>2, <2>1, <2>2, <2>3, <2>4, <2>5 DEF Next, Editor
  <1>3. QED
    BY <1>1, <1>2, Invariance, PTL DEF Spec, ImplementsRemoteCall, Promise!Safety
=============================================================================
