----------------------------- MODULE McpSession -----------------------------
(***************************************************************************)
(* One MCP session: tools/call requests served one after the other, each   *)
(* of them connecting lazily, refreshing the capabilities, gating the tool *)
(* on them and running its handler, while editors start and stop behind    *)
(* the candidate ports (McpServer::handle_tools_call, CapabilityRegistry,  *)
(* ToolRegistry::invoke, and RcClient at the granularity of one request).  *)
(*                                                                         *)
(* An editor process is an incarnation with a fixed engine profile; it     *)
(* listens on the port its version uses.  RcClient notices that an editor  *)
(* went away only when a request fails: a new one on the SAME port is      *)
(* reached over the same connection, because httplib reopens a keep-alive  *)
(* socket its peer has closed.                                             *)
(***************************************************************************)
EXTENDS CapabilityInference

CONSTANTS
    NPorts,      \* candidate ports, tried in order
    Engines,     \* editor processes, each of which runs once
    NoEngine,
    Port,        \* editor -> the port it listens on
    Profile,     \* editor -> [info, routes, version, python, release]: how it
                 \* answers a probe, and the release that it is
    Tools,       \* the tools that are called
    NoTool,      \* no call is being served: main()'s own probe
    Required,    \* tool -> the capabilities it requires
    MaxLosses    \* bound: requests lost although a server is up

Ports == 1..NPorts

\* GetEngineVersion answers "major.minor.patch-...".
ReportsRelease(text, release) ==
    /\ text \in Seq(Nat)
    /\ release \in [major : 0..(Dot - 1), minor : 0..(Dot - 1), patch : 0..(Dot - 1)]
    /\ Len(text) >= 5
    /\ SubSeq(text, 1, 5) = <<release.major, Dot, release.minor, Dot, release.patch>>

ASSUME SessionAssumption ==
    /\ NPorts \in Nat \ {0}
    /\ NoEngine \notin Engines
    /\ Port \in [Engines -> Ports]
    /\ \A e \in Engines : /\ Profile[e].info \in BOOLEAN
                          /\ Profile[e].python \in BOOLEAN
                          /\ ~Profile[e].info => Profile[e].routes = {}
                          /\ ReportsRelease(Profile[e].version, Profile[e].release)
    /\ NoTool \notin Tools
    /\ Required \in [Tools -> SUBSET Capabilities]
    /\ MaxLosses \in Nat

Questions == {"info", "version", "python"}

VARIABLES
    srv,         \* port -> the editor listening there, or NoEngine
    ran,         \* the editors that have been started
    losses,      \* number of losses so far (bounded)
    connected, active_port, generation, attempted_once, throttled,
    probed, probed_generation,
    seen,        \* question -> who answered it, over which connection
    pc, asking, tool, reply

env      == <<srv, ran>>
link     == <<connected, active_port, generation, attempted_once, throttled>>
registry == <<probed, probed_generation, seen>>
vars     == <<srv, ran, losses, connected, active_port, generation,
              attempted_once, throttled, probed, probed_generation, seen, pc,
              asking, tool, reply>>

NoAnswer == [by |-> NoEngine, gen |-> 0, port |-> 0]
Answers == [by : Engines \cup {NoEngine}, gen : Nat, port : 0..NPorts]

Replies == {"none", "unreachable", "unsupported", "error", "ok"}

TypeOK ==
    /\ srv \in [Ports -> Engines \cup {NoEngine}]
    /\ ran \subseteq Engines
    /\ losses \in 0..MaxLosses
    /\ connected \in BOOLEAN
    /\ active_port \in 0..NPorts
    /\ generation \in Nat
    /\ attempted_once \in BOOLEAN
    /\ throttled \in BOOLEAN
    /\ probed \in BOOLEAN
    /\ probed_generation \in Nat
    /\ seen \in [Questions -> Answers]
    /\ pc \in {"boot", "idle", "check", "probe", "invoke", "handle"}
    /\ asking \in Questions
    /\ tool \in Tools \cup {NoTool}
    /\ reply \in Replies

Init ==
    /\ srv = [p \in Ports |-> NoEngine]
    /\ ran = {}
    /\ losses = 0
    /\ connected = FALSE
    /\ active_port = 0
    /\ generation = 0
    /\ attempted_once = FALSE
    /\ throttled = FALSE
    /\ probed = FALSE
    /\ probed_generation = 0
    /\ seen = [q \in Questions |-> NoAnswer]
    /\ pc = "boot"
    /\ asking = "info"
    /\ tool = NoTool
    /\ reply = "none"

-----------------------------------------------------------------------------
(* Editors and time.                                                       *)

EngineStarts(e) ==
    /\ e \notin ran
    /\ srv[Port[e]] = NoEngine
    /\ srv' = [srv EXCEPT ![Port[e]] = e]
    /\ ran' = ran \cup {e}
    /\ UNCHANGED <<losses, link, registry, pc, asking, tool, reply>>

EngineStops(p) ==
    /\ srv[p] # NoEngine
    /\ srv' = [srv EXCEPT ![p] = NoEngine]
    /\ UNCHANGED <<ran, losses, link, registry, pc, asking, tool, reply>>

ThrottleElapses ==
    /\ throttled
    /\ throttled' = FALSE
    /\ UNCHANGED <<env, losses, connected, active_port, generation,
                   attempted_once, registry, pc, asking, tool, reply>>

-----------------------------------------------------------------------------
(* RcClient, one call at a time.                                           *)

MayConnect == ~(attempted_once /\ throttled)

\* Mutant of Reaches: generation tells only whether there was a connection.
ReachesUncounted(p, n) ==
    /\ srv[p] # NoEngine
    /\ active_port' = p
    /\ generation' = 1
    /\ attempted_once' = TRUE
    /\ throttled' = TRUE

\* connect() is done and this was its n-th success within the call: it
\* reached p.  A port before p may be up and yet have timed out.
Reaches(p, n) ==
    /\ srv[p] # NoEngine
    /\ active_port' = p
    /\ generation' = generation + n
    /\ attempted_once' = TRUE
    /\ throttled' = TRUE

Connects(p, n) == Reaches(p, n) /\ connected' = TRUE

\* Mutant of Disconnects: active_port_ is left behind the last candidate.
DisconnectsPastEnd(n) ==
    /\ IF n = 0
       THEN /\ attempted_once' = TRUE
            /\ throttled' = TRUE
            /\ active_port' = NPorts + 1
            /\ UNCHANGED generation
       ELSE \E p \in Ports : Reaches(p, n)
    /\ connected' = FALSE

\* The call ends without a connection after n successes of connect().
Disconnects(n) ==
    /\ IF n = 0
       THEN /\ attempted_once' = TRUE
            /\ throttled' = TRUE
            /\ UNCHANGED <<active_port, generation>>
       ELSE \E p \in Ports : Reaches(p, n)
    /\ connected' = FALSE

AnyoneUp == \E p \in Ports : srv[p] # NoEngine

\* A failure that a listening server could have avoided counts as a loss.
Counted(up) ==
    /\ up => losses < MaxLosses
    /\ losses' = IF up THEN losses + 1 ELSE losses

Unmoved == UNCHANGED <<link, losses>>

\* ensure_connected().
EnsureConnected ==
    \/ connected /\ Unmoved
    \/ ~connected /\ ~MayConnect /\ Unmoved
    \/ /\ ~connected /\ MayConnect
       /\ \/ \E p \in Ports : Connects(p, 1) /\ UNCHANGED losses
          \/ Disconnects(0) /\ Counted(AnyoneUp)

\* request() is answered by e: over the connection there is, e being what
\* listens at its port NOW; over a new one, when there was none or the first
\* attempt was lost; or both.
AnsweredBy(e) ==
    \/ /\ connected /\ srv[active_port] = e
       /\ Unmoved
    \/ /\ connected /\ Connects(Port[e], 1) /\ srv[Port[e]] = e
       /\ Counted(srv[active_port] # NoEngine)
    \/ /\ ~connected /\ MayConnect /\ Connects(Port[e], 1) /\ srv[Port[e]] = e
       /\ UNCHANGED losses
    \/ /\ ~connected /\ MayConnect /\ Connects(Port[e], 2) /\ srv[Port[e]] = e
       /\ Counted(TRUE)

\* request() fails: throttled, no port answers, or the retry is lost as well.
Unanswered ==
    \/ ~connected /\ ~MayConnect /\ Unmoved
    \/ Disconnects(0) /\ (connected \/ MayConnect) /\ Counted(AnyoneUp)
    \/ Disconnects(1) /\ (connected \/ MayConnect) /\ Counted(TRUE)
    \/ Disconnects(2) /\ ~connected /\ MayConnect /\ Counted(TRUE)

-----------------------------------------------------------------------------
(* CapabilityRegistry.                                                     *)

\* probe() forgets everything and claims the connection it STARTS on.
BeginProbe ==
    /\ probed' = TRUE
    /\ probed_generation' = generation
    /\ seen' = [q \in Questions |-> NoAnswer]
    /\ asking' = "info"
    /\ pc' = "probe"

\* The answers the registry draws its conclusions from.
Answered(q) == seen[q].by # NoEngine
By(q) == Profile[seen[q].by]

info_available == Answered("info") /\ By("info").info
routes == IF info_available THEN By("info").routes ELSE {}
version == IF Answered("version") THEN parse_version(By("version").version) ELSE Unknown
python == Answered("python") /\ By("python").python

Capable == infer_from_version(info_available, routes, version, python)

has(cap) == probed /\ cap \in Capable

\* What editor e really supports, asked without disturbance.
Supports(e) ==
    infer_from_version(Profile[e].info, Profile[e].routes, Profile[e].release,
                       Profile[e].python)

-----------------------------------------------------------------------------
(* The server.                                                             *)

\* main() connects and, if it could, probes before it serves.
Boot ==
    /\ pc = "boot"
    /\ \/ /\ \E p \in Ports : Connects(p, 1)
          /\ pc' = "check"
          /\ UNCHANGED losses
       \/ /\ Disconnects(0)
          /\ Counted(AnyoneUp)
          /\ pc' = "idle"
    /\ UNCHANGED <<env, registry, asking, tool, reply>>

\* tools/call arrives; the first thing is rc_.ensure_connected().
ToolsCall(t) ==
    /\ pc = "idle"
    /\ tool' = t
    /\ reply' = "none"
    /\ EnsureConnected
    /\ pc' = "check"
    /\ UNCHANGED <<env, registry, asking>>

\* After main()'s own probe the server waits; within a call it goes on.
Serve == IF tool = NoTool THEN "idle" ELSE "invoke"

\* caps_.ensure_probed(rc_).
EnsureProbed ==
    /\ pc = "check"
    /\ IF connected /\ generation # probed_generation
       THEN BeginProbe
       ELSE pc' = Serve /\ UNCHANGED <<registry, asking>>
    /\ UNCHANGED <<env, losses, link, tool, reply>>

\* Mutant of Ask: the probe claims the connection it ENDS on.
AskThenClaim ==
    /\ pc = "probe"
    /\ \/ \E e \in Engines :
             /\ AnsweredBy(e)
             /\ seen' = [seen EXCEPT ![asking] =
                   [by |-> e, gen |-> generation', port |-> active_port']]
       \/ Unanswered /\ UNCHANGED seen
    /\ CASE asking = "info"    -> asking' = "version" /\ UNCHANGED pc
         [] asking = "version" -> asking' = "python" /\ UNCHANGED pc
         [] asking = "python"  -> pc' = Serve /\ UNCHANGED asking
    /\ probed_generation' = generation'
    /\ UNCHANGED <<env, probed, tool, reply>>

\* probe() sends its three requests in order.
Ask ==
    /\ pc = "probe"
    /\ \/ \E e \in Engines :
             /\ AnsweredBy(e)
             /\ seen' = [seen EXCEPT ![asking] =
                   [by |-> e, gen |-> generation', port |-> active_port']]
       \/ Unanswered /\ UNCHANGED seen
    /\ CASE asking = "info"    -> asking' = "version" /\ UNCHANGED pc
         [] asking = "version" -> asking' = "python" /\ UNCHANGED pc
         [] asking = "python"  -> pc' = Serve /\ UNCHANGED asking
    /\ UNCHANGED <<env, probed, probed_generation, tool, reply>>

\* invoke(): gate the tool on what is known of the engine.
Gate ==
    /\ pc = "invoke"
    /\ IF Required[tool] # {} /\ ~probed
       THEN reply' = "unreachable" /\ pc' = "idle"
       ELSE IF \E c \in Required[tool] : ~has(c)
            THEN reply' = "unsupported" /\ pc' = "idle"
            ELSE UNCHANGED reply /\ pc' = "handle"
    /\ UNCHANGED <<env, losses, link, registry, asking, tool>>

\* The handler's request: an editor that lacks the capability answers an error.
Handle ==
    /\ pc = "handle"
    /\ \/ \E e \in Engines :
             /\ AnsweredBy(e)
             /\ reply' = IF Required[tool] \subseteq Supports(e) THEN "ok" ELSE "error"
       \/ Unanswered /\ reply' = "error"
    /\ pc' = "idle"
    /\ UNCHANGED <<env, registry, asking, tool>>

-----------------------------------------------------------------------------
ServerStep == Boot \/ EnsureProbed \/ Ask \/ Gate \/ Handle

Next ==
    \/ \E e \in Engines : EngineStarts(e)
    \/ \E p \in Ports : EngineStops(p)
    \/ ThrottleElapses
    \/ \E t \in Tools : ToolsCall(t)
    \/ ServerStep

Spec == Init /\ [][Next]_vars

-----------------------------------------------------------------------------
(* Properties.                                                             *)

\* The registry believes its probe to be of the connection there is.
UpToDate == generation = probed_generation

\* What the registry believes up to date was asked over ONE connection: a
\* reconnection in the middle of a probe leaves it out of date, so that the
\* mixture of two engines' answers does not outlive the call.
OneConnectionPerProbe ==
    UpToDate => \A q \in Questions : Answered(q) => seen[q].gen = generation

\* If no two editors share a port, that is ONE editor.
OneEnginePerProbe ==
    UpToDate => \A q, r \in Questions :
                    Answered(q) /\ Answered(r) => seen[q].by = seen[r].by

\* capability_registry.hpp:49-53: ensure_probed() is called before serving a
\* tool "so capabilities reflect the engine that is actually connected right
\* now (handles late start / restart / version switch between sessions)": when
\* a complete, up-to-date probe gates a tool, what listens supports just that.
CapabilitiesCurrent ==
    /\ pc = "invoke" /\ connected /\ UpToDate
    /\ \A q \in Questions : Answered(q)
    /\ srv[active_port] # NoEngine
    => Capable = Supports(srv[active_port])
=============================================================================
