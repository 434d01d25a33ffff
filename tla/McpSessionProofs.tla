-------------------------- MODULE McpSessionProofs --------------------------
(***************************************************************************)
(* Proofs about McpSession, for any editors, ports, tools and profiles.    *)
(***************************************************************************)
EXTENDS McpSession, TLAPS

-----------------------------------------------------------------------------
(* What a call of RcClient may do to the connection.                       *)

\* The connection stays, or moves on to a later generation; none comes into
\* being without one.
LinkMoves ==
    /\ connected' \in BOOLEAN /\ attempted_once' \in BOOLEAN
    /\ throttled' \in BOOLEAN /\ losses' \in 0..MaxLosses
    /\ active_port' \in 0..NPorts /\ generation' \in Nat
    /\ generation' = generation => active_port' = active_port
    /\ generation' >= generation
    /\ connected' => connected \/ generation' > generation

LEMMA CountedType ==
    ASSUME losses \in 0..MaxLosses, NEW up, Counted(up)
    PROVE  losses' \in 0..MaxLosses
  BY SessionAssumption DEF Counted

LEMMA UnmovedMoves ==
    ASSUME TypeOK, Unmoved
    PROVE  LinkMoves
  <1>1. /\ connected' = connected /\ attempted_once' = attempted_once
        /\ throttled' = throttled /\ losses' = losses
        /\ active_port' = active_port /\ generation' = generation
    BY DEF Unmoved, link
  <1>2. generation' >= generation
    BY <1>1 DEF TypeOK
  <1>3. QED  BY <1>1, <1>2 DEF TypeOK, LinkMoves

LEMMA ReachesMoves ==
    ASSUME TypeOK, NEW p \in Ports, NEW n \in {1, 2}, Reaches(p, n),
           connected' \in BOOLEAN, losses' \in 0..MaxLosses
    PROVE  LinkMoves /\ generation' > generation /\ active_port' = p
  <1>1. generation' \in Nat /\ generation' > generation
    BY DEF TypeOK, Reaches
  <1>2. active_port' = p /\ active_port' \in 0..NPorts
    BY SessionAssumption DEF Reaches, Ports
  <1>3. attempted_once' \in BOOLEAN /\ throttled' \in BOOLEAN
    BY DEF Reaches
  <1>4. generation' >= generation /\ generation' # generation
    BY <1>1 DEF TypeOK
  <1>5. QED  BY <1>1, <1>2, <1>3, <1>4 DEF LinkMoves

LEMMA DisconnectsMoves ==
    ASSUME TypeOK, NEW n \in {0, 1, 2}, Disconnects(n), losses' \in 0..MaxLosses
    PROVE  LinkMoves
  <1>0. connected' \in BOOLEAN /\ ~connected'
    BY DEF Disconnects
  <1>1. CASE n = 0
    <2>1. /\ attempted_once' \in BOOLEAN /\ throttled' \in BOOLEAN
      BY <1>1 DEF Disconnects
    <2>2. active_port' = active_port /\ generation' = generation
      BY <1>1 DEF Disconnects
    <2>3. generation' >= generation
      BY <2>2 DEF TypeOK
    <2>4. QED  BY <1>0, <2>1, <2>2, <2>3 DEF TypeOK, LinkMoves
  <1>2. CASE n # 0
    <2>1. PICK p \in Ports : Reaches(p, n)
      BY <1>2 DEF Disconnects
    <2>2. n \in {1, 2}
      BY <1>2
    <2>3. QED  BY <1>0, <2>1, <2>2, ReachesMoves
  <1>3. QED  BY <1>1, <1>2

\* An answer comes from an editor at the port the connection is on afterwards.
LEMMA AnsweredMoves ==
    ASSUME TypeOK, NEW e \in Engines, AnsweredBy(e),
           \A p \in Ports : srv[p] # NoEngine => Port[srv[p]] = p,
           connected => active_port \in Ports
    PROVE  LinkMoves /\ connected' = TRUE /\ active_port' = Port[e]
  <1>0. Port[e] \in Ports
    BY SessionAssumption
  <1>1. CASE connected /\ srv[active_port] = e /\ Unmoved
    <2>1. active_port \in Ports /\ e # NoEngine
      BY <1>1, SessionAssumption
    <2>2. Port[e] = active_port
      BY <1>1, <2>1
    <2>3. active_port' = active_port /\ connected' = connected
      BY <1>1 DEF Unmoved, link
    <2>4. LinkMoves
      BY <1>1, UnmovedMoves
    <2>5. connected' = TRUE
      BY <1>1, <2>3 DEF TypeOK
    <2>6. QED  BY <2>2, <2>3, <2>4, <2>5
  <1>2. ASSUME NEW n \in {1, 2}, Connects(Port[e], n), losses' \in 0..MaxLosses
        PROVE  LinkMoves /\ connected' = TRUE /\ active_port' = Port[e]
    <2>1. connected' = TRUE /\ Reaches(Port[e], n)
      BY <1>2 DEF Connects
    <2>2. connected' \in BOOLEAN
      BY <2>1
    <2>3. QED  BY <1>0, <1>2, <2>1, <2>2, ReachesMoves
  <1>3. losses \in 0..MaxLosses
    BY DEF TypeOK
  <1>4. CASE Connects(Port[e], 1) /\ Counted(srv[active_port] # NoEngine)
    BY <1>2, <1>3, <1>4, CountedType
  <1>5. CASE Connects(Port[e], 1) /\ UNCHANGED losses
    BY <1>2, <1>3, <1>5
  <1>6. CASE Connects(Port[e], 2) /\ Counted(TRUE)
    BY <1>2, <1>3, <1>6, CountedType
  <1>7. QED  BY <1>1, <1>4, <1>5, <1>6 DEF AnsweredBy

LEMMA UnansweredMoves ==
    ASSUME TypeOK, Unanswered
    PROVE  LinkMoves
  <1>1. CASE Unmoved
    BY <1>1, UnmovedMoves
  <1>2. ASSUME NEW n \in {0, 1, 2}, NEW up, Disconnects(n), Counted(up)
        PROVE  LinkMoves
    BY <1>2, DisconnectsMoves, CountedType DEF TypeOK
  <1>3. QED  BY <1>1, <1>2 DEF Unanswered

LEMMA EnsureMoves ==
    ASSUME TypeOK, EnsureConnected, connected => active_port \in Ports
    PROVE  LinkMoves /\ (connected' => active_port' \in Ports)
  <1>1. CASE Unmoved
    <2>1. connected' = connected /\ active_port' = active_port
      BY <1>1 DEF Unmoved, link
    <2>2. QED  BY <1>1, <2>1, UnmovedMoves
  <1>2. ASSUME NEW p \in Ports, Connects(p, 1), UNCHANGED losses
        PROVE  LinkMoves /\ active_port' \in Ports
    <2>1. connected' \in BOOLEAN /\ Reaches(p, 1)
      BY <1>2 DEF Connects
    <2>2. losses' \in 0..MaxLosses
      BY <1>2 DEF TypeOK
    <2>3. QED  BY <2>1, <2>2, ReachesMoves
  <1>3. CASE Disconnects(0) /\ Counted(AnyoneUp)
    <2>1. ~connected'
      BY <1>3 DEF Disconnects
    <2>2. QED  BY <1>3, <2>1, DisconnectsMoves, CountedType DEF TypeOK
  <1>4. QED  BY <1>1, <1>2, <1>3 DEF EnsureConnected

-----------------------------------------------------------------------------
(* The inductive invariant.                                                *)

EnvInv ==
    /\ \A p \in Ports : srv[p] # NoEngine => Port[srv[p]] = p
    /\ connected => active_port \in Ports

\* Every answer is as old as the connection it came over, and the answers of
\* the current generation came from its port.
SeenInv ==
    /\ probed_generation <= generation
    /\ \A q \in Questions :
          Answered(q) =>
              /\ Port[seen[q].by] = seen[q].port
              /\ probed_generation <= seen[q].gen
              /\ seen[q].gen <= generation
              /\ seen[q].gen = generation => seen[q].port = active_port

Inv == TypeOK /\ EnvInv /\ SeenInv

LEMMA InitInv ==
    ASSUME Init
    PROVE  Inv
  <1>1. TypeOK
    <2>1. /\ losses \in 0..MaxLosses /\ active_port \in 0..NPorts
          /\ generation \in Nat /\ probed_generation \in Nat
      BY SessionAssumption DEF Init
    <2>2. seen \in [Questions -> Answers]
      BY SessionAssumption DEF Init, Answers, NoAnswer
    <2>3. /\ connected \in BOOLEAN /\ attempted_once \in BOOLEAN
          /\ throttled \in BOOLEAN /\ probed \in BOOLEAN
      BY DEF Init
    <2>4. /\ srv \in [Ports -> Engines \cup {NoEngine}] /\ ran \subseteq Engines
          /\ pc \in {"boot", "idle", "check", "probe", "invoke", "handle"}
          /\ asking \in Questions /\ tool \in Tools \cup {NoTool}
          /\ reply \in Replies
      BY DEF Init, Questions, Replies
    <2>5. QED  BY <2>1, <2>2, <2>3, <2>4 DEF TypeOK
  <1>2. EnvInv
    BY DEF Init, EnvInv
  <1>3. \A q \in Questions : ~Answered(q)
    BY DEF Init, Answered, NoAnswer
  <1>4. SeenInv
    BY <1>3 DEF Init, SeenInv
  <1>5. QED  BY <1>1, <1>2, <1>4 DEF Inv

\* A step that leaves the registry alone.
LEMMA SeenFrame ==
    ASSUME TypeOK, SeenInv, LinkMoves, UNCHANGED registry
    PROVE  SeenInv'
  <1>1. /\ probed_generation' = probed_generation /\ seen' = seen
        /\ generation \in Nat /\ generation' \in Nat /\ generation' >= generation
        /\ generation' = generation => active_port' = active_port
        /\ probed_generation \in Nat
    BY DEF registry, LinkMoves, TypeOK
  <1>2. ASSUME NEW q \in Questions, Answered(q)'
        PROVE  /\ Port[seen'[q].by] = seen'[q].port
               /\ probed_generation' <= seen'[q].gen
               /\ seen'[q].gen <= generation'
               /\ seen'[q].gen = generation' => seen'[q].port = active_port'
    <2>1. Answered(q)
      BY <1>1, <1>2 DEF Answered
    <2>2. /\ Port[seen[q].by] = seen[q].port
          /\ probed_generation <= seen[q].gen /\ seen[q].gen <= generation
          /\ seen[q].gen = generation => seen[q].port = active_port
      BY <2>1 DEF SeenInv
    <2>3. seen[q].gen \in Nat
      BY DEF TypeOK, Answers
    <2>4. QED  BY <1>1, <2>2, <2>3
  <1>3. probed_generation' <= generation'
    BY <1>1 DEF SeenInv
  <1>4. QED  BY <1>2, <1>3 DEF SeenInv

LEMMA StillMoves ==
    ASSUME TypeOK, UNCHANGED <<connected, active_port, generation>>,
           attempted_once' \in BOOLEAN, throttled' \in BOOLEAN,
           losses' \in 0..MaxLosses
    PROVE  LinkMoves
  <1>1. connected' = connected /\ active_port' = active_port /\ generation' = generation
    OBVIOUS
  <1>2. generation' >= generation
    BY <1>1 DEF TypeOK
  <1>3. QED  BY <1>1, <1>2 DEF TypeOK, LinkMoves

\* A step of the environment or of the server's control.
LEMMA QuietInv ==
    ASSUME Inv, UNCHANGED <<link, registry, losses>>, EnvInv',
           srv' \in [Ports -> Engines \cup {NoEngine}], ran' \subseteq Engines,
           pc' \in {"boot", "idle", "check", "probe", "invoke", "handle"},
           asking' = asking, tool' \in Tools \cup {NoTool}, reply' \in Replies
    PROVE  Inv'
  <1>1. /\ connected' = connected /\ active_port' = active_port
        /\ generation' = generation /\ attempted_once' = attempted_once
        /\ throttled' = throttled /\ losses' = losses /\ probed' = probed
        /\ probed_generation' = probed_generation /\ seen' = seen
    BY DEF link, registry
  <1>2. TypeOK'
    BY <1>1 DEF Inv, TypeOK
  <1>3. LinkMoves
    BY <1>1, StillMoves DEF Inv, TypeOK
  <1>4. SeenInv'
    BY <1>3, SeenFrame DEF Inv
  <1>5. QED  BY <1>2, <1>4 DEF Inv

\* A call of RcClient outside a probe.
LEMMA MoveInv ==
    ASSUME Inv, LinkMoves, UNCHANGED <<env, registry, asking>>,
           connected' => active_port' \in Ports,
           pc' \in {"boot", "idle", "check", "probe", "invoke", "handle"},
           tool' \in Tools \cup {NoTool}, reply' \in Replies
    PROVE  Inv'
  <1>1. /\ srv' = srv /\ ran' = ran /\ asking' = asking /\ probed' = probed
        /\ probed_generation' = probed_generation /\ seen' = seen
    BY DEF env, registry
  <1>2. TypeOK'
    BY <1>1 DEF Inv, TypeOK, LinkMoves
  <1>3. EnvInv'
    BY <1>1 DEF Inv, EnvInv
  <1>4. SeenInv'
    BY SeenFrame DEF Inv
  <1>5. QED  BY <1>2, <1>3, <1>4 DEF Inv

LEMMA BeginProbeInv ==
    ASSUME Inv, connected, BeginProbe, UNCHANGED <<env, losses, link, tool, reply>>
    PROVE  Inv'
  <1>1. /\ srv' = srv /\ ran' = ran /\ losses' = losses /\ tool' = tool
        /\ reply' = reply /\ connected' = connected /\ active_port' = active_port
        /\ generation' = generation /\ attempted_once' = attempted_once
        /\ throttled' = throttled
    BY DEF env, link
  <1>2. seen' = [q \in Questions |-> NoAnswer] /\ probed_generation' = generation
    BY DEF BeginProbe
  <1>3. TypeOK'
    <2>1. seen' \in [Questions -> Answers]
      BY <1>2, SessionAssumption DEF Answers, NoAnswer
    <2>2. probed' \in BOOLEAN
      BY DEF BeginProbe
    <2>3. probed_generation' \in Nat
      BY <1>2 DEF Inv, TypeOK
    <2>4. asking' \in Questions /\ pc' = "probe"
      BY DEF BeginProbe, Questions
    <2>5. QED  BY <1>1, <2>1, <2>2, <2>3, <2>4 DEF Inv, TypeOK
  <1>4. EnvInv'
    BY <1>1 DEF Inv, EnvInv
  <1>5. SeenInv'
    <2>1. \A q \in Questions : ~Answered(q)'
      BY <1>2 DEF Answered, NoAnswer
    <2>2. probed_generation' <= generation'
      BY <1>1, <1>2 DEF Inv, TypeOK
    <2>3. QED  BY <2>1, <2>2 DEF SeenInv
  <1>6. QED  BY <1>3, <1>4, <1>5 DEF Inv

LEMMA AskInv ==
    ASSUME Inv, Ask
    PROVE  Inv'
  <1>1. /\ srv' = srv /\ ran' = ran /\ probed' = probed /\ tool' = tool
        /\ reply' = reply /\ probed_generation' = probed_generation
    BY DEF Ask, env
  <1>2. /\ asking' \in Questions
        /\ pc' \in {"boot", "idle", "check", "probe", "invoke", "handle"}
    BY DEF Ask, Inv, TypeOK, Questions, Serve
  <1>3. CASE Unanswered /\ UNCHANGED seen
    <2>1. LinkMoves
      BY <1>3, UnansweredMoves DEF Inv
    <2>2. connected' => active_port' \in Ports
      BY <1>3 DEF Unanswered, Disconnects, Unmoved, link, Inv, EnvInv
    <2>3. TypeOK'
      BY <1>1, <1>2, <1>3, <2>1 DEF Inv, TypeOK, LinkMoves
    <2>4. EnvInv'
      BY <1>1, <2>2 DEF Inv, EnvInv
    <2>5. SeenInv'
      BY <1>1, <1>3, <2>1, SeenFrame DEF Inv, registry
    <2>6. QED  BY <2>3, <2>4, <2>5 DEF Inv
  <1>4. ASSUME NEW e \in Engines, AnsweredBy(e),
               seen' = [seen EXCEPT ![asking] =
                   [by |-> e, gen |-> generation', port |-> active_port']]
        PROVE  Inv'
    <2>1. LinkMoves /\ connected' = TRUE /\ active_port' = Port[e]
      BY <1>4, AnsweredMoves DEF Inv, EnvInv
    <2>2. Port[e] \in Ports /\ e # NoEngine
      BY SessionAssumption
    <2>3. /\ generation' \in Nat /\ active_port' \in 0..NPorts /\ generation' >= generation
          /\ generation' = generation => active_port' = active_port
      BY <2>1 DEF LinkMoves
    <2>4. TypeOK'
      <3>1. [by |-> e, gen |-> generation', port |-> active_port'] \in Answers
        BY <2>3 DEF Answers
      <3>2. seen' \in [Questions -> Answers]
        BY <1>4, <3>1 DEF Inv, TypeOK
      <3>3. QED  BY <1>1, <1>2, <2>1, <3>2 DEF Inv, TypeOK, LinkMoves
    <2>5. EnvInv'
      BY <1>1, <2>1, <2>2 DEF Inv, EnvInv
    <2>6. SeenInv'
      <3>1. probed_generation <= generation /\ probed_generation \in Nat /\ generation \in Nat
        BY DEF Inv, SeenInv, TypeOK
      <3>2. probed_generation' <= generation'
        BY <1>1, <2>3, <3>1
      <3>3. ASSUME NEW q \in Questions, Answered(q)'
            PROVE  /\ Port[seen'[q].by] = seen'[q].port
                   /\ probed_generation' <= seen'[q].gen
                   /\ seen'[q].gen <= generation'
                   /\ seen'[q].gen = generation' => seen'[q].port = active_port'
        <4>1. CASE q = asking
          <5>1. /\ seen'[q].by = e /\ seen'[q].gen = generation'
                /\ seen'[q].port = active_port'
            BY <1>4, <4>1 DEF Inv, TypeOK
          <5>2. QED  BY <2>1, <2>3, <3>2, <5>1
        <4>2. CASE q # asking
          <5>1. seen'[q] = seen[q]
            BY <1>4, <4>2 DEF Inv, TypeOK
          <5>2. Answered(q)
            BY <3>3, <5>1 DEF Answered
          <5>3. /\ Port[seen[q].by] = seen[q].port
                /\ probed_generation <= seen[q].gen /\ seen[q].gen <= generation
                /\ seen[q].gen = generation => seen[q].port = active_port
                /\ seen[q].gen \in Nat
            BY <5>2 DEF Inv, SeenInv, TypeOK, Answers
          <5>4. QED  BY <1>1, <2>3, <3>1, <5>1, <5>3
        <4>3. QED  BY <4>1, <4>2
      <3>4. QED  BY <3>2, <3>3 DEF SeenInv
    <2>7. QED  BY <2>4, <2>5, <2>6 DEF Inv
  <1>5. QED  BY <1>3, <1>4 DEF Ask

LEMMA InvStep ==
    ASSUME Inv, [Next]_vars
    PROVE  Inv'
  <1>1. ASSUME NEW e \in Engines, EngineStarts(e)  PROVE Inv'
    <2>1. Port[e] \in Ports /\ srv' = [srv EXCEPT ![Port[e]] = e]
      BY <1>1, SessionAssumption DEF EngineStarts
    <2>2. connected' = connected /\ active_port' = active_port
      BY <1>1 DEF EngineStarts, link
    <2>3. EnvInv'
      <3>1. ASSUME NEW p \in Ports, srv'[p] # NoEngine  PROVE Port[srv'[p]] = p
        BY <2>1, <3>1 DEF Inv, EnvInv, TypeOK
      <3>2. QED  BY <2>2, <3>1 DEF Inv, EnvInv
    <2>4. srv' \in [Ports -> Engines \cup {NoEngine}] /\ ran' \subseteq Engines
      BY <1>1, <2>1 DEF EngineStarts, Inv, TypeOK
    <2>5. QED  BY <1>1, <2>3, <2>4, QuietInv DEF EngineStarts, Inv, TypeOK
  <1>2. ASSUME NEW p \in Ports, EngineStops(p)  PROVE Inv'
    <2>1. connected' = connected /\ active_port' = active_port
      BY <1>2 DEF EngineStops, link
    <2>2. EnvInv'
      BY <1>2, <2>1 DEF EngineStops, Inv, EnvInv, TypeOK
    <2>3. srv' \in [Ports -> Engines \cup {NoEngine}] /\ ran' \subseteq Engines
      BY <1>2 DEF EngineStops, Inv, TypeOK
    <2>4. QED  BY <1>2, <2>2, <2>3, QuietInv DEF EngineStops, Inv, TypeOK
  <1>3. CASE ThrottleElapses
    <2>1. LinkMoves
      BY <1>3, StillMoves DEF ThrottleElapses, Inv, TypeOK
    <2>2. QED  BY <1>3, <2>1, MoveInv DEF ThrottleElapses, Inv, EnvInv, TypeOK
  <1>4. ASSUME NEW t \in Tools, ToolsCall(t)  PROVE Inv'
    <2>1. LinkMoves /\ (connected' => active_port' \in Ports)
      BY <1>4, EnsureMoves DEF ToolsCall, Inv, EnvInv
    <2>2. QED  BY <1>4, <2>1, MoveInv DEF ToolsCall, Replies
  <1>5. CASE Boot
    <2>1. CASE \E p \in Ports : Connects(p, 1) /\ UNCHANGED losses
      <3>1. PICK p \in Ports : Connects(p, 1) /\ UNCHANGED losses
        BY <2>1
      <3>2. connected' \in BOOLEAN /\ Reaches(p, 1)
        BY <3>1 DEF Connects
      <3>3. losses' \in 0..MaxLosses
        BY <3>1 DEF Inv, TypeOK
      <3>4. LinkMoves /\ active_port' \in Ports
        BY <3>2, <3>3, ReachesMoves DEF Inv
      <3>5. QED  BY <1>5, <3>4, MoveInv DEF Boot, Inv, TypeOK
    <2>2. CASE Disconnects(0) /\ Counted(AnyoneUp)
      <3>1. LinkMoves
        BY <2>2, DisconnectsMoves, CountedType DEF Inv, TypeOK
      <3>2. ~connected'
        BY <2>2 DEF Disconnects
      <3>3. QED  BY <1>5, <3>1, <3>2, MoveInv DEF Boot, Inv, TypeOK
    <2>3. QED  BY <1>5, <2>1, <2>2 DEF Boot
  <1>6. CASE EnsureProbed
    <2>1. CASE connected /\ BeginProbe
      BY <1>6, <2>1, BeginProbeInv DEF EnsureProbed
    <2>2. CASE pc' = Serve /\ UNCHANGED <<registry, asking>>
      <3>1. UNCHANGED <<env, losses, link, tool, reply>>
        BY <1>6 DEF EnsureProbed
      <3>2. EnvInv'
        BY <3>1 DEF env, link, Inv, EnvInv
      <3>3. /\ pc' \in {"idle", "invoke"} /\ srv' = srv /\ ran' = ran
        BY <2>2, <3>1 DEF Serve, env
      <3>4. QED  BY <2>2, <3>1, <3>2, <3>3, QuietInv DEF Inv, TypeOK
    <2>3. QED  BY <1>6, <2>1, <2>2 DEF EnsureProbed
  <1>7. CASE Ask  BY <1>7, AskInv
  <1>8. CASE Gate
    <2>1. UNCHANGED <<env, losses, link, registry, asking, tool>>
      BY <1>8 DEF Gate
    <2>2. pc' \in {"idle", "handle"} /\ reply' \in Replies
      BY <1>8 DEF Gate, Inv, TypeOK, Replies
    <2>3. EnvInv' /\ srv' = srv /\ ran' = ran
      BY <2>1 DEF env, link, Inv, EnvInv
    <2>4. QED  BY <2>1, <2>2, <2>3, QuietInv DEF Inv, TypeOK
  <1>9. CASE Handle
    <2>1. LinkMoves /\ (connected' => active_port' \in Ports)
      <3>1. ASSUME NEW e \in Engines, AnsweredBy(e)
            PROVE  LinkMoves /\ (connected' => active_port' \in Ports)
        <4>1. LinkMoves /\ active_port' = Port[e]
          BY <3>1, AnsweredMoves DEF Inv, EnvInv
        <4>2. Port[e] \in Ports
          BY SessionAssumption
        <4>3. QED  BY <4>1, <4>2
      <3>2. CASE Unanswered
        <4>1. LinkMoves
          BY <3>2, UnansweredMoves DEF Inv
        <4>2. connected' => active_port' \in Ports
          BY <3>2 DEF Unanswered, Disconnects, Unmoved, link, Inv, EnvInv
        <4>3. QED  BY <4>1, <4>2
      <3>3. QED  BY <1>9, <3>1, <3>2 DEF Handle
    <2>2. reply' \in Replies
      BY <1>9 DEF Handle, Replies
    <2>3. QED  BY <1>9, <2>1, <2>2, MoveInv DEF Handle, Inv, TypeOK
  <1>10. CASE UNCHANGED vars
    <2>1. EnvInv'
      BY <1>10 DEF vars, Inv, EnvInv
    <2>2. QED
      BY <1>10, <2>1, QuietInv DEF vars, link, registry, Inv, TypeOK
  <1>11. QED
    BY <1>1, <1>2, <1>3, <1>4, <1>5, <1>6, <1>7, <1>8, <1>9, <1>10
       DEF Next, ServerStep

-----------------------------------------------------------------------------
(* Theorems.                                                               *)

\* Every variable has its type, for any editors, ports, tools and profiles.
THEOREM SessionTypeCorrect == Spec => []TypeOK
  <1>1. Inv => TypeOK
    BY DEF Inv
  <1>2. QED  BY <1>1, InitInv, InvStep, PTL DEF Spec

\* What the registry believes up to date was asked over one connection, even
\* if editors share ports, calls are lost and the client reconnects mid-probe.
THEOREM ProbesUseOneConnection == Spec => []OneConnectionPerProbe
  <1>1. Inv => OneConnectionPerProbe
    <2>1. SUFFICES ASSUME Inv, UpToDate, NEW q \in Questions, Answered(q)
                   PROVE  seen[q].gen = generation
      BY DEF OneConnectionPerProbe
    <2>2. /\ generation <= seen[q].gen /\ seen[q].gen <= generation
          /\ seen[q].gen \in Nat /\ generation \in Nat
      BY <2>1 DEF Inv, SeenInv, UpToDate, TypeOK, Answers
    <2>3. QED  BY <2>2
  <1>2. QED  BY <1>1, InitInv, InvStep, PTL DEF Spec

\* If no two editors share a port, all of it was answered by one editor.
THEOREM ProbesAskOneEngine ==
    ASSUME \A d, e \in Engines : Port[d] = Port[e] => d = e
    PROVE  Spec => []OneEnginePerProbe
  <1>1. Inv => OneEnginePerProbe
    <2>1. SUFFICES ASSUME Inv, UpToDate, NEW q \in Questions, NEW r \in Questions,
                          Answered(q), Answered(r)
                   PROVE  seen[q].by = seen[r].by
      BY DEF OneEnginePerProbe
    <2>2. ASSUME NEW k \in {q, r}
          PROVE  seen[k].by \in Engines /\ Port[seen[k].by] = active_port
      <3>1. k \in Questions /\ Answered(k)
        BY <2>1
      <3>2. /\ generation <= seen[k].gen /\ seen[k].gen <= generation
            /\ seen[k].gen \in Nat /\ generation \in Nat
            /\ seen[k].gen = generation => seen[k].port = active_port
            /\ Port[seen[k].by] = seen[k].port
        BY <2>1, <3>1 DEF Inv, SeenInv, UpToDate, TypeOK, Answers
      <3>3. seen[k].gen = generation
        BY <3>2
      <3>4. seen[k].by \in Engines
        BY <2>1, <3>1 DEF Inv, TypeOK, Answers, Answered
      <3>5. QED  BY <3>2, <3>3, <3>4
    <2>3. QED  BY <2>2
  <1>2. QED  BY <1>1, InitInv, InvStep, PTL DEF Spec

\* What an editor reports of its release comes out of parse_version as that
\* release, whatever follows it.
THEOREM ReleasesAreRead ==
    ASSUME NEW text, NEW release, ReportsRelease(text, release)
    PROVE  parse_version(text) = release
  <1> DEFINE head == <<release.major, Dot, release.minor, Dot, release.patch>>
  <1>1. /\ text \in Seq(Nat) /\ Len(text) \in Nat /\ Len(text) >= 5
        /\ release \in [major : 0..(Dot - 1), minor : 0..(Dot - 1), patch : 0..(Dot - 1)]
    BY DEF ReportsRelease
  <1>2. SubSeq(text, 1, 5) = head
    BY DEF ReportsRelease
  <1>3. /\ head[1] = release.major /\ head[2] = Dot /\ head[3] = release.minor
        /\ head[4] = Dot /\ head[5] = release.patch
    OBVIOUS
  <1> HIDE DEF head
  <1>4. ASSUME NEW k \in 1..5  PROVE k \in DOMAIN text /\ text[k] = head[k]
    <2>1. SubSeq(text, 1, 5)[k] = text[k]
      BY <1>1
    <2>2. k \in 1..Len(text) /\ DOMAIN text = 1..Len(text)
      BY <1>1
    <2>3. QED  BY <1>2, <2>1, <2>2
  <1>5. /\ 1 \in DOMAIN text /\ text[1] = release.major
        /\ 2 \in DOMAIN text /\ text[2] = Dot
        /\ 3 \in DOMAIN text /\ text[3] = release.minor
        /\ 4 \in DOMAIN text /\ text[4] = Dot
        /\ 5 \in DOMAIN text /\ text[5] = release.patch
    <2>1. 1 \in 1..5 /\ 2 \in 1..5 /\ 3 \in 1..5 /\ 4 \in 1..5 /\ 5 \in 1..5
      OBVIOUS
    <2>2. QED  BY <1>3, <1>4, <2>1
  <1>6. release.major < Dot /\ release.minor < Dot /\ release.patch < Dot
    <2>1. /\ release.major \in 0..999 /\ release.minor \in 0..999
          /\ release.patch \in 0..999
      <3>1. 0..(Dot - 1) = 0..999
        BY DEF Dot
      <3>2. QED  BY <1>1, <3>1
    <2> DEFINE a == release.major
               b == release.minor
               c == release.patch
    <2>2. a \in 0..999 /\ b \in 0..999 /\ c \in 0..999
      BY <2>1
    <2> HIDE DEF a, b, c
    <2>3. a < Dot /\ b < Dot /\ c < Dot
      BY <2>2 DEF Dot
    <2>4. QED  BY <2>3 DEF a, b, c
  <1>7. /\ IsNumber(text, 1) /\ IsDot(text, 2) /\ IsNumber(text, 3)
        /\ IsDot(text, 4) /\ IsNumber(text, 5)
    BY <1>5, <1>6 DEF IsNumber, IsDot
  <1>8. parse_version(text) = [major |-> release.major, minor |-> release.minor,
                               patch |-> release.patch]
    BY <1>5, <1>7, Zenon DEF parse_version
  <1>9. QED  BY <1>1, <1>8

\* If no two editors share a port, a complete and up-to-date probe says of the
\* engine at the other end just what that engine supports.
THEOREM CapabilitiesAreCurrent ==
    ASSUME \A d, e \in Engines : Port[d] = Port[e] => d = e
    PROVE  Spec => []CapabilitiesCurrent
  <1>1. Inv => CapabilitiesCurrent
    <2>1. SUFFICES ASSUME Inv, connected, UpToDate,
                          \A q \in Questions : Answered(q),
                          srv[active_port] # NoEngine
                   PROVE  Capable = Supports(srv[active_port])
      BY DEF CapabilitiesCurrent
    <2> DEFINE e == srv[active_port]
    <2>2. e \in Engines /\ Port[e] = active_port
      BY <2>1 DEF Inv, EnvInv, TypeOK
    <2>3. ASSUME NEW q \in Questions  PROVE seen[q].by = e
      <3>1. /\ generation <= seen[q].gen /\ seen[q].gen <= generation
            /\ seen[q].gen \in Nat /\ generation \in Nat
            /\ seen[q].gen = generation => seen[q].port = active_port
            /\ Port[seen[q].by] = seen[q].port
        BY <2>1 DEF Inv, SeenInv, UpToDate, TypeOK, Answers
      <3>2. seen[q].gen = generation
        BY <3>1
      <3>3. seen[q].by \in Engines
        BY <2>1 DEF Inv, TypeOK, Answers, Answered
      <3>4. QED  BY <2>2, <3>1, <3>2, <3>3
    <2>4. /\ seen["info"].by = e /\ seen["version"].by = e /\ seen["python"].by = e
          /\ Answered("info") /\ Answered("version") /\ Answered("python")
      BY <2>1, <2>3 DEF Questions
    <2> HIDE DEF e
    <2>5. info_available = Profile[e].info
      BY <2>2, <2>4, SessionAssumption DEF info_available, By
    <2>6. routes = Profile[e].routes
      BY <2>2, <2>4, <2>5, SessionAssumption DEF routes, By
    <2>7. version = Profile[e].release
      BY <2>2, <2>4, SessionAssumption, ReleasesAreRead DEF version, By
    <2>8. python = Profile[e].python
      BY <2>2, <2>4, SessionAssumption DEF python, By
    <2>9. Capable = Supports(e)
      BY <2>5, <2>6, <2>7, <2>8 DEF Capable, Supports
    <2>10. QED  BY <2>9 DEF e
  <1>2. QED  BY <1>1, InitInv, InvStep, PTL DEF Spec

-----------------------------------------------------------------------------
(* What the version alone decides.                                         *)

\* A later engine that answers the other questions alike is never granted less
\* (infer_from_version): upgrading the editor takes no tool away.
THEOREM LaterSupportsMore ==
    ASSUME NEW i \in BOOLEAN, NEW r, NEW p \in BOOLEAN,
           NEW v \in [major : Nat, minor : Nat, patch : Nat],
           NEW w \in [major : Nat, minor : Nat, patch : Nat],
           known(v), at_least(w, v.major, v.minor)
    PROVE  infer_from_version(i, r, v, p) \subseteq infer_from_version(i, r, w, p)
  <1>1. known(w)
    BY DEF known, at_least
  <1>2. at_least(v, 4, 26) => at_least(w, 4, 26)
    BY DEF at_least
  <1>3. at_least(v, 5, 0) => at_least(w, 5, 0)
    BY DEF at_least
  <1>4. QED  BY <1>1, <1>2, <1>3, Zenon DEF infer_from_version
=============================================================================
