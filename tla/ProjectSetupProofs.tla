------------------------- MODULE ProjectSetupProofs -------------------------
(***************************************************************************)
(* For any projects, files that resist, and numbers of runs and edits: the *)
(* report of a run is exact, a dry run predicts the run after it, and a    *)
(* run after a successful one finds nothing to do.                         *)
(***************************************************************************)
EXTENDS ProjectSetup, TLAPS

Elements(seq) == {seq[i] : i \in DOMAIN seq}

\* The files a run with the current options is about, and those of them that
\* lacked something when it began.
Planned ==
    {".uproject"} \cup Elements(inis(parse_association(project.text)))
    \cup (IF options.write_mcp_config THEN {".mcp.json"} ELSE {})
Missing == {f \in Planned : ~(wanted(f) \subseteq before[f])}

-----------------------------------------------------------------------------
(* Sequences of files.                                                     *)

\* What two sequences hold together.
LEMMA ElementsOfConcat ==
    ASSUME NEW S, NEW s \in Seq(S), NEW t \in Seq(S)
    PROVE  s \o t \in Seq(S) /\ Elements(s \o t) = Elements(s) \cup Elements(t)
  <1>1. /\ s \o t \in Seq(S) /\ Len(s \o t) = Len(s) + Len(t)
        /\ Len(s) \in Nat /\ Len(t) \in Nat
        /\ DOMAIN (s \o t) = 1..(Len(s) + Len(t))
        /\ DOMAIN s = 1..Len(s) /\ DOMAIN t = 1..Len(t)
    OBVIOUS
  <1>2. \A i \in 1..Len(s) : (s \o t)[i] = s[i]
    OBVIOUS
  <1>3. \A i \in 1..Len(t) : (s \o t)[Len(s) + i] = t[i]
    OBVIOUS
  <1>4. ASSUME NEW x \in Elements(s \o t) PROVE x \in Elements(s) \cup Elements(t)
    <2>1. PICK i \in 1..(Len(s) + Len(t)) : x = (s \o t)[i]
      BY <1>1 DEF Elements
    <2>2. CASE i <= Len(s)
      BY <1>1, <1>2, <2>1, <2>2 DEF Elements
    <2>3. CASE i > Len(s)
      <3>1. i - Len(s) \in 1..Len(t) /\ Len(s) + (i - Len(s)) = i
        BY <1>1, <2>1, <2>3
      <3>2. x = t[i - Len(s)]
        BY <1>3, <2>1, <3>1
      <3>3. QED  BY <1>1, <3>1, <3>2 DEF Elements
    <2>4. QED  BY <1>1, <2>1, <2>2, <2>3
  <1>5. ASSUME NEW x \in Elements(s) PROVE x \in Elements(s \o t)
    BY <1>1, <1>2 DEF Elements
  <1>6. ASSUME NEW x \in Elements(t) PROVE x \in Elements(s \o t)
    <2>1. PICK i \in 1..Len(t) : x = t[i]
      BY <1>1 DEF Elements
    <2>2. Len(s) + i \in 1..(Len(s) + Len(t))
      BY <1>1
    <2>3. QED  BY <1>1, <1>3, <2>1, <2>2 DEF Elements
  <1>7. QED  BY <1>1, <1>4, <1>5, <1>6

\* The head of a sequence and what is left.
LEMMA ElementsOfTail ==
    ASSUME NEW S, NEW s \in Seq(S), s # <<>>
    PROVE  /\ Head(s) \in S /\ Tail(s) \in Seq(S)
           /\ Elements(s) = {Head(s)} \cup Elements(Tail(s))
  <1>1. /\ Tail(s) \in Seq(S) /\ Len(s) \in Nat /\ Len(s) >= 1
        /\ Len(Tail(s)) = Len(s) - 1
        /\ DOMAIN s = 1..Len(s) /\ DOMAIN Tail(s) = 1..(Len(s) - 1)
        /\ Head(s) = s[1] /\ Head(s) \in S
    OBVIOUS
  <1>2. \A i \in 1..(Len(s) - 1) : Tail(s)[i] = s[i + 1]
    OBVIOUS
  <1>3. ASSUME NEW x \in Elements(s) PROVE x = Head(s) \/ x \in Elements(Tail(s))
    <2>1. PICK i \in 1..Len(s) : x = s[i]
      BY <1>1 DEF Elements
    <2>2. CASE i = 1
      BY <1>1, <2>1, <2>2
    <2>3. CASE i # 1
      <3>1. i - 1 \in 1..(Len(s) - 1) /\ (i - 1) + 1 = i
        BY <1>1, <2>1, <2>3
      <3>2. x = Tail(s)[i - 1]
        BY <1>2, <2>1, <3>1
      <3>3. QED  BY <1>1, <3>1, <3>2 DEF Elements
    <2>4. QED  BY <2>2, <2>3
  <1>4. ASSUME NEW x \in Elements(Tail(s)) PROVE x \in Elements(s)
    <2>1. PICK i \in 1..(Len(s) - 1) : x = Tail(s)[i]
      BY <1>1 DEF Elements
    <2>2. i + 1 \in 1..Len(s) /\ x = s[i + 1]
      BY <1>1, <1>2, <2>1
    <2>3. QED  BY <1>1, <2>2 DEF Elements
  <1>5. Head(s) \in Elements(s)
    BY <1>1 DEF Elements
  <1>6. QED  BY <1>1, <1>3, <1>4, <1>5

\* Sequences of no and of one element.
LEMMA ElementsOfLiterals ==
    ASSUME NEW S, NEW a \in S
    PROVE  /\ <<>> \in Seq(S) /\ Elements(<<>>) = {}
           /\ <<a>> \in Seq(S) /\ Elements(<<a>>) = {a}
  <1>1. <<>> \in Seq(S) /\ Elements(<<>>) = {}
    BY DEF Elements
  <1>2. <<a>> \in Seq(S) /\ DOMAIN <<a>> = 1..1 /\ <<a>>[1] = a
    OBVIOUS
  <1>3. Elements(<<a>>) = {a}
    <2>1. ASSUME NEW x \in Elements(<<a>>) PROVE x = a
      BY <1>2 DEF Elements
    <2>2. a \in Elements(<<a>>)
      BY <1>2 DEF Elements
    <2>3. QED  BY <2>1, <2>2
  <1>4. QED  BY <1>1, <1>2, <1>3

\* The settings files of any version are files of the setup.
LEMMA IniFiles ==
    ASSUME NEW version
    PROVE  inis(version) \in Seq(Files)
  <1> DEFINE de == "DefaultEngine.ini"
             dw == "DefaultWebRemoteControl.ini"
             dr == "DefaultRemoteControl.ini"
  <1>1. de \in Files /\ dw \in Files /\ dr \in Files
    BY DEF Files, Ini
  <1>2. \/ inis(version) = <<de>> \/ inis(version) = <<dw>> \/ inis(version) = <<dr>>
        \/ inis(version) = <<de, dw, dr>>
    BY DEF inis
  <1> HIDE DEF de, dw, dr
  <1>3. /\ <<de>> \in Seq(Files) /\ <<dw>> \in Seq(Files) /\ <<dr>> \in Seq(Files)
        /\ <<de, dw, dr>> \in Seq(Files)
    BY <1>1
  <1>4. QED  BY <1>2, <1>3

\* What a run begins with is a sequence of files, and its elements are Planned.
LEMMA PlanOfRun ==
    ASSUME NEW o \in Options, BeginRun(o)
    PROVE  todo' \in Seq(Files) /\ Elements(todo') = Planned'
  <1> DEFINE ini == inis(parse_association(project.text))
             mcp == IF o.write_mcp_config THEN <<".mcp.json">> ELSE <<>>
             first == <<".uproject">>
  <1>1. ini \in Seq(Files)
    BY IniFiles
  <1>a. ".uproject" \in Files /\ ".mcp.json" \in Files
    BY DEF Files, Json
  <1>2. first \in Seq(Files) /\ Elements(first) = {".uproject"}
    BY <1>a, ElementsOfLiterals
  <1>3. /\ mcp \in Seq(Files)
        /\ Elements(mcp) = IF o.write_mcp_config THEN {".mcp.json"} ELSE {}
    <2>1. CASE o.write_mcp_config
      <3>1. mcp = <<".mcp.json">>
        BY <2>1
      <3>2. <<".mcp.json">> \in Seq(Files) /\ Elements(<<".mcp.json">>) = {".mcp.json"}
        BY <1>a, ElementsOfLiterals
      <3>3. QED  BY <2>1, <3>1, <3>2
    <2>2. CASE ~o.write_mcp_config
      <3>1. mcp = <<>>
        BY <2>2
      <3>2. <<>> \in Seq(Files) /\ Elements(<<>>) = {}
        BY <1>a, ElementsOfLiterals
      <3>3. QED  BY <2>2, <3>1, <3>2
    <2>3. QED  BY <2>1, <2>2
  <1>4. /\ todo' = (first \o ini) \o mcp
        /\ options' = o /\ project' = project
    BY DEF BeginRun, NewRun
  <1>b. Planned' = {".uproject"} \cup Elements(ini)
                   \cup (IF o.write_mcp_config THEN {".mcp.json"} ELSE {})
    BY <1>4 DEF Planned
  <1> HIDE DEF ini, mcp, first
  <1>5. /\ first \o ini \in Seq(Files)
        /\ Elements(first \o ini) = {".uproject"} \cup Elements(ini)
    BY <1>1, <1>2, ElementsOfConcat
  <1> DEFINE front == first \o ini
  <1>6. /\ front \o mcp \in Seq(Files)
        /\ Elements(front \o mcp) = Elements(front) \cup Elements(mcp)
    <2>1. front \in Seq(Files) /\ mcp \in Seq(Files)
      BY <1>3, <1>5
    <2> HIDE DEF front
    <2>2. QED  BY <2>1, ElementsOfConcat
  <1>7. todo' = front \o mcp /\ Elements(front) = {".uproject"} \cup Elements(ini)
    BY <1>4, <1>5
  <1> HIDE DEF front
  <1>8. QED  BY <1>3, <1>6, <1>7, <1>b

-----------------------------------------------------------------------------
(* The inductive invariant.                                                *)

\* A run that is under way has not succeeded, and between runs none is planned.
RunState == (running => ~ok) /\ (~running => todo = <<>>)

\* Our own writes only add to a file.
OnlyAdded == ~disturbed => \A f \in Files : before[f] \subseteq content[f]

\* What is reported was missing, and what was missing is reported or yet to come.
Reported ==
    (running \/ ok) /\ ~disturbed =>
        /\ Elements(todo) \subseteq Planned
        /\ changed \subseteq Missing
        /\ Missing \subseteq changed \cup Elements(todo)

\* A planned file has what is wanted, or is yet to come.
Written ==
    (running \/ ok) /\ ~disturbed /\ ~options.dry_run =>
        \A f \in Planned : wanted(f) \subseteq content[f] \/ f \in Elements(todo)

\* What this run finds missing is what the dry run before it announced, and
\* nothing if the run before it wrote.
PriorForetells ==
    prior.ok /\ ~prior.disturbed /\ SameRequest =>
        Missing = IF prior.options.dry_run THEN prior.changed ELSE {}

SetupInv == TypeOK /\ RunState /\ OnlyAdded /\ ReportIsExact /\ Reported /\ Written /\ PriorForetells

\* The plan is about files of the setup.
LEMMA PlannedAreFiles ==
    ASSUME TypeOK PROVE Planned \subseteq Files
  <1>1. inis(parse_association(project.text)) \in Seq(Files)
    BY IniFiles
  <1> DEFINE ini == inis(parse_association(project.text))
  <1>2. ini \in Seq(Files)
    BY <1>1
  <1> HIDE DEF ini
  <1>3. Elements(ini) \subseteq Files
    BY <1>2 DEF Elements
  <1>4. ".uproject" \in Files /\ ".mcp.json" \in Files
    BY DEF Files, Json
  <1>5. Elements(inis(parse_association(project.text))) \subseteq Files
    BY <1>3 DEF ini
  <1>6. QED  BY <1>4, <1>5 DEF Planned

\* What is wanted are items a file may hold.
LEMMA WantedAreItems ==
    ASSUME NEW f \in Files PROVE wanted(f) \subseteq Items
  BY DEF Files, Json, Ini, wanted, Items

\* Within a run, the plan and what is wanted stay as they are.
LEMMA SameRun ==
    ASSUME UNCHANGED <<project, options, before, prior>>
    PROVE  /\ Planned' = Planned /\ Missing' = Missing /\ SameRequest' = SameRequest
           /\ \A f \in Files : wanted(f)' = wanted(f)
  <1>1. Planned' = Planned
    BY DEF Planned
  <1>2. \A f : wanted(f)' = wanted(f)
    BY DEF wanted
  <1>3. Missing' = Missing
    BY <1>1, <1>2 DEF Missing
  <1>4. QED  BY <1>1, <1>2, <1>3 DEF SameRequest

\* So does what the run before foretells.
LEMMA PriorKept ==
    ASSUME PriorForetells, UNCHANGED <<project, options, before, prior>>
    PROVE  PriorForetells'
  BY SameRun DEF PriorForetells

\* It holds before the first run.
LEMMA InitSetup == Init => SetupInv
  <1> SUFFICES ASSUME Init PROVE SetupInv
    OBVIOUS
  <1>1. NoOptions \in Options
    BY DEF NoOptions, Options
  <1>2. TypeOK
    <2>1. content \in [Files -> SUBSET Items] /\ before \in [Files -> SUBSET Items]
      BY DEF Init, Items
    <2>2. todo \in Seq(Files)
      BY DEF Init
    <2>3. prior \in [options : Options, ok : BOOLEAN, changed : SUBSET Files, disturbed : BOOLEAN]
      BY <1>1 DEF Init
    <2>4. runs \in 0..MaxRuns /\ edits \in 0..MaxEdits
      BY SetupAssumption DEF Init
    <2>5. /\ project \in Associations /\ broken \subseteq Json /\ options \in Options
          /\ changed \subseteq Files /\ ok \in BOOLEAN /\ running \in BOOLEAN
          /\ disturbed \in BOOLEAN
      BY <1>1 DEF Init
    <2>6. QED  BY <2>1, <2>2, <2>3, <2>4, <2>5 DEF TypeOK
  <1>3. RunState /\ OnlyAdded /\ ReportIsExact
    BY DEF Init, RunState, OnlyAdded, ReportIsExact, NoOptions
  <1>4. Reported /\ Written /\ PriorForetells
    BY DEF Init, Reported, Written, PriorForetells
  <1>5. QED  BY <1>2, <1>3, <1>4 DEF SetupInv

-----------------------------------------------------------------------------
(* The steps.                                                              *)

\* What a finished run leaves is what the next one is told by it.
LEMMA NewRunForetells ==
    ASSUME SetupInv, NEW o \in Options, NewRun(o)
    PROVE  PriorForetells'
  <1> USE DEF SetupInv
  <1>1. /\ options' = o /\ before' = content /\ project' = project
        /\ prior' = [options |-> options, ok |-> ok, changed |-> changed, disturbed |-> disturbed]
        /\ ~running
    BY DEF NewRun
  <1> SUFFICES ASSUME ok, ~disturbed, SameRequest'
               PROVE  Missing' = IF options.dry_run THEN changed ELSE {}
    BY <1>1 DEF PriorForetells
  <1>2. /\ o.enable_python = options.enable_python
        /\ o.write_mcp_config = options.write_mcp_config
    <2>1. [options EXCEPT !.dry_run = o.dry_run] = o
      BY <1>1 DEF SameRequest
    <2>2. options \in Options
      BY DEF TypeOK
    <2>3. QED  BY <2>1, <2>2 DEF Options
  <1>3. Planned' = Planned /\ \A f : wanted(f)' = wanted(f)
    BY <1>1, <1>2 DEF Planned, wanted
  <1>4. Missing' = {f \in Planned : ~(wanted(f) \subseteq content[f])}
    BY <1>1, <1>3 DEF Missing
  <1>5. todo = <<>> /\ Elements(todo) = {}
    BY <1>1 DEF RunState, Elements
  <1>6. changed = Missing
    BY <1>5 DEF Reported
  <1>7. CASE options.dry_run
    <2>1. \A f \in Files : content[f] = before[f]
      BY <1>7 DEF ReportIsExact
    <2>2. Missing' = Missing
      BY <1>4, <2>1, PlannedAreFiles DEF Missing
    <2>3. QED  BY <1>6, <1>7, <2>2
  <1>8. CASE ~options.dry_run
    <2>1. \A f \in Planned : wanted(f) \subseteq content[f]
      BY <1>5, <1>8 DEF Written
    <2>2. QED  BY <1>4, <1>8, <2>1
  <1>9. QED  BY <1>7, <1>8

\* The types, when a run begins.
LEMMA NewRunTypes ==
    ASSUME TypeOK, NEW o \in Options, NewRun(o)
    PROVE  /\ project' \in Associations /\ content' \in [Files -> SUBSET Items]
           /\ broken' \subseteq Json /\ options' \in Options
           /\ changed' \subseteq Files /\ ok' \in BOOLEAN
           /\ before' \in [Files -> SUBSET Items] /\ disturbed' \in BOOLEAN
           /\ prior' \in [options : Options, ok : BOOLEAN, changed : SUBSET Files,
                          disturbed : BOOLEAN]
           /\ runs' \in 0..MaxRuns /\ edits' \in 0..MaxEdits
  <1>1. prior' \in [options : Options, ok : BOOLEAN, changed : SUBSET Files,
                    disturbed : BOOLEAN]
    BY DEF TypeOK, NewRun
  <1>2. runs' \in 0..MaxRuns
    BY SetupAssumption DEF TypeOK, NewRun
  <1>3. QED  BY <1>1, <1>2 DEF TypeOK, NewRun

\* A run without a project is over before it starts.
LEMMA NoProjectStep ==
    ASSUME SetupInv, NEW o \in Options, NoProject(o)
    PROVE  SetupInv'
  <1> USE DEF SetupInv
  <1>1. NewRun(o) /\ todo' = todo /\ running' = running
    BY DEF NoProject
  <1>2. TypeOK'
    BY <1>1, NewRunTypes DEF TypeOK
  <1>3. RunState' /\ OnlyAdded' /\ ReportIsExact'
    BY <1>1 DEF NewRun, RunState, OnlyAdded, ReportIsExact
  <1>4. Reported' /\ Written'
    BY <1>1 DEF NewRun, Reported, Written
  <1>5. QED  BY <1>1, <1>2, <1>3, <1>4, NewRunForetells

\* A run begins with all that is missing yet to come.
LEMMA BeginRunStep ==
    ASSUME SetupInv, NEW o \in Options, BeginRun(o)
    PROVE  SetupInv'
  <1> USE DEF SetupInv
  <1>1. NewRun(o) /\ running' = TRUE /\ todo' \in Seq(Files) /\ Elements(todo') = Planned'
    BY PlanOfRun DEF BeginRun
  <1>2. TypeOK'
    BY <1>1, NewRunTypes DEF TypeOK
  <1>3. RunState' /\ OnlyAdded' /\ ReportIsExact'
    BY <1>1 DEF NewRun, RunState, OnlyAdded, ReportIsExact
  <1>4. Reported'
    BY <1>1 DEF NewRun, Reported, Missing
  <1>5. Written'
    BY <1>1 DEF Written
  <1>6. QED  BY <1>1, <1>2, <1>3, <1>4, <1>5, NewRunForetells

\* A run that fails keeps what it had reported; it did not succeed.
LEMMA FailsStep ==
    ASSUME SetupInv, running, Fails,
           UNCHANGED <<project, options, ok, before, disturbed, prior, Counters>>
    PROVE  SetupInv'
  <1> USE DEF SetupInv
  <1>1. todo' = <<>> /\ todo' \in Seq(Files) /\ running' = FALSE /\ ok' = FALSE
    BY DEF Fails, RunState, TypeOK
  <1>2. TypeOK'
    BY <1>1 DEF TypeOK, Fails, Counters
  <1>3. RunState' /\ OnlyAdded' /\ ReportIsExact'
    BY <1>1 DEF RunState, OnlyAdded, ReportIsExact, Fails
  <1>4. Reported' /\ Written'
    BY <1>1 DEF Reported, Written
  <1>5. PriorForetells'
    BY PriorKept
  <1>6. QED  BY <1>2, <1>3, <1>4, <1>5

\* A file that lacks nothing now lacked nothing at the start, or has been reported.
LEMMA UpToDateStep ==
    ASSUME SetupInv, FileIsUpToDate
    PROVE  SetupInv'
  <1> USE DEF SetupInv
  <1> DEFINE f == Head(todo)
  <1>1. /\ f \in Files /\ Tail(todo) \in Seq(Files) /\ todo' = Tail(todo)
        /\ Elements(todo) = {f} \cup Elements(todo')
    BY ElementsOfTail DEF FileIsUpToDate, TypeOK
  <1>2. /\ running /\ running' /\ wanted(f) \subseteq content[f]
        /\ UNCHANGED <<project, content, broken, options, changed, ok, running, before,
                       disturbed, prior, runs, edits>>
    BY DEF FileIsUpToDate, Counters
  <1> HIDE DEF f
  <1>3. TypeOK'
    BY <1>1, <1>2 DEF TypeOK
  <1>4. RunState' /\ OnlyAdded' /\ ReportIsExact'
    BY <1>1, <1>2 DEF RunState, OnlyAdded, ReportIsExact
  <1>5. /\ Planned' = Planned /\ Missing' = Missing /\ PriorForetells'
        /\ \A g \in Files : wanted(g)' = wanted(g)
    BY <1>2, SameRun, PriorKept
  <1>6. Reported'
    <2> SUFFICES ASSUME ~disturbed PROVE Missing \subseteq changed \cup Elements(todo')
      BY <1>1, <1>2, <1>5 DEF Reported
    <2>1. Missing \subseteq changed \cup {f} \cup Elements(todo')
      BY <1>1, <1>2 DEF Reported
    <2>2. ASSUME f \in Missing PROVE f \in changed
      <3>1. content[f] # before[f]
        BY <1>2, <2>2 DEF Missing
      <3>2. QED  BY <1>1, <3>1 DEF ReportIsExact
    <2>3. QED  BY <2>1, <2>2
  <1>7. Written'
    BY <1>1, <1>2, <1>5, PlannedAreFiles DEF Written
  <1>8. QED  BY <1>3, <1>4, <1>5, <1>6, <1>7

\* A file that lacks something lacked it at the start; it is reported, and written unless the run is dry.
LEMMA ChangeStep ==
    ASSUME SetupInv, ChangeFile
    PROVE  SetupInv'
  <1> USE DEF SetupInv
  <1> DEFINE f == Head(todo)
  <1>1. /\ f \in Files /\ Tail(todo) \in Seq(Files) /\ todo' = Tail(todo)
        /\ Elements(todo) = {f} \cup Elements(todo')
    BY ElementsOfTail DEF ChangeFile, TypeOK
  <1>2. /\ running /\ running' /\ ~(wanted(f) \subseteq content[f])
        /\ content' = IF options.dry_run THEN content
                      ELSE [content EXCEPT ![f] = @ \cup wanted(f)]
        /\ changed' = changed \cup {f}
        /\ UNCHANGED <<project, broken, options, ok, running, before,
                       disturbed, prior, runs, edits>>
    BY DEF ChangeFile, Counters
  <1> HIDE DEF f
  <1>3. wanted(f) \subseteq Items
    BY <1>1, WantedAreItems
  <1>4. content \in [Files -> SUBSET Items] /\ content' \in [Files -> SUBSET Items]
    BY <1>1, <1>2, <1>3 DEF TypeOK
  <1>5. TypeOK'
    BY <1>1, <1>2, <1>4 DEF TypeOK
  <1>6. \A g \in Files : content[g] \subseteq content'[g]
    BY <1>1, <1>2, <1>4
  <1>7. RunState' /\ OnlyAdded'
    BY <1>2, <1>6 DEF RunState, OnlyAdded
  <1>8. ReportIsExact'
    <2> SUFFICES ASSUME ~disturbed
                 PROVE  {g \in Files : content'[g] # before[g]} =
                           IF options.dry_run THEN {} ELSE changed'
      BY <1>2 DEF ReportIsExact
    <2>1. CASE options.dry_run
      BY <1>2, <2>1 DEF ReportIsExact
    <2>2. CASE ~options.dry_run
      <3>1. content'[f] = content[f] \cup wanted(f)
        BY <1>1, <1>2, <1>4, <2>2
      <3>2. content'[f] # before[f]
        BY <1>1, <1>2, <3>1 DEF OnlyAdded
      <3>3. \A g \in Files : g # f => content'[g] = content[g]
        BY <1>1, <1>2, <1>4, <2>2
      <3>4. {g \in Files : content[g] # before[g]} = changed
        BY <2>2 DEF ReportIsExact
      <3>5. QED  BY <1>1, <1>2, <2>2, <3>2, <3>3, <3>4
    <2>3. QED  BY <2>1, <2>2
  <1>9. /\ Planned' = Planned /\ Missing' = Missing /\ PriorForetells'
        /\ \A g \in Files : wanted(g)' = wanted(g)
    BY <1>2, SameRun, PriorKept
  <1>10. Reported'
    <2> SUFFICES ASSUME ~disturbed
                 PROVE  changed' \subseteq Missing /\ Missing \subseteq changed' \cup Elements(todo')
      BY <1>1, <1>2, <1>9 DEF Reported
    <2>1. f \in Missing
      BY <1>1, <1>2 DEF Reported, Missing, OnlyAdded
    <2>2. QED  BY <1>1, <1>2, <2>1 DEF Reported
  <1>11. Written'
    <2> SUFFICES ASSUME ~disturbed, ~options.dry_run, NEW g \in Planned
                 PROVE  wanted(g) \subseteq content'[g] \/ g \in Elements(todo')
      BY <1>2, <1>9, PlannedAreFiles DEF Written
    <2>1. g \in Files /\ (wanted(g) \subseteq content[g] \/ g = f \/ g \in Elements(todo'))
      BY <1>1, <1>2, PlannedAreFiles DEF Written
    <2>2. wanted(f) \subseteq content'[f]
      BY <1>1, <1>2, <1>4
    <2>3. QED  BY <1>6, <2>1, <2>2
  <1>12. QED  BY <1>5, <1>7, <1>8, <1>9, <1>10, <1>11

\* A short write is a disturbance, after which nothing is claimed.
LEMMA ShortStep ==
    ASSUME SetupInv, WriteFallsShort
    PROVE  SetupInv'
  <1> USE DEF SetupInv
  <1>1. /\ Head(todo) \in Files /\ Tail(todo) \in Seq(Files)
        /\ todo' = Tail(todo) /\ disturbed'
    BY ElementsOfTail DEF WriteFallsShort, TypeOK
  <1>2. content' \in [Files -> SUBSET Items] /\ broken' \subseteq Json
        /\ changed' \subseteq Files
    BY <1>1 DEF WriteFallsShort, TypeOK
  <1>3. edits' \in 0..MaxEdits
    BY SetupAssumption DEF WriteFallsShort, TypeOK
  <1>4. TypeOK'
    BY <1>1, <1>2, <1>3 DEF WriteFallsShort, TypeOK
  <1>5. RunState' /\ OnlyAdded' /\ ReportIsExact' /\ Reported' /\ Written'
    BY <1>1 DEF WriteFallsShort, RunState, OnlyAdded, ReportIsExact, Reported, Written
  <1>6. PriorForetells'
    BY PriorKept DEF WriteFallsShort
  <1>7. QED  BY <1>4, <1>5, <1>6

\* A run that comes to its end has nothing left to do.
LEMMA EndStep ==
    ASSUME SetupInv, EndRun
    PROVE  SetupInv'
  <1> USE DEF SetupInv
  <1>1. TypeOK'
    BY DEF EndRun, TypeOK, Counters
  <1>2. RunState' /\ OnlyAdded' /\ ReportIsExact'
    BY DEF EndRun, RunState, OnlyAdded, ReportIsExact
  <1>3. Planned' = Planned /\ Missing' = Missing /\ PriorForetells'
        /\ \A g \in Files : wanted(g)' = wanted(g)
    BY SameRun, PriorKept DEF EndRun
  <1>4. Reported'
    BY <1>3 DEF EndRun, Reported
  <1>5. Written'
    BY <1>3, PlannedAreFiles DEF EndRun, Written
  <1>6. QED  BY <1>1, <1>2, <1>3, <1>4, <1>5

\* The user edits between runs only, and disturbs.
LEMMA UserStep ==
    ASSUME SetupInv, UserEdits
    PROVE  SetupInv'
  <1> USE DEF SetupInv
  <1>1. content' \in [Files -> SUBSET Items] /\ broken' \subseteq Json
    <2>1. CASE \E f \in Files, item \in Items :
                  content' = [content EXCEPT ![f] = @ \ {item}] /\ broken' = broken
      BY <2>1 DEF TypeOK
    <2>2. CASE \E f \in Json :
                  /\ broken' = IF f \in broken THEN broken \ {f} ELSE broken \cup {f}
                  /\ content' = content
      BY <2>2 DEF TypeOK
    <2>3. QED  BY <2>1, <2>2 DEF UserEdits
  <1>2. edits' \in 0..MaxEdits
    BY SetupAssumption DEF UserEdits, TypeOK
  <1>3. TypeOK'
    BY <1>1, <1>2 DEF UserEdits, TypeOK
  <1>4. RunState' /\ OnlyAdded' /\ ReportIsExact' /\ Reported' /\ Written'
    BY DEF UserEdits, RunState, OnlyAdded, ReportIsExact, Reported, Written
  <1>5. PriorForetells'
    BY PriorKept DEF UserEdits
  <1>6. QED  BY <1>3, <1>4, <1>5

\* Nothing happens.
LEMMA StutterStep ==
    ASSUME SetupInv, UNCHANGED vars
    PROVE  SetupInv'
  <1> USE DEF SetupInv, vars
  <1>1. TypeOK' /\ RunState' /\ OnlyAdded' /\ ReportIsExact'
    BY DEF TypeOK, RunState, OnlyAdded, ReportIsExact
  <1>2. Planned' = Planned /\ Missing' = Missing /\ PriorForetells'
        /\ \A g \in Files : wanted(g)' = wanted(g)
    BY SameRun, PriorKept
  <1>3. Reported'
    BY <1>2 DEF Reported
  <1>4. Written'
    BY <1>2, PlannedAreFiles DEF Written
  <1>5. QED  BY <1>1, <1>2, <1>3, <1>4

\* Every step keeps the invariant.
LEMMA SetupInvKept == SetupInv /\ [Next]_vars => SetupInv'
  <1> SUFFICES ASSUME SetupInv, [Next]_vars PROVE SetupInv'
    OBVIOUS
  <1>1. ASSUME NEW o \in Options, NoProject(o) PROVE SetupInv'
    BY <1>1, NoProjectStep
  <1>2. ASSUME NEW o \in Options, BeginRun(o) PROVE SetupInv'
    BY <1>2, BeginRunStep
  <1>3. CASE FileIsUpToDate
    BY <1>3, UpToDateStep
  <1>4. CASE ChangeFile
    BY <1>4, ChangeStep
  <1>5. CASE ReadFails
    BY <1>5, FailsStep DEF ReadFails
  <1>6. CASE WriteFails
    BY <1>6, FailsStep DEF WriteFails
  <1>7. CASE WriteFallsShort
    BY <1>7, ShortStep
  <1>8. CASE MergeFails
    BY <1>8, FailsStep DEF MergeFails
  <1>9. CASE EndRun
    BY <1>9, EndStep
  <1>10. CASE UserEdits
    BY <1>10, UserStep
  <1>11. CASE UNCHANGED vars
    BY <1>11, StutterStep
  <1>12. QED
    BY <1>1, <1>2, <1>3, <1>4, <1>5, <1>6, <1>7, <1>8, <1>9, <1>10, <1>11 DEF Next, Run

\* It holds for ever.
LEMMA SetupInvHolds == Spec => []SetupInv
  BY InitSetup, SetupInvKept, PTL DEF Spec

-----------------------------------------------------------------------------
(* The theorems.                                                           *)

\* Every value a run of the setup computes has its type (project_setup.cpp:330-428).
THEOREM SetupTypeCorrect == Spec => []TypeOK
  <1>1. SetupInv => TypeOK
    BY DEF SetupInv
  <1>2. QED  BY <1>1, SetupInvHolds, PTL

\* changedFiles is what differs, after a run that failed half way, too, and
\* after a dry run nothing does.
THEOREM ReportCorrect == Spec => []ReportIsExact
  <1>1. SetupInv => ReportIsExact
    BY DEF SetupInv
  <1>2. QED  BY <1>1, SetupInvHolds, PTL

\* A run that has ended well has reported all that was missing.
LEMMA EndedReport ==
    ASSUME SetupInv, Ended PROVE changed = Missing
  <1>1. todo = <<>> /\ Elements(todo) = {}
    BY DEF SetupInv, Ended, RunState, Elements
  <1>2. QED  BY <1>1 DEF SetupInv, Ended, Reported

\* What a dry run lists is what the same run without it changes.
THEOREM DryRunForetells == Spec => []DryRunPredicts
  <1>1. ASSUME SetupInv PROVE DryRunPredicts
    BY <1>1, EndedReport DEF DryRunPredicts, SetupInv, PriorForetells
  <1>2. QED  BY <1>1, SetupInvHolds, PTL

\* The setup is idempotent: the run after a good one changes nothing.
THEOREM SetupIsIdempotent == Spec => []SecondRunChangesNothing
  <1>1. ASSUME SetupInv PROVE SecondRunChangesNothing
    BY <1>1, EndedReport DEF SecondRunChangesNothing, SetupInv, PriorForetells
  <1>2. QED  BY <1>1, SetupInvHolds, PTL

-----------------------------------------------------------------------------
(* Associations.                                                           *)

\* The engine line of a version.
LineOf(major, minor) ==
    IF major >= 5 THEN "5.x" ELSE IF minor > 25 THEN "4.26" ELSE "4.25"

\* An association names its engine: it begins with the engine's version, as the
\* launcher writes it ...
NamesItsEngine(a) ==
    /\ Len(a.text) >= 3
    /\ 4 <= a.text[1] /\ a.text[1] < Dot /\ a.text[2] = Dot /\ a.text[3] < Dot
    /\ a.engine = LineOf(a.text[1], a.text[3])

\* ... or it holds no number at all.
HasNoNumber(a) == \A k \in DOMAIN a.text : a.text[k] >= Dot

\* What parse_association finds in a text without a number, and in one that
\* begins with one.
LEMMA FirstNumber ==
    ASSUME NEW text \in Seq(Nat)
    PROVE  /\ (\A k \in DOMAIN text : text[k] >= Dot) => ~parse_association(text).known
           /\ Len(text) >= 3 /\ text[1] < Dot /\ text[2] = Dot /\ text[3] < Dot =>
                 parse_association(text) =
                    [known |-> TRUE, major |-> text[1], minor |-> text[3]]
  <1> DEFINE I == {i \in 1..Len(text) : text[i] < Dot}
             first == IF I # {} THEN Min(I) ELSE 0
  <1>1. SelectInSeq(text, LAMBDA t : t < Dot) = first
    BY DEF SelectInSeq
  <1>2. Len(text) \in Nat /\ DOMAIN text = 1..Len(text) /\ \A k \in DOMAIN text : text[k] \in Nat
    OBVIOUS
  <1>3. ASSUME \A k \in DOMAIN text : text[k] >= Dot
        PROVE  ~parse_association(text).known
    <2>1. I = {}
      BY <1>2, <1>3 DEF Dot
    <2>2. first = 0
      BY <2>1
    <2>3. QED  BY <1>1, <2>2 DEF parse_association
  <1>4. ASSUME Len(text) >= 3, text[1] < Dot, text[2] = Dot, text[3] < Dot
        PROVE  parse_association(text) = [known |-> TRUE, major |-> text[1], minor |-> text[3]]
    <2>1. 1 \in I /\ \A i \in I : 1 <= i
      BY <1>2, <1>4
    <2>2. Min(I) = 1
      BY <2>1 DEF Min
    <2>3. first = 1
      BY <2>1, <2>2
    <2> HIDE DEF first
    <2>4. IsDot(text, 2) /\ IsNumber(text, 3)
      BY <1>2, <1>4 DEF IsDot, IsNumber
    <2>5. /\ first # 0 /\ first + 1 = 2 /\ first + 2 = 3 /\ text[first] = text[1]
      BY <2>3
    <2>6. parse_association(text) =
             IF first = 0 THEN [known |-> FALSE, major |-> 0, minor |-> 0]
             ELSE [known |-> TRUE, major |-> text[first],
                   minor |-> IF IsDot(text, first + 1) /\ IsNumber(text, first + 2)
                             THEN text[first + 2] ELSE 0]
      BY ONLY <1>1 DEF parse_association
    <2>7. QED  BY <2>4, <2>5, <2>6
  <1>5. QED  BY <1>3, <1>4

\* The settings file of its engine line is among those that are written for it.
LEMMA EngineIsServed ==
    ASSUME NEW a \in Associations, NamesItsEngine(a) \/ HasNoNumber(a)
    PROVE  ConfigOf(a.engine) \in Elements(inis(parse_association(a.text)))
  <1> DEFINE v == parse_association(a.text)
  <1>0. a.text \in Seq(Nat) /\ a.engine \in Lines
    BY SetupAssumption
  <1>1. CASE NamesItsEngine(a)
    <2>1. a.text[1] \in Nat /\ a.text[3] \in Nat
      BY <1>0, <1>1 DEF NamesItsEngine
    <2>2. v = [known |-> TRUE, major |-> a.text[1], minor |-> a.text[3]]
      BY <1>0, <1>1, FirstNumber DEF NamesItsEngine
    <2>3. v.known /\ v.major \in Nat /\ v.major >= 4 /\ v.minor \in Nat
          /\ a.engine = LineOf(v.major, v.minor)
      BY <1>1, <2>1, <2>2 DEF NamesItsEngine
    <2> HIDE DEF v
    <2>4. inis(v) = <<ConfigOf(a.engine)>>
      <3>1. CASE v.major >= 5
        <4>1. a.engine = "5.x"
          BY <2>3, <3>1 DEF LineOf
        <4>2. inis(v) = <<"DefaultRemoteControl.ini">>
          BY <2>3, <3>1 DEF inis
        <4>3. QED  BY <4>1, <4>2 DEF ConfigOf
      <3>2. CASE v.major = 4 /\ v.minor > 25
        <4>1. a.engine = "4.26"
          BY <2>3, <3>2 DEF LineOf
        <4>2. inis(v) = <<"DefaultWebRemoteControl.ini">>
          BY <2>3, <3>2 DEF inis
        <4>3. QED  BY <4>1, <4>2 DEF ConfigOf
      <3>3. CASE v.major = 4 /\ v.minor <= 25
        <4>1. a.engine = "4.25"
          BY <2>3, <3>3 DEF LineOf
        <4>2. inis(v) = <<"DefaultEngine.ini">>
          BY <2>3, <3>3 DEF inis
        <4>3. QED  BY <4>1, <4>2 DEF ConfigOf
      <3>4. QED  BY <2>3, <3>1, <3>2, <3>3
    <2>5. Elements(<<ConfigOf(a.engine)>>) = {ConfigOf(a.engine)}
      BY ElementsOfLiterals
    <2>6. QED  BY <2>4, <2>5 DEF v
  <1>2. CASE HasNoNumber(a)
    <2>1. ~v.known
      BY <1>0, <1>2, FirstNumber DEF HasNoNumber
    <2> HIDE DEF v
    <2> DEFINE all == <<"DefaultEngine.ini", "DefaultWebRemoteControl.ini",
                        "DefaultRemoteControl.ini">>
    <2>2. inis(v) = all
      BY <2>1 DEF inis
    <2>3. 1 \in DOMAIN all /\ 2 \in DOMAIN all /\ 3 \in DOMAIN all
      OBVIOUS
    <2>4. all[1] \in Elements(all) /\ all[2] \in Elements(all) /\ all[3] \in Elements(all)
      BY <2>3 DEF Elements
    <2>5. ConfigOf(a.engine) \in {all[1], all[2], all[3]}
      BY <1>0 DEF ConfigOf, Lines
    <2>6. QED  BY <2>2, <2>4, <2>5 DEF v
  <1>3. QED  BY <1>1, <1>2

\* If each association names its engine or holds no number, a run that ends
\* well has configured the project for the engine that opens it, whatever
\* earlier runs have left half written.  Of the GUIDs of engines built from
\* source it is false (run ProjectSetupSource).
THEOREM SetupConfigures ==
    ASSUME \A a \in Associations : NamesItsEngine(a) \/ HasNoNumber(a)
    PROVE  Spec => []OkMeansConfigured
  <1>1. ASSUME SetupInv PROVE OkMeansConfigured
    <2> SUFFICES ASSUME Ended, ~options.dry_run
                 PROVE  /\ {"RemoteControl", "EditorScriptingUtilities"} \subseteq content[".uproject"]
                        /\ "settings" \in content[ConfigOf(project.engine)]
                        /\ options.enable_python =>
                              /\ "PythonScriptPlugin" \in content[".uproject"]
                              /\ project.engine = "5.x" =>
                                    "full access" \in content["DefaultRemoteControl.ini"]
                        /\ options.write_mcp_config => "server" \in content[".mcp.json"]
      BY DEF OkMeansConfigured
    <2>1. Elements(todo) = {}
      BY <1>1 DEF SetupInv, Ended, RunState, Elements
    <2>2. \A f \in Planned : wanted(f) \subseteq content[f]
      BY <1>1, <2>1 DEF SetupInv, Written, Ended
    <2>3. project \in Associations /\ project.engine \in Lines
      BY <1>1, SetupAssumption DEF SetupInv, TypeOK
    <2>4. ".uproject" \in Planned /\ ConfigOf(project.engine) \in Planned
      BY <2>3, EngineIsServed DEF Planned
    <2>5. options.write_mcp_config => ".mcp.json" \in Planned
      BY DEF Planned
    <2>6. /\ {"RemoteControl", "EditorScriptingUtilities"} \subseteq content[".uproject"]
          /\ options.enable_python => "PythonScriptPlugin" \in content[".uproject"]
      BY <2>2, <2>4 DEF wanted
    <2>7. "settings" \in content[ConfigOf(project.engine)]
      <3>1. "settings" \in wanted(ConfigOf(project.engine))
        BY <2>3 DEF wanted, ConfigOf, Lines
      <3>2. QED  BY <2>2, <2>4, <3>1
    <2>8. options.enable_python /\ project.engine = "5.x" =>
             "full access" \in content["DefaultRemoteControl.ini"]
      BY <2>2, <2>4 DEF wanted, ConfigOf
    <2>9. options.write_mcp_config => "server" \in content[".mcp.json"]
      BY <2>2, <2>5 DEF wanted
    <2>10. QED  BY <2>6, <2>7, <2>8, <2>9
  <1>2. QED  BY <1>1, SetupInvHolds, PTL
=============================================================================
