---------------------------- MODULE RecipeTools ----------------------------
(***************************************************************************)
(* The tools whose work is a Python recipe: their scripts (RecipePrograms) *)
(* inside the harness (PythonRecipe), what they do to the editor, and the  *)
(* client that calls once more when the answer was lost or was a failure.  *)
(* The editor runs one script at a time on its game thread, to the end,    *)
(* also when nobody waits for the answer any longer.                       *)
(*                                                                         *)
(* A behaviour is one call of one tool with some options, on an editor     *)
(* with some of the tool's objects there, and its repetition.              *)
(***************************************************************************)
EXTENDS PythonRecipe, RecipePrograms, FiniteSets

CONSTANTS
    Tools,       \* the recipes that are called
    Importers,   \* converters, whose script runs a plugin's own importer
    MaxFaults    \* bound: steps of a behaviour that fail though they could do

\* What a script of RecipePrograms emits of its own accord.
Done   == [ok |-> "true", error |-> "absent"]
Failed == [ok |-> "false", error |-> "absent"]

ASSUME ToolsAssumption ==
    /\ Tools \subseteq DOMAIN Recipes
    /\ Importers \cap Tools = {}
    /\ {Done, Failed} \subseteq Results
    /\ MaxFaults \in Nat

VARIABLES
    tool, recipe, given,    \* the call: its tool, script and options
    complete,    \* whether the call has the arguments the tool requires
    at,          \* the step of the script that is next
    count,       \* how many there are of each object of the script
    parent,      \* what each component hangs under
    unsaved,     \* assets changed since they were saved
    refused,     \* assets that save_asset returned False for in this execution
    changed,     \* what this execution has changed
    fresh,       \* the components it has added
    missed,      \* the objects its tolerant steps could not get
    undone,      \* the steps the options ask for that were not done
    warned,      \* whether a step has left a word for the answer
    marked,      \* whether the result carries the mark "unsupported"
    faults,      \* bounded by MaxFaults
    attempt,     \* 1, or 2 once the client has called again
    first        \* the first execution's result, and the faults until its end

world == <<count, parent, unsaved>>
execution == <<refused, changed, fresh, missed, undone, warned, marked>>
call == <<tool, recipe, given, complete>>
harness == <<log, pc, emitted, reply>>
toolvars == <<call, at, world, execution, faults, attempt, first>>
allvars == <<vars, toolvars>>

Steps == recipe.steps
Elements(seq) == {seq[i] : i \in DOMAIN seq}
Places(r, ops) == {i \in DOMAIN r.steps : r.steps[i].op \in ops}
Objects(r) ==
    {r.steps[i].obj : i \in Places(r, {"find", "new", "make", "ensure", "replace", "add",
                                      "supply", "end"})}
    \cup {r.steps[i].reuse : i \in Places(r, {"supply"})}
Owner(obj) == IF obj \in DOMAIN recipe.parts THEN recipe.parts[obj] ELSE obj
Reusing(r) == {r.steps[i].reuse : i \in Places(r, {"make", "replace"})} \ {"always"}
Options(r) == Reusing(r) \cup UNION {r.steps[i].when \cup r.steps[i].unless : i \in DOMAIN r.steps}
\* What a component is meant to hang under.
Meant(r, obj) == LET s == {t \in Elements(r.steps) : t.obj = obj /\ t.under # "root"}
                 IN  IF s = {} THEN "root" ELSE (CHOOSE t \in s : TRUE).under

\* The editor holds one or none of everything, no part without its owner, and
\* nothing of what is not part of something and is added each time.
Editors(r) ==
    {c \in [Objects(r) -> 0..1] : \A obj \in Objects(r) :
        /\ obj \in DOMAIN r.parts /\ r.parts[obj] \in Objects(r) =>
               c[obj] <= c[r.parts[obj]]
        /\ obj \notin DOMAIN r.parts
           /\ (\E s \in Elements(r.steps) : s.op \in {"add", "end"} /\ s.obj = obj) => c[obj] = 0}

NoTool == Recipe({}, NoParts, <<>>)

FreshExecution ==
    /\ refused' = {} /\ changed' = {} /\ fresh' = {} /\ missed' = {}
    /\ undone' = {} /\ warned' = FALSE /\ marked' = FALSE

ToolsInit ==
    /\ Init
    /\ tool \in Tools \cup Importers
    /\ recipe = IF tool \in Tools THEN Recipes[tool] ELSE NoTool
    /\ given \in SUBSET Options(recipe)
    /\ complete \in {TRUE} \cup {recipe.args = {}}
    /\ at = 1
    /\ count \in Editors(recipe)
    /\ parent = [obj \in Objects(recipe) |->
                    LET p == Meant(recipe, obj)
                    IN  IF p # "root" /\ count[obj] = 1 /\ count[p] = 1 THEN p ELSE "root"]
    /\ unsaved = {}
    /\ refused = {} /\ changed = {} /\ fresh = {} /\ missed = {}
    /\ undone = {} /\ warned = FALSE /\ marked = FALSE
    /\ faults = 0
    /\ attempt = 1
    /\ first = [result |-> NoResult, faults |-> 0]

-----------------------------------------------------------------------------
(* One step of the script.                                                 *)

Running == tool \in Tools /\ complete /\ pc = "body" /\ emitted = NoResult
At(s) == Running /\ at <= Len(Steps) /\ s = Steps[at]

Active(s) == s.when \subseteq given /\ s.unless \cap given = {}
Lacking(s) == s.with \cap missed # {}

Able(s) ==
    CASE s.op = "find" -> count[s.obj] >= 1
      [] s.op = "new" -> count[s.obj] = 0
      [] s.op \in {"make", "replace"} -> count[s.obj] = 0 \/ s.reuse \in given \cup {"always"}
      [] s.op = "got" -> s.obj \notin missed
      [] OTHER -> TRUE

GoesOn == at' = at + 1 /\ UNCHANGED <<harness, call, attempt, first, marked>>

PassesOver(s) ==
    /\ Running /\ ~Active(s)
    /\ GoesOn
    /\ UNCHANGED <<world, refused, changed, fresh, missed, undone, warned, faults>>

\* A component for which an earlier step did not get what it needs.
PassesOverLacking(s) ==
    /\ Running /\ Active(s) /\ Lacking(s)
    /\ undone' = undone \cup {at}
    /\ missed' = IF s.obj \in DOMAIN count /\ count[s.obj] = 0
                 THEN missed \cup {s.obj} ELSE missed
    /\ GoesOn
    /\ UNCHANGED <<world, refused, changed, fresh, warned, faults>>

\* How many there are after the step; a new owner has no parts.
Counted(s) ==
    LET made(n) == [obj \in DOMAIN count |->
                       IF obj = s.obj THEN n
                       ELSE IF obj \in DOMAIN recipe.parts /\ Owner(obj) = s.obj THEN 0
                       ELSE count[obj]]
    IN  CASE s.op \in {"new", "replace"} -> made(1)
          [] s.op \in {"make", "ensure"} /\ count[s.obj] = 0 -> made(1)
          [] s.op = "add" \/ (s.op = "supply" /\ count[s.reuse] = 0) ->
                [count EXCEPT ![s.obj] = @ + 1]
          [] s.op = "end" -> [count EXCEPT ![s.obj] = 0]
          [] OTHER -> count

Hung(s) ==
    IF Counted(s) # count /\ s.op \in {"add", "supply", "ensure"}
    THEN [parent EXCEPT ![s.obj] = IF s.under \in fresh THEN s.under ELSE "root"]
    ELSE parent

Does(s) ==
    /\ Running /\ Active(s) /\ ~Lacking(s) /\ Able(s)
    /\ count' = Counted(s)
    /\ parent' = Hung(s)
    /\ fresh' = IF Counted(s) # count THEN fresh \cup {s.obj} ELSE fresh
    /\ changed' = IF Counted(s) # count \/ s.op \in {"set", "replace"}
                  THEN changed \cup {s.obj} ELSE changed
    /\ unsaved' = CASE s.op = "save" -> unsaved \ {s.obj}
                    [] s.op \in {"set", "compile", "replace"} \/ Counted(s) # count ->
                          unsaved \cup {Owner(s.obj)}
                    [] OTHER -> unsaved
    /\ missed' = missed \ {s.obj}
    /\ GoesOn
    /\ UNCHANGED <<refused, undone, warned, faults>>

\* save_asset returns False, which no recipe looks at.
SaveRefused(s) ==
    /\ Running /\ Active(s) /\ ~Lacking(s) /\ s.op = "save"
    /\ faults < MaxFaults
    /\ faults' = faults + 1
    /\ refused' = refused \cup {s.obj}
    /\ GoesOn
    /\ UNCHANGED <<world, changed, fresh, missed, undone, warned>>

-----------------------------------------------------------------------------
(* A step that fails: because what it needs is not there, which is no      *)
(* fault, or because the editor does not do what it could.                 *)

Fails(s) ==
    /\ Running /\ Active(s) /\ ~Lacking(s)
    /\ \/ (~Able(s) \/ s.op = "check") /\ faults' = faults
       \/ Able(s) /\ s.op \notin {"check", "got"} /\ faults < MaxFaults /\ faults' = faults + 1

Tolerates(s) ==
    /\ s.fails \in {"warns", "silent"}
    /\ Fails(s)
    /\ undone' = IF s.op = "save" THEN undone ELSE undone \cup {at}
    /\ warned' = (warned \/ s.fails = "warns")
    /\ missed' = IF s.op \in {"check", "find", "make", "ensure", "add", "supply"}
                 THEN missed \cup {s.obj} ELSE missed
    /\ refused' = IF s.op = "save" THEN refused \cup {s.obj} ELSE refused
    /\ GoesOn
    /\ UNCHANGED <<world, changed, fresh>>

StepEnds(s) ==
    /\ missed' = IF s.op = "check" THEN missed \cup {s.obj} ELSE missed
    /\ UNCHANGED <<call, at, world, refused, changed, fresh, undone, warned, attempt, first>>

\* The exception comes to the except clause; a script that emits ok=false with
\* a text of its own ends alike.
StepRaises(s) ==
    /\ s.fails \in {"error", "unsupported"}
    /\ Fails(s)
    /\ Raises
    /\ marked' = (s.fails = "unsupported")
    /\ StepEnds(s)

\* Some branch of the script emits nothing.
StepMute(s) ==
    /\ s.fails = "mute"
    /\ Fails(s)
    /\ Ends
    /\ StepEnds(s) /\ UNCHANGED marked

StepBare(s, newline) ==
    /\ s.fails = "bare"
    /\ Fails(s)
    /\ Emits(Failed, newline)
    /\ StepEnds(s) /\ UNCHANGED marked

RunsStep(s) ==
    \/ PassesOver(s) \/ PassesOverLacking(s) \/ Does(s) \/ SaveRefused(s)
    \/ Tolerates(s) \/ StepRaises(s) \/ StepMute(s)
    \/ \E newline \in Newlines : StepBare(s, newline)

-----------------------------------------------------------------------------
(* The call.                                                               *)

\* "... is required": an error, with nothing sent.
Requires ==
    /\ tool \in Tools /\ ~complete
    /\ TransportFails
    /\ UNCHANGED toolvars

EmitsResult ==
    /\ Running /\ at > Len(Steps)
    /\ \E newline \in Newlines : Emits(Done, newline)
    /\ UNCHANGED toolvars

\* A plugin's importer logs and emits what it likes.
ImporterRuns ==
    /\ tool \in Importers
    /\ \/ \E newline \in Newlines :
             LogsOutput(newline) \/ \E result \in Results : Emits(result, newline)
       \/ Raises \/ Ends \/ TransportFails
    /\ UNCHANGED toolvars

Harness ==
    /\ \/ tool \in Tools /\ emitted # NoResult /\ Ends
       \/ \E newline \in Newlines : EmitsTraceback(newline)
       \/ run_python_recipe
    /\ UNCHANGED toolvars

\* The answer does not come back: the script has run all the same.
AnswerLost ==
    /\ tool \in Tools /\ pc = "ended" /\ attempt = 1
    /\ TransportFails
    /\ UNCHANGED toolvars

\* Mutant of CallsAgain: again and again.
CallsAgainAlways ==
    /\ tool \in Tools /\ pc = "replied" /\ complete
    /\ reply.kind # "ok"
    /\ attempt' = attempt + 1
    /\ first' = [result |-> emitted, faults |-> faults]
    /\ pc' = "body" /\ at' = 1
    /\ log' = <<>> /\ emitted' = NoResult
    /\ reply' = [kind |-> "none", error |-> "none"]
    /\ FreshExecution
    /\ UNCHANGED <<call, world, faults>>

\* RcClient sends the request once more, or the client calls again.
CallsAgain ==
    /\ tool \in Tools /\ pc = "replied" /\ attempt = 1 /\ complete
    /\ reply.kind # "ok"
    /\ attempt' = 2
    /\ first' = [result |-> emitted, faults |-> faults]
    /\ pc' = "body" /\ at' = 1
    /\ log' = <<>> /\ emitted' = NoResult
    /\ reply' = [kind |-> "none", error |-> "none"]
    /\ FreshExecution
    /\ UNCHANGED <<call, world, faults>>

ToolsNext ==
    \/ \E s \in Elements(Steps) : At(s) /\ RunsStep(s)
    \/ Requires \/ EmitsResult \/ ImporterRuns \/ Harness \/ AnswerLost \/ CallsAgain

ToolsSpec == ToolsInit /\ [][ToolsNext]_allvars

-----------------------------------------------------------------------------
(* Properties.                                                             *)

\* The types, those of the harness included; the script and its objects go
\* together, and a call is repeated once.
ToolsTypeOK ==
    /\ TypeOK
    /\ tool \in Tools \cup Importers
    /\ given \subseteq Options(recipe) /\ complete \in BOOLEAN
    /\ at \in 1..(Len(Steps) + 1)
    /\ count \in [Objects(recipe) -> 0..4]
    /\ parent \in [DOMAIN count -> {"root"} \cup DOMAIN count]
    /\ \A obj \in fresh \cup missed \cup changed \cup unsaved :
          \E i \in DOMAIN Steps : obj \in {Steps[i].obj, Owner(Steps[i].obj)}
    /\ \A obj \in refused :
          \E i \in DOMAIN Steps : Steps[i].op = "save" /\ Steps[i].obj = obj
    /\ undone \subseteq DOMAIN Steps
    /\ warned \in BOOLEAN /\ marked \in BOOLEAN
    /\ faults \in 0..MaxFaults /\ attempt \in 1..2
    /\ first \in [result : Results \cup {Raised, NoResult}, faults : 0..MaxFaults]

Answered == tool \in Tools /\ pc = "replied"
Executed == Answered /\ reply.kind # "transport" /\ complete

\* The recipes that pass over a failure without a word in their answer: setters
\* in try/except or called only where the object has them, Booleans that are
\* not looked at, and parents, types and modes for which another is taken.
Quiet ==
    {"ue_set_blueprint_component_template_transform", "ue_normalize_imported_character_mesh",
     "ue_simulate_player_input", "ue_create_material", "ue_import_asset_with_transform_policy",
     "ue_create_blueprint", "ue_add_blueprint_variable", "ue_create_locomotion_animation_assets",
     "ue_create_widget_blueprint", "ue_add_widget_to_blueprint", "ue_add_widget_to_panel",
     "ue_set_widget_properties", "ue_configure_widget_layout", "ue_add_blueprint_component",
     "ue_spawn_pcg_volume", "ue_create_landscape", "ue_setup_sky_atmosphere",
     "ue_set_fog_properties", "ue_spawn_water_body", "ue_set_water_body_properties",
     "ue_add_material_expression", "ue_set_material_properties"}

\* What the recipes do without, and say nothing, where the engine has it not.
Features == {"BlueprintEditorLibrary", "CollisionEnabled", "InputAxisSwizzle"}

\* An answer "ok" means that what was changed is saved, unless save_asset
\* refused; one that tells of no difficulty, that what was added hangs where it
\* should, and, on an engine with the Features, that everything the options ask
\* for was done - after every order of failures, and also when the call met
\* what an earlier one left half done.
OkIsTheWhole ==
    Executed /\ reply.kind = "ok" =>
        /\ \A s \in Elements(Steps) :
              s.op = "save" /\ Active(s) => s.obj \notin unsaved \ refused
        /\ ~warned => \A obj \in fresh :
              Meant(recipe, obj) # "root" => parent[obj] = Meant(recipe, obj)
        /\ ~warned /\ tool \notin Quiet =>
              undone = {} \/ \E i \in undone : Steps[i].obj \in Features

\* The recipes that learn at the end, or half-way, what they cannot do.
LateUnsupported == {"ue_create_widget_blueprint", "ue_create_widget_component_blueprint"}

\* "unsupported" is said before anything is changed (tool_registry.cpp:47:
\* "rather than failing").
UnsupportedChangedNothing ==
    Executed /\ reply.kind = "error" /\ marked /\ tool \notin LateUnsupported => changed = {}

\* The recipes that add one more at each execution.
Appenders ==
    {"ue_create_character_blueprint", "ue_configure_third_person_camera",
     "ue_create_locomotion_animation_assets", "ue_add_widget_to_blueprint",
     "ue_add_widget_to_panel", "ue_create_widget_component_blueprint",
     "ue_add_blueprint_component", "ue_add_blueprint_function", "ue_spawn_pcg_volume",
     "ue_create_landscape", "ue_set_fog_properties", "ue_spawn_water_body",
     "ue_add_material_expression"}

\* What RcClient sends twice because the answer was lost, or the client calls
\* again, is there once.
RetryAddsNothing ==
    Executed /\ attempt = 2 /\ faults = 0 /\ tool \notin Appenders =>
        \A obj \in DOMAIN count : count[obj] <= 1

\* The recipes that create an asset and have no option to take one that is
\* there: repeated, they answer that it could not be created.
Creators ==
    {"ue_create_material", "ue_create_material_instance", "ue_create_blueprint",
     "ue_create_widget_blueprint", "ue_create_pcg_graph"}

\* A call that failed half-way, or was executed without its answer coming back,
\* succeeds when it is repeated with its reuse option, if what it needs is
\* there and no step fails this time: nothing it left behind is in its way.
RepeatSucceeds ==
    Executed /\ attempt = 2 /\ faults = first.faults /\ Reusing(recipe) \subseteq given
    /\ tool \notin Creators
    /\ (\A s \in Elements(Steps) : Active(s) =>
           /\ s.op = "find" => count[s.obj] >= 1
           /\ s.op = "check" => s.obj \notin missed) =>
        reply.kind = "ok"

\* The recipes that look for something they need after they have begun: the
\* mesh, a second asset that is there already, the player of the PIE they have
\* started, a widget tree in the asset they have created, a parent that takes
\* the widget they have made, the object of the component they have added.
Untidy ==
    {"ue_create_character_blueprint", "ue_create_enhanced_input_assets",
     "ue_create_locomotion_animation_assets", "ue_simulate_player_input",
     "ue_validate_third_person_pie", "ue_create_widget_blueprint", "ue_add_widget_to_panel",
     "ue_create_widget_component_blueprint"}

\* A call that is refused because something it needs is not there, or not as it
\* has to be, has changed nothing.
RefusalLeavesNothing ==
    Executed /\ reply.kind # "ok" /\ faults = 0 /\ tool \notin Untidy => changed = {}
=============================================================================
