---------------------------- MODULE ToolHandlers ----------------------------
(***************************************************************************)
(* How a tool handler of src/src/tool_registry.cpp turns the answers of    *)
(* one or several RemoteControl requests into ONE answer to the MCP        *)
(* client.  Every tool that is not a Python recipe is here, as the program *)
(* its handler runs: which requests, in which order, over which of the two *)
(* editor APIs, and what it makes of a request that fails.                 *)
(*                                                                         *)
(* A request is what RemoteCall says of it: answered, refused or lost, and *)
(* executed once, twice (the retry) or not at all.  `done' counts what the *)
(* editor really executed; the handler never sees it.  A behaviour is one  *)
(* call: a handler keeps nothing from one call to the next.                *)
(***************************************************************************)
EXTENDS CapabilityInference, Sequences

CONSTANTS
    Tools,       \* the tools that are called
    Engines,     \* the engines they are called on: [version, python, plugin]
    MaxLosses    \* bound: requests of a call with a lost attempt

-----------------------------------------------------------------------------
(* Programs.  A step is one request: it goes to one object, or to the      *)
(* modern object and then the legacy one, or is a batch of requests;       *)
(* `change' is the function it has the editor execute ("none" if it only   *)
(* reads), `wants' says whether the handler needs a value of the right     *)
(* shape back, `args' what it needs of the caller.                         *)

Step(via, change, args) == [via |-> via, change |-> change, args |-> args, wants |-> FALSE]
Direct(change, args) == Step("direct", change, args)
Modern(change, args) == Step("modern", change, args)   \* a UE5 object, no fallback
Dual(change, args)   == Step("dual", change, args)     \* call_modern_then_legacy
Wants(step)          == [step EXCEPT !.wants = TRUE]

\* A chain ends at the first step that fails; `none' stands for no change.
Chain(needs, steps) ==
    [needs |-> needs, policy |-> "chain", from55 |-> FALSE, steps |-> steps]
One(needs, step) == Chain(needs, <<step>>)
none == "none"

register_builtins ==
    [ue_get_engine_version |-> Chain({}, <<>>),
     ue_call_function   |-> One({"ObjectCall"}, Direct("function", {"objectPath", "functionName"})),
     ue_get_property    |-> One({"ObjectProperty"}, Direct(none, {"objectPath", "propertyName"})),
     ue_set_property    |-> One({"ObjectProperty"},
                               Direct("property", {"objectPath", "propertyName", "value"})),
     ue_search_assets   |-> One({"SearchAssets"}, Direct(none, {})),
     ue_remote_info     |-> One({"Info"}, Direct(none, {})),
     ue_describe_object |-> One({"DescribeObject"}, Direct(none, {})),
     ue_batch           |-> One({"Batch"}, Step("batch", "requests", {"requests"}))]

register_editor_helpers ==
    [ue_list_actors      |-> One({"ObjectCall"}, Dual(none, {})),
     ue_spawn_actor      |-> One({"ObjectCall"}, Dual("SpawnActorFromClass", {"actorClass"})),
     ue_destroy_actor    |-> One({"ObjectCall"}, Dual("DestroyActor", {"actorPath"})),
     ue_list_assets      |-> One({"ObjectCall"}, Dual(none, {})),
     ue_does_asset_exist |-> One({"ObjectCall"}, Dual(none, {"assetPath"}))]

\* ue_exec_console_command and ue_set_cvar: without a world context; if that
\* is refused, ask for the world and send the command again with it.
ConsoleCommand(arg) ==
    [Chain({"ObjectCall"}, <<Direct("ExecuteConsoleCommand", {arg}), Dual(none, {}),
                             Direct("ExecuteConsoleCommand", {})>>)
        EXCEPT !.policy = "console"]

register_scripting_tools ==
    [ue_python_exec          |-> One({"PythonScripting"}, Direct("python", {"code"})),
     ue_exec_console_command |-> ConsoleCommand("command"),
     ue_get_editor_world     |-> One({"ObjectCall"}, Dual(none, {})),
     ue_get_project_info     |-> [Chain({"ObjectCall"}, [k \in 1..5 |-> Direct(none, {})])
                                     EXCEPT !.policy = "ignore"]]

register_actor_tools ==
    [ue_get_actor_transform |-> One({"ObjectCall"}, Direct(none, {"actorPath"})),
     ue_set_actor_location  |-> One({"ObjectCall"}, Direct("K2_SetActorLocation", {"actorPath"})),
     ue_set_actor_rotation  |-> One({"ObjectCall"}, Direct("K2_SetActorRotation", {"actorPath"})),
     ue_set_actor_scale     |-> One({"ObjectCall"}, Direct("SetActorScale3D", {"actorPath"})),
     ue_get_actor_label     |-> One({"ObjectCall"}, Direct(none, {"actorPath"})),
     ue_set_actor_label     |-> One({"ObjectCall"}, Direct("SetActorLabel", {"actorPath"})),
     ue_get_selected_actors |-> One({"ObjectCall"}, Dual(none, {})),
     ue_select_actors       |-> One({"ObjectCall"}, Dual("SetSelectedLevelActors", {"actorPaths"})),
     ue_clear_selection     |-> One({"ObjectCall"}, Dual("SelectNothing", {}))]

register_asset_tools ==
    [ue_save_asset      |-> One({"ObjectCall"}, Dual("SaveAsset", {"assetPath"})),
     ue_save_directory  |-> One({"ObjectCall"}, Dual("SaveDirectory", {"directoryPath"})),
     ue_duplicate_asset |-> One({"ObjectCall"},
                               Dual("DuplicateAsset", {"sourcePath", "destinationPath"})),
     ue_rename_asset    |-> One({"ObjectCall"},
                               Dual("RenameAsset", {"sourcePath", "destinationPath"})),
     ue_delete_asset    |-> One({"ObjectCall"}, Dual("DeleteAsset", {"assetPath"})),
     ue_find_asset_data |-> One({"ObjectCall"}, Dual(none, {"assetPath"}))]

register_level_tools ==
    [ue_save_current_level  |-> One({"ObjectCall"}, Dual("SaveCurrentLevel", {})),
     ue_load_level          |-> One({"ObjectCall"}, Dual("LoadLevel", {"assetPath"})),
     ue_new_level           |-> One({"ObjectCall"}, Dual("NewLevel", {"assetPath"})),
     ue_get_viewport_camera |-> One({"ObjectCall"}, Dual(none, {})),
     ue_set_viewport_camera |-> One({"ObjectCall"}, Dual("SetLevelViewportCameraInfo", {})),
     ue_take_screenshot     |-> One({"ObjectCall"}, Direct("TakeHighResScreenshot", {})),
     ue_is_pie              |-> One({"PieControl"}, Modern(none, {})),
     ue_stop_pie            |-> One({"PieControl"}, Modern("EditorRequestEndPlay", {}))]

register_property_array_tools ==
    [ue_property_array_append |-> One({"PropertyArrayOps"},
         Direct("append", {"objectPath", "propertyName", "value"})),
     ue_property_array_insert |-> One({"PropertyArrayOps"},
         Direct("insert", {"objectPath", "propertyName", "value"})),
     ue_property_array_remove |-> One({"PropertyArrayOps"},
         Direct("remove", {"objectPath", "propertyName"}))]

register_preset_tools ==
    [ue_list_presets         |-> One({"Presets"}, Direct(none, {})),
     ue_get_preset           |-> One({"Presets"}, Direct(none, {"preset"})),
     ue_preset_call_function |-> One({"Presets"}, Direct("function", {"preset", "label"})),
     ue_preset_get_property  |-> One({"Presets"}, Direct(none, {"preset", "label"})),
     ue_preset_set_property  |-> One({"Presets"}, Direct("property", {"preset", "label", "value"}))]

\* List everything, then filter.
Find(arg) == Chain({"ObjectCall"}, <<Wants(Dual(none, {arg})), Wants(Direct(none, {}))>>)

register_introspection_tools ==
    [ue_find_actors_by_class |-> Find("actorClass"),
     ue_find_actors_by_label |-> Find("label"),
     ue_get_actor_components |-> One({"ObjectCall"}, Wants(Direct(none, {"actorPath"}))),
     ue_get_actor_bounds     |-> One({"ObjectCall"}, Direct(none, {"actorPath"})),
     ue_get_actor_reference  |-> One({"ObjectCall"}, Modern(none, {"pathToActor"}))]

\* Handlers that make one request per optional argument and gather the
\* results: the first looks at the body of an answer, the others at its status.
Gather(policy, steps) == [Chain({"ObjectCall"}, steps) EXCEPT !.policy = policy]

ue_set_component_relative_transform ==
    Gather("gatherBodies", <<Direct("K2_SetRelativeLocation", {"location"}),
                             Direct("K2_SetRelativeRotation", {"rotation"}),
                             Direct("SetRelativeScale3D", {"scale"})>>)

ue_set_actor_transform ==
    Gather("gatherStatuses", <<Direct("K2_SetActorLocation", {"location"}),
                               Direct("K2_SetActorRotation", {"rotation"}),
                               Direct("SetActorScale3D", {"scale"})>>)

ue_set_light_property ==
    Gather("gatherStatuses", <<Direct("SetIntensity", {"intensity"}),
                               Direct("SetLightColor", {"color"})>>)

\* The parameter's value is looked at between the two requests.
ue_set_material_param ==
    Chain({"ObjectCall"},
          <<Wants(Direct("CreateDynamicMaterialInstance", {"componentPath", "paramName", "paramType"})),
            Direct("SetParameterValue", {"value"})>>)

register_material_tools ==
    [ue_set_material_param |-> ue_set_material_param,
     ue_set_material_instance_param |-> One({"ObjectCall"},
         Direct("SetMaterialInstanceParameterValue",
                {"instancePath", "paramName", "paramType", "value"})),
     ue_get_object_thumbnail |-> One({"Thumbnail"}, Direct(none, {"objectPath"}))]

ue_focus_viewport_on_actor ==
    Chain({"ObjectCall"}, <<Wants(Direct(none, {"actorPath"})),
                            Dual("SetLevelViewportCameraInfo", {})>>)

register_workflow_tools ==
    [ue_load_asset              |-> One({"ObjectCall"}, Dual("LoadAsset", {"assetPath"})),
     ue_spawn_actor_from_asset  |-> One({"ObjectCall"}, Dual("SpawnActorFromObject", {"assetPath"})),
     ue_set_actor_transform     |-> ue_set_actor_transform,
     ue_focus_viewport_on_actor |-> ue_focus_viewport_on_actor,
     ue_set_game_view           |-> One({"ObjectCall"}, Dual("EditorSetGameView", {})),
     ue_get_console_variable    |-> One({"ObjectCall"}, Direct(none, {"name"}))]

register_scene_tools ==
    [ue_batch_spawn_actors |-> One({"Batch"}, Step("batch", "SpawnActorFromClass", {"actors"})),
     ue_duplicate_actor    |-> One({"ObjectCall"}, Dual("DuplicateActor", {"actorPath"})),
     ue_attach_actor       |-> One({"ObjectCall"},
                                   Direct("K2_AttachToActor", {"childPath", "parentPath"})),
     ue_detach_actor       |-> One({"ObjectCall"}, Direct("K2_DetachFromActor", {"actorPath"})),
     ue_set_actor_folder   |-> One({"ObjectProperty"}, Direct("FolderPath", {"actorPath"}))]

register_mesh_light_tools ==
    [ue_set_static_mesh    |-> One({"ObjectCall"}, Direct("SetStaticMesh", {"componentPath", "meshPath"})),
     ue_set_actor_material |-> One({"ObjectCall"}, Direct("SetMaterial", {"componentPath", "materialPath"})),
     ue_set_light_property |-> ue_set_light_property]

register_data_debug_tools ==
    [ue_set_cvar  |-> ConsoleCommand("name"),
     ue_start_pie |-> [One({"PieControl"}, Modern("EditorRequestBeginPlay", {}))
                          EXCEPT !.from55 = TRUE]]

registrations ==
    {register_builtins, register_editor_helpers, register_scripting_tools,
     register_actor_tools, register_asset_tools, register_level_tools,
     register_property_array_tools, register_preset_tools,
     register_introspection_tools,
     [ue_set_component_relative_transform |-> ue_set_component_relative_transform],
     register_material_tools, register_workflow_tools, register_scene_tools,
     register_mesh_light_tools, register_data_debug_tools}

Registered == UNION {DOMAIN r : r \in registrations}
Handler(t) == (CHOOSE r \in registrations : t \in DOMAIN r)[t]

ASSUME HandlersAssumption ==
    /\ Tools \subseteq Registered
    /\ \A e \in Engines : e.python \in BOOLEAN /\ e.plugin \in BOOLEAN
    /\ MaxLosses \in Nat

-----------------------------------------------------------------------------
(* What a request comes back with, as far as the handlers tell it apart:   *)
(*   value            200 with what the caller looks for in the body       *)
(*   empty            200 without it                                       *)
(*   bodyError        200 with an errorMessage                             *)
(*   bodyUnavailable  200 with one that says the object is not there       *)
(*   httpError        another status                                       *)
(*   httpUnavailable  404, or another status with such a message           *)
(*   lost             not connected, or connection lost                    *)

Answers == {"value", "empty", "bodyError", "bodyUnavailable", "httpError",
            "httpUnavailable", "lost"}

ok(k)         == k \in {"value", "empty", "bodyError", "bodyUnavailable"}
body_error(k) == k \in {"bodyError", "bodyUnavailable"}

\* Mutant of should_try_fallback: an answer without a value is no answer.
should_try_fallback_empty(k) == k \in {"bodyUnavailable", "httpUnavailable", "empty"}

should_try_fallback(k) == k \in {"bodyUnavailable", "httpUnavailable"}

\* Mutant of from_rc: the status alone decides.
from_rc_status(k) == IF ok(k) THEN "ok" ELSE "error"

\* Mutant of from_rc: an answer without a value is an error.
from_rc_value(k) == IF k = "value" THEN "ok" ELSE "error"

from_rc(k) == IF ok(k) /\ ~body_error(k) THEN "ok" ELSE "error"

\* How often the editor may have executed a request that came back with k.
Executions(via, k, loss) ==
    LET most == IF loss THEN 2 ELSE 1
    IN  CASE k \in {"value", "empty"} -> IF via = "batch" THEN 0..most ELSE 1..most
          [] k = "lost" -> IF loss THEN 0..2 ELSE {}
          [] OTHER -> 0..(most - 1)

VARIABLES
    engine,      \* the engine the server is connected to
    tool, given, \* the call and the arguments that are there
    handler,     \* what invoke() finds under the tool's name
    step,        \* the step the handler is at
    modern,      \* a dual request: what the modern object answered, or none
    saved,       \* a console command: what the first attempt came to
    applied,     \* the changes recorded as made
    failed,      \* some gathered request failed
    done,        \* change -> how often the editor executed it in this call
    losses,      \* requests of this call with a lost attempt (bounded)
    reply        \* "none" while the handler runs

vars == <<engine, tool, given, handler, step, modern, saved, applied, failed,
          done, losses, reply>>

Steps     == handler.steps
Changes   == {Steps[k].change : k \in DOMAIN Steps} \ {none}
Arguments == UNION {Steps[k].args : k \in DOMAIN Steps}

TypeOK ==
    /\ engine \in Engines
    /\ tool \in Tools
    /\ handler = Handler(tool)
    /\ given \subseteq Arguments
    /\ step \in 1..(Len(Steps) + 1)
    /\ modern \in Answers \cup {none}
    /\ saved \in Answers \cup {none}
    /\ applied \subseteq Changes
    /\ failed \in BOOLEAN
    /\ done \in [Changes -> Nat]
    /\ losses \in 0..MaxLosses
    /\ reply \in {"ready", "none", "ok", "error", "badArguments", "unsupported"}

Init ==
    /\ engine \in Engines
    /\ tool \in Tools
    /\ handler = Handler(tool)
    /\ given = {}
    /\ step = 1
    /\ modern = none
    /\ saved = none
    /\ applied = {}
    /\ failed = FALSE
    /\ done = [c \in Changes |-> 0]
    /\ losses = 0
    /\ reply = "ready"

Policy == handler.policy
Gathers == Policy \in {"gatherBodies", "gatherStatuses"}
Current == Steps[step]
AtStep == reply = "none" /\ step <= Len(Steps)

capabilities ==
    infer_from_version(at_least(engine.version, 4, 26), {}, engine.version, engine.python)

\* The objects the engines have: the subsystems came with UE5, the libraries
\* of UE4 (still there in UE5) belong to the EditorScriptingUtilities plugin.
Exists(via, first) ==
    CASE via = "modern" \/ (via = "dual" /\ first) -> at_least(engine.version, 5, 0)
      [] via = "dual" /\ ~first -> engine.plugin
      [] OTHER -> TRUE

-----------------------------------------------------------------------------
\* tools/call reaches invoke(), which gates the tool; ue_start_pie asks for
\* 5.5 on top of its capability, if it knows the version.
CallTool(args) ==
    /\ reply = "ready"
    /\ given' = args
    /\ reply' = IF \/ ~(handler.needs \subseteq capabilities)
                   \/ /\ handler.from55
                      /\ known(engine.version) /\ ~at_least(engine.version, 5, 5)
                THEN "unsupported" ELSE "none"
    /\ UNCHANGED <<engine, tool, handler, step, modern, saved, applied, failed, done, losses>>

\* Arguments are looked at when their step comes.
RefuseArguments ==
    /\ AtStep /\ ~Gathers
    /\ ~(Current.args \subseteq given)
    /\ reply' = "badArguments"
    /\ UNCHANGED <<engine, tool, handler, given, step, modern, saved, applied, failed,
                   done, losses>>

\* A gathering handler passes over what it was not asked to change.
SkipStep ==
    /\ AtStep /\ Gathers
    /\ ~(Current.args \subseteq given)
    /\ step' = step + 1
    /\ UNCHANGED <<engine, tool, handler, given, modern, saved, applied, failed, done,
                   losses, reply>>

\* Mutant of NextStep: a step of the program is passed over.
NextStepPassingOne ==
    /\ step' = step + 2
    /\ modern' = none
    /\ UNCHANGED reply

NextStep ==
    /\ step' = step + 1
    /\ modern' = none
    /\ UNCHANGED reply

Reply(what) ==
    /\ reply' = what
    /\ UNCHANGED <<step, modern>>

\* The handler returns from_rc of the step that ends its chain.
ConcludeChain(k) ==
    /\ IF step = Len(Steps) \/ (Current.wants /\ k # "value")
       THEN Reply(from_rc(k))
       ELSE NextStep
    /\ UNCHANGED <<saved, applied, failed>>

\* ue_get_project_info puts null for what it could not read.
ConcludeIgnore(k) == NextStep /\ UNCHANGED <<saved, applied, failed>>

ConcludeGather(k) ==
    LET succeeded == ok(k) /\ (Policy = "gatherBodies" => ~body_error(k))
    IN  /\ applied' = IF succeeded THEN applied \cup {Current.change} ELSE applied
        /\ failed' = (failed \/ ~succeeded)
        /\ NextStep
        /\ UNCHANGED saved

\* Command, world, command with world; the first answer if that did not help.
ConcludeConsole(k) ==
    /\ CASE step = 1 -> IF ok(k) /\ ~body_error(k)
                        THEN Reply(from_rc(k)) /\ UNCHANGED saved
                        ELSE NextStep /\ saved' = k
         [] step = 2 -> /\ IF k = "value" THEN NextStep ELSE Reply(from_rc(saved))
                        /\ UNCHANGED saved
         [] step = 3 -> /\ Reply(from_rc(IF ok(k) THEN k ELSE saved))
                        /\ UNCHANGED saved
    /\ UNCHANGED <<applied, failed>>

Conclude(k) ==
    CASE Policy = "chain"   -> ConcludeChain(k)
      [] Policy = "ignore"  -> ConcludeIgnore(k)
      [] Policy = "console" -> ConcludeConsole(k)
      [] Gathers            -> ConcludeGather(k)

\* One request and what becomes of it.  A dual one prefers the legacy object's
\* result to the modern one's complaint, unless it is of no use either.
Request(k, loss, n) ==
    /\ AtStep
    /\ Current.args \subseteq given
    /\ n \in Executions(Current.via, k, loss)
    /\ Exists(Current.via, modern = none) \/ (k \in {"httpUnavailable", "bodyUnavailable", "lost"} /\ n = 0)
    /\ losses' = IF loss THEN losses + 1 ELSE losses
    /\ loss => losses < MaxLosses
    /\ done' = IF Current.change = none THEN done ELSE [done EXCEPT ![Current.change] = @ + n]
    /\ IF Current.via = "dual" /\ modern = none /\ should_try_fallback(k)
       THEN modern' = k /\ UNCHANGED <<step, saved, applied, failed, reply>>
       ELSE Conclude(IF modern = none \/ (ok(k) /\ ~should_try_fallback(k)) THEN k ELSE modern)
    /\ UNCHANGED <<engine, tool, handler, given>>

\* Mutant of Finish: every optional argument is required, in hindsight.
FinishRequiringAll ==
    /\ reply = "none" /\ step > Len(Steps)
    /\ reply' = IF failed THEN "error"
                ELSE IF Gathers /\ given # Arguments THEN "badArguments" ELSE "ok"
    /\ UNCHANGED <<engine, tool, handler, given, step, modern, saved, applied, failed,
                   done, losses>>

\* The handler runs out of steps.
Finish ==
    /\ reply = "none" /\ step > Len(Steps)
    /\ reply' = IF failed THEN "error"
                ELSE IF Gathers /\ applied = {} THEN "badArguments" ELSE "ok"
    /\ UNCHANGED <<engine, tool, handler, given, step, modern, saved, applied, failed,
                   done, losses>>

Next ==
    \/ \E args \in SUBSET Arguments : CallTool(args)
    \/ RefuseArguments \/ SkipStep \/ Finish
    \/ \E k \in Answers, loss \in BOOLEAN, n \in 0..2 : Request(k, loss, n)

Spec == Init /\ [][Next]_vars

-----------------------------------------------------------------------------
(* Properties.                                                             *)

\* The changes the caller asked for.
Asked ==
    {Steps[k].change :
        k \in {j \in DOMAIN Steps : Gathers => Steps[j].args \subseteq given}} \ {none}

Done(c) == done[c] >= 1

\* tool_registry.cpp:124-125: a 200 with an errorMessage is "an error too, not
\* success".  What a reply reports as made - everything that was asked for if
\* its status is "ok", else what it lists as applied - the editor has executed.
OkIsDone ==
    /\ reply = "ok" => \A c \in Asked : Done(c)
    /\ reply \in {"ok", "error"} => \A c \in applied : Done(c)

\* When no attempt was lost, an error is reported only of a call that has left
\* out something it was asked to change.
ErrorIsNotDone ==
    reply = "error" /\ losses = 0 /\ Asked # {} => \E c \in Asked : ~Done(c)

\* When no attempt was lost, no handler has the editor execute a change twice:
\* neither the fallback to the other API nor the world-context retry repeats
\* what the first request already did.
NeverRepeated ==
    losses = 0 => \A c \in Changes : done[c] <= 1

\* A call whose arguments are refused has changed nothing.
RefusedArgumentsChangeNothing ==
    reply = "badArguments" => \A c \in Changes : done[c] = 0

\* Handlers that look at the status of an answer only (tool_registry.cpp:3289,
\* 3422), so that a 200 with an errorMessage counts as done.
StatusOnly == {"ue_set_actor_transform", "ue_set_light_property"}

\* Handlers that answer ok when their first request brought nothing to go on
\* with (3079, 3329).
FirstStep == {"ue_set_material_param", "ue_focus_viewport_on_actor"}

\* Handlers that leave the answers of a batch's requests to the caller.
Batches == {"ue_batch", "ue_batch_spawn_actors"}

\* The other handlers report as done only what the editor has executed,
\* which those above do not.
OkIsDoneIfCandid == tool \notin StatusOnly \cup FirstStep \cup Batches => OkIsDone

\* ue_set_material_param has created the material instance when it misses the
\* value (3085); no other handler has changed anything when it refuses its
\* arguments, those that find out only at the end that none was given included.
RefusalChangesNothing == tool # "ue_set_material_param" => RefusedArgumentsChangeNothing
=============================================================================
