-------------------------- MODULE RecipePrograms --------------------------
(***************************************************************************)
(* What the Python recipes of src/src/tool_registry.cpp do to the editor:  *)
(* one definition per tool, as the sequence of steps of its script, with   *)
(* what becomes of a step that fails.  The scripts probe several names of  *)
(* an Unreal API and convert values back and forth; a step stands for all  *)
(* the ways in which one effect is tried, and for all the effects of a     *)
(* kind that follow one another.  Where these can fail in several ways, it *)
(* fails in the one that tells the caller least, or there are two steps.   *)
(* Arguments have the types of their schemas.  RecipeTools runs them.      *)
(***************************************************************************)
EXTENDS Sequences

(***************************************************************************)
(* A step is                                                               *)
(*   op     what it does to its object:                                    *)
(*          "check"   asks for what engine, files or level must provide    *)
(*          "find"    loads or looks up an object that must be there       *)
(*          "new"     creates it; what is there already makes that fail    *)
(*          "make"    creates it, or takes what is there if `reuse' says   *)
(*          "ensure"  creates it if it is not there                        *)
(*          "replace" puts a new one in the place of what is there, if     *)
(*                    `reuse' says so or nothing is there                  *)
(*          "add"     adds one more, whatever is there                     *)
(*          "supply"  adds one more, unless there is one of its `reuse'    *)
(*          "set"     changes it; "compile"; "save"; "end" removes it      *)
(*          "got"     asks whether an earlier, tolerant step got it        *)
(*   fails  what a failure of it comes to: "error" ends the script with    *)
(*          ok=false; "unsupported" does so with the mark that makes the   *)
(*          handler answer "unsupported"; "warns" goes on and says so in   *)
(*          the answer; "silent" goes on and does not; "mute" ends the     *)
(*          script without an answer; "bare" ends it with ok=false and no  *)
(*          error text.  What is missing from an answer's lists of what    *)
(*          was applied counts as silence                                  *)
(*   when   the optional arguments without which it is passed over         *)
(*   unless those with which it is passed over                             *)
(*   with   objects without which it is passed over, when a step that      *)
(*          tolerates failure could not get them                           *)
(*   under  the component that a new component is attached to, if the      *)
(*          same execution has added it; else it goes to the root          *)
(*   reuse  the option by which "make" and "replace" take what is there,   *)
(*          or "always"                                                    *)
(***************************************************************************)
Step(op, obj) ==
    [op |-> op, obj |-> obj, fails |-> "error", when |-> {}, unless |-> {}, with |-> {},
     under |-> "root", reuse |-> "reuseExisting"]

Check(o)   == Step("check", o)
Find(o)    == Step("find", o)
New(o)     == Step("new", o)
Make(o)    == Step("make", o)
Ensure(o)  == Step("ensure", o)
Replace(o) == Step("replace", o)
Add(o)     == Step("add", o)
Supply(o, there) == [Step("supply", o) EXCEPT !.reuse = there]
Set(o)     == Step("set", o)
Compile(o) == Step("compile", o)
Save(o)    == Step("save", o)
Got(o)     == Step("got", o)
End(o)     == Step("end", o)

Unsupported(s) == [s EXCEPT !.fails = "unsupported"]
Warns(s)       == [s EXCEPT !.fails = "warns"]
Silent(s)      == [s EXCEPT !.fails = "silent"]
Mute(s)        == [s EXCEPT !.fails = "mute"]
Bare(s)        == [s EXCEPT !.fails = "bare"]
If(option, s)  == [s EXCEPT !.when = @ \cup {option}]
Unless(option, s) == [s EXCEPT !.unless = @ \cup {option}]
With(o, s)     == [s EXCEPT !.with = @ \cup {o}]
Under(o, s)    == [s EXCEPT !.with = @ \cup {o}, !.under = o]
Reuse(option, s) == [s EXCEPT !.reuse = option]

\* The arguments the handler insists on before it sends the script, what is
\* part of what, and the script.
Recipe(args, parts, steps) == [args |-> args, parts |-> parts, steps |-> steps]

OfAsset(parts) == [p \in parts |-> "asset"]
NoParts == OfAsset({})

\* Many scripts compile only if the engine has this library, and say nothing
\* where it has not.
Compiler == Check("BlueprintEditorLibrary")
Compiles(o) == With("BlueprintEditorLibrary", Compile(o))

-----------------------------------------------------------------------------
(* Components of actors and blueprints.                                    *)

ue_get_component_transform == Recipe({"componentPath"}, NoParts, <<Find("component")>>)
ue_get_component_bounds == Recipe({"componentPath or actorPath"}, NoParts, <<Find("component")>>)
ue_get_blueprint_components ==
    Recipe({"blueprintPath"}, NoParts, <<Find("asset"), Check("generated class")>>)

ue_fit_mesh_component_to_height ==
    Recipe({"componentPath", "targetHeight"}, NoParts,
           <<Find("component"), Check("local bounds"), Check("height"),
             If("apply", Set("component"))>>)

\* The component is looked for among the SCS nodes and the class defaults; its
\* fallback setters swallow what they raise.
ue_set_blueprint_component_template_transform ==
    Recipe({"blueprintPath", "componentName"}, OfAsset({"component"}),
           <<Find("asset"), Find("component"), Silent(Set("component")),
             Silent(If("compile", Compiler)), Warns(If("compile", Compiles("asset"))),
             Warns(If("save", Save("asset")))>>)

\* An asset that does not load leaves out the scale without a word.
ue_normalize_imported_character_mesh ==
    Recipe({}, NoParts,
           <<Check("axes"), Warns(Check("rotator")), Silent(If("targetHeight", Find("asset"))),
             Warns(If("targetHeight", With("asset", Check("bounds")))),
             Warns(If("apply", Find("component"))),
             If("apply", With("component", With("rotator", Set("component")))),
             If("apply", If("targetHeight", With("component", With("bounds", With("asset",
                Set("component"))))))>>)

\* An input that no injector takes may move the pawn instead.
ue_simulate_player_input ==
    Recipe({}, NoParts,
           <<Warns(If("startPie", Ensure("PIE"))), Check("world"), Check("player"),
             Silent(Set("player")), If("fallbackMovementInput", Set("player")),
             Warns(If("stopPie", End("PIE")))>>)

-----------------------------------------------------------------------------
(* Creation and import of assets.                                          *)

\* connect_material_property answers with a Boolean, which is not looked at.
ue_create_material ==
    Recipe({"name", "packagePath"}, OfAsset({"expression"}),
           <<New("asset"), If("baseColor", Add("expression")), If("baseColor", Set("expression")),
             Silent(If("baseColor", Set("asset"))), If("baseColor", Compile("asset")),
             Save("asset")>>)

\* The answer says parentSet=false when the parent did not load.
ue_create_material_instance ==
    Recipe({"name", "packagePath", "parentMaterialPath"}, NoParts,
           <<New("asset"), Warns(Find("parent")), With("parent", Set("asset")), Save("asset")>>)

\* _validate_source_file and _validate_destination come first, one "check" for
\* each of the facts that end the script.
\* One call of import_asset_tasks: the task replaces what is there, and saves.
ue_import_asset ==
    Recipe({"sourceFile", "destinationPath"}, NoParts,
           <<Check("sourceFile"), Check("extension"), Check("allowedRootDirs"),
             Check("expectedSha1"), Check("expectedSizeBytes"), Check("destinationPath"),
             Reuse("always", Replace("asset")), Silent(Save("asset"))>>)

\* Where the engine has no such mesh type, the import goes on without it.
ue_import_asset_with_transform_policy ==
    Recipe({"sourceFile", "destinationPath"}, NoParts,
           <<Check("sourceFile"), Check("extension"), Check("allowedRootDirs"),
             Check("expectedSha1"), Check("expectedSizeBytes"), Check("destinationPath"),
             Silent(If("importAsSkeletal", Check("mesh type"))), Warns(Check("options")),
             Reuse("replaceExisting", Replace("asset")), Silent(If("save", Save("asset")))>>)

\* Mutant of ue_create_folder: a folder that is there is an error.
ue_create_folder_new == Recipe({"path"}, NoParts, <<New("folder")>>)

ue_create_folder == Recipe({"path"}, NoParts, <<Ensure("folder")>>)
ue_data_table_get_rows == Recipe({"tablePath"}, NoParts, <<Find("asset")>>)

-----------------------------------------------------------------------------
(* Blueprints and characters.                                              *)

\* A parent class that does not resolve is taken for Actor, without a word.
ue_create_blueprint ==
    Recipe({"name", "packagePath"}, NoParts,
           <<Silent(If("parentClass", Find("parentClass"))), New("asset"), Save("asset")>>)

\* A variable of that name is one, however often it is added; a type that is
\* not known is taken for a Boolean, and that it was not added is not looked at.
ue_add_blueprint_variable ==
    Recipe({"blueprintPath", "variableName", "variableType"}, OfAsset({"variable"}),
           <<Find("asset"), Compiler, Silent(Check("variableType")), Silent(Ensure("variable")),
             Silent(If("isInstanceEditable", Set("variable"))), Compile("asset"), Save("asset")>>)

ue_compile_blueprint ==
    Recipe({"blueprintPath"}, NoParts,
           <<Find("asset"), Compiler, Compile("asset"), Save("asset")>>)

\* Mesh and animation are loaded half-way, with changes made; the camera is
\* added last, with what goes wrong told among the strategies.
ue_create_character_blueprint ==
    Recipe({"name", "packagePath"}, OfAsset({"boom", "camera"}),
           <<Make("asset"), Silent(Compiler), Compiles("asset"), Check("class defaults"),
             Warns(Set("asset")), Warns(Check("mesh")),
             If("meshes", With("mesh", Find("skeletal mesh"))),
             Warns(With("mesh", Set("asset"))),
             If("meshes", With("mesh", Find("animation blueprint"))),
             Warns(If("meshes", With("mesh", Set("asset")))),
             Warns(Set("asset")),
             Warns(If("addCamera", Add("boom"))), Warns(If("addCamera", With("boom", Set("boom")))),
             Warns(If("addCamera", Under("boom", Add("camera")))),
             Warns(If("addCamera", With("camera", Set("camera")))),
             Compiles("asset"), Save("asset")>>)

\* Mutant of ue_configure_character_movement: saved before it is changed.
ue_configure_character_movement_unsaved ==
    Recipe({"blueprintPath"}, NoParts,
           <<Find("asset"), Check("class defaults"), Save("asset"), Warns(Set("asset"))>>)

ue_configure_character_movement ==
    Recipe({"blueprintPath"}, NoParts,
           <<Find("asset"), Silent(Compiler), Compiles("asset"), Check("class defaults"),
             Warns(Set("asset")), Warns(If("animBlueprintPath", Find("animation blueprint"))),
             Warns(If("animBlueprintPath", With("animation blueprint", Set("asset")))),
             Warns(Set("asset")), Compiles("asset"), Save("asset")>>)

ue_calibrate_character_collision ==
    Recipe({"blueprintPath"}, NoParts,
           <<Find("asset"), Silent(Compiler), Compiles("asset"), Check("class defaults"),
             Warns(Set("asset")), Silent(Check("CollisionEnabled")),
             Warns(With("CollisionEnabled", Set("asset"))), Compiles("asset"), Save("asset")>>)

\* Boom and camera are looked for on the class default object, which has those
\* of a native parent class but none that were added to the blueprint: they
\* are added at each execution, and not found after it.
ue_configure_third_person_camera ==
    Recipe({"blueprintPath"}, OfAsset({"boom", "camera"}),
           <<Find("asset"), Silent(Compiler), Compiles("asset"), Check("class defaults"),
             Warns(Supply("boom", "native boom")),
             Warns(Under("boom", Supply("camera", "native camera"))), Compiles("asset"),
             Warns(Find("native boom")), Warns(With("native boom", Set("native boom"))),
             Warns(Find("native camera")), Warns(With("native camera", Set("native camera"))),
             Compiles("asset"), Save("asset")>>)

\* The mappings are cleared before they are made, and their modifiers outside
\* of the try that guards them; the four assets are saved at the end only.
ue_create_enhanced_input_assets ==
    Recipe({"packagePath"}, [p \in {"mappings"} |-> "context"],
           <<Unsupported(Check("EnhancedInput")),
             Make("move"), Make("look"), Make("jump"), Make("context"),
             Warns(Set("move")), Warns(Set("look")), Warns(Set("jump")),
             Warns(End("mappings")), Silent(Check("InputAxisSwizzle")), Set("context"),
             Warns(Add("mappings")),
             Save("move"), Save("look"), Save("jump"), Save("context")>>)

ue_create_locomotion_animation_assets ==
    Recipe({"packagePath", "skeletonPath"}, [p \in {"sample"} |-> "blend space"],
           <<Unsupported(Check("factories")), Find("skeleton"),
             Warns(If("previewMeshPath", Find("preview mesh"))), Warns(Check("factory")),
             Make("asset"), Make("blend space"), Silent(Check("blend parameters")),
             Warns(With("blend parameters", Set("blend space"))),
             Warns(If("animations", Find("sequence"))),
             Warns(If("animations", With("sequence", Add("sample")))),
             Silent(Compiler), Warns(Compiles("asset")), Save("asset"), Save("blend space")>>)

\* Mutant of ue_set_game_defaults: the settings are asked for too late.
ue_set_game_defaults_late ==
    Recipe({}, NoParts, <<Warns(Set("settings")), Unsupported(Check("GameMapsSettings"))>>)

ue_set_game_defaults ==
    Recipe({}, NoParts,
           <<Unsupported(Check("GameMapsSettings")), Check("settings"),
             Warns(If("saveCurrentLevel", Save("level"))), Warns(If("maps", Set("settings"))),
             Warns(If("gameModePath", Find("game mode"))),
             Warns(If("gameModePath", With("game mode", Set("settings")))),
             Warns(Save("settings"))>>)

ue_validate_third_person_pie ==
    Recipe({}, NoParts,
           <<Warns(If("startPie", Ensure("PIE"))), Check("world"), Check("player"),
             Warns(Set("player")), Warns(If("stopPie", End("PIE")))>>)

-----------------------------------------------------------------------------
(* Widgets.                                                                *)

\* A root type that is not known is taken for a CanvasPanel.  Two ways to set
\* the root; that there is none is found out about after the compilation and
\* the save.
ue_create_widget_blueprint ==
    Recipe({"name", "packagePath"}, OfAsset({"root"}),
           <<Silent(If("rootType", Check("rootType"))), New("asset"), Warns(Check("widget tree")),
             Warns(With("widget tree", Ensure("root"))),
             Silent(Compiler), Warns(Compiles("asset")), Save("asset"),
             Unsupported(Got("root"))>>)

ue_add_widget_to_blueprint ==
    Recipe({"blueprintPath", "widgetType", "widgetName"}, OfAsset({"widget"}),
           <<Find("asset"), Check("widget type"), Check("widget tree"), Add("widget"),
             Warns(Check("root")), Warns(With("root", Set("asset"))),
             Silent(If("text", Set("widget"))), Silent(Compiler), Compiles("asset"),
             Save("asset")>>)

ue_inspect_widget_blueprint ==
    Recipe({"blueprintPath"}, NoParts, <<Find("asset"), Check("widget tree")>>)

\* The widget is constructed before it is known whether the parent takes it;
\* setters that the widget or its slot does not have are passed over.
ue_add_widget_to_panel ==
    Recipe({"blueprintPath", "widgetType", "widgetName"}, OfAsset({"panel", "widget"}),
           <<Find("asset"), Check("root widget"), Find("panel"), Check("widget type"),
             Add("widget"), Check("accepts children"), Set("panel"),
             Warns(Set("widget")), Silent(Set("widget")),
             Silent(Compiler), Compiles("asset"), Save("asset")>>)

ue_set_widget_properties ==
    Recipe({"blueprintPath", "properties"}, OfAsset({"widget"}),
           <<Find("asset"), Find("widget"), Warns(Set("widget")), Silent(Set("widget")),
             Silent(Compiler), Compiles("asset"), Save("asset")>>)

ue_configure_widget_layout ==
    Recipe({"blueprintPath", "widgetName", "layout"}, OfAsset({"widget"}),
           <<Find("asset"), Find("widget"), Check("slot"),
             Warns(Set("widget")), Silent(Set("widget")),
             Silent(Compiler), Compiles("asset"), Save("asset")>>)

\* If the component that was added cannot be looked up, neither branch emits.
ue_create_widget_component_blueprint ==
    Recipe({"name", "packagePath", "widgetBlueprintPath"}, OfAsset({"component"}),
           <<Find("widget blueprint"), Check("generated class"), Make("asset"),
             Silent(Compiler), Compiles("asset"),
             Unsupported(Check("SubobjectDataSubsystem")), Unsupported(Add("component")),
             Mute(Check("object of the handle")), Warns(Set("component")),
             Compiles("asset"), Save("asset")>>)

-----------------------------------------------------------------------------
(* Blueprint graph and PCG.                                                *)

\* A parent that is not there is replaced by the root, a name that is not
\* taken is passed over; the answer tells neither.
ue_add_blueprint_component ==
    Recipe({"blueprintPath", "componentClass", "componentName"}, OfAsset({"component"}),
           <<Find("asset"), Check("component class"), Check("SubobjectDataSubsystem"),
             Silent(If("parentComponentName", Find("parent"))), Add("component"),
             Silent(Set("component")), Silent(Compiler), Compiles("asset"), Save("asset")>>)

ue_set_blueprint_class_default ==
    Recipe({"blueprintPath", "propertyName", "value"}, NoParts,
           <<Find("asset"), Silent(Compiler), Compiles("asset"), Check("generated class"),
             Set("asset"), Compiles("asset"), Save("asset")>>)

\* Mutant of ue_reparent_blueprint: the class is looked up too late.
ue_reparent_blueprint_late ==
    Recipe({"blueprintPath", "newParentClass"}, NoParts,
           <<Find("asset"), Set("asset"), Check("parent class"),
             Compile("asset"), Save("asset")>>)

ue_reparent_blueprint ==
    Recipe({"blueprintPath", "newParentClass"}, NoParts,
           <<Find("asset"), Compiler, Check("parent class"),
             Set("asset"), Compile("asset"), Save("asset")>>)

ue_add_blueprint_function ==
    Recipe({"blueprintPath", "functionName"}, OfAsset({"function"}),
           <<Find("asset"), Compiler, Check("add_function_graph"), Add("function"),
             Compile("asset"), Save("asset")>>)

ue_create_pcg_graph ==
    Recipe({"name", "packagePath"}, NoParts, <<Check("PCG"), New("asset"), Save("asset")>>)

ue_spawn_pcg_volume ==
    Recipe({}, NoParts,
           <<Check("PCG"), Add("volume"), Silent(If("scale", Set("volume"))),
             Warns(If("graphPath", Find("graph"))), Warns(If("graphPath", Check("PCGComponent"))),
             Warns(If("graphPath", With("graph", With("PCGComponent", Set("volume")))))>>)

ue_assign_pcg_graph ==
    Recipe({"actorPath", "graphPath"}, NoParts,
           <<Check("PCG"), Find("actor"), Find("graph"), Check("PCGComponent"), Set("actor"),
             Warns(If("generate", Set("actor")))>>)

-----------------------------------------------------------------------------
(* Terrain, sky and water: actors of the level, which no recipe saves.     *)

\* The sizes in the answer are those of the call: nothing applies them.
ue_create_landscape ==
    Recipe({}, NoParts, <<Check("Landscape"), Add("landscape"), Silent(Set("landscape"))>>)

ue_set_landscape_material ==
    Recipe({"materialPath"}, NoParts, <<Find("material"), Find("landscape"), Set("landscape")>>)

ue_get_landscape_info == Recipe({}, NoParts, <<>>)

\* Mutant of ue_setup_sky_atmosphere: one more sun each time.
ue_setup_sky_atmosphere_adding ==
    Recipe({}, NoParts, <<Warns(Ensure("sky")), Warns(Add("sun")), Warns(Ensure("sky light"))>>)

\* What became of each actor is in the answer, what became of its settings not.
ue_setup_sky_atmosphere ==
    Recipe({}, NoParts,
           <<Warns(Ensure("sky")), Warns(Ensure("sun")), Silent(With("sun", Set("sun"))),
             Warns(Ensure("sky light")), Silent(With("sky light", Set("sky light"))),
             Warns(If("addClouds", Ensure("cloud"))), Warns(If("addFog", Ensure("fog")))>>)

ue_set_sun_direction == Recipe({"pitch", "yaw"}, NoParts, <<Find("light"), Set("light")>>)

\* The level is searched for a fog only when the call names none; a name under
\* which there is none gets a new fog each time.
ue_set_fog_properties ==
    Recipe({}, NoParts,
           <<Check("fog class"), Unless("fogPath", Ensure("fog")),
             If("fogPath", Supply("fog", "fog of that name")), Silent(Check("fog component")),
             Silent(With("fog component", Set("fog")))>>)

ue_spawn_water_body ==
    Recipe({"bodyType"}, NoParts,
           <<Check("bodyType"), Check("Water"), Add("water body"),
             Silent(If("scale", Set("water body")))>>)

ue_set_water_body_properties ==
    Recipe({"waterBodyPath"}, NoParts,
           <<Find("water body"), Silent(Set("water body")),
             Silent(If("waterMaterialPath", Find("material"))),
             Silent(If("waterMaterialPath", With("material", Set("water body"))))>>)

-----------------------------------------------------------------------------
(* Material graphs.                                                        *)

ue_add_material_expression ==
    Recipe({"materialPath", "expressionClass"}, OfAsset({"expression"}),
           <<Find("asset"), Check("expression class"), Add("expression"),
             Silent(Set("expression")), Silent(If("textureValue", Find("texture"))),
             Silent(If("textureValue", With("texture", Set("expression")))),
             Compile("asset"), Save("asset")>>)

\* A refused connection is compiled and saved before it is reported.
ue_connect_material_expressions ==
    Recipe({"materialPath", "fromNodeId", "toNodeId"}, OfAsset({"from", "to", "link"}),
           <<Find("asset"), Find("from"), Find("to"), Check("connect"),
             Warns(Ensure("link")), Compile("asset"), Save("asset"), Got("link")>>)

ue_connect_material_property ==
    Recipe({"materialPath", "nodeId", "property"}, OfAsset({"from", "link"}),
           <<Find("asset"), Find("from"), Check("property"), Check("connect"),
             Warns(Ensure("link")), Compile("asset"), Save("asset"), Bare(Got("link"))>>)

\* A mode that is not known is taken for the first one.
ue_set_material_properties ==
    Recipe({"materialPath"}, NoParts,
           <<Find("asset"), Silent(Check("modes")), Silent(Set("asset")),
             Compile("asset"), Save("asset")>>)

-----------------------------------------------------------------------------
(* The tools by name.                                                      *)

Recipes ==
    [ue_get_component_transform |-> ue_get_component_transform,
     ue_get_component_bounds |-> ue_get_component_bounds,
     ue_get_blueprint_components |-> ue_get_blueprint_components,
     ue_fit_mesh_component_to_height |-> ue_fit_mesh_component_to_height,
     ue_set_blueprint_component_template_transform |-> ue_set_blueprint_component_template_transform,
     ue_normalize_imported_character_mesh |-> ue_normalize_imported_character_mesh,
     ue_simulate_player_input |-> ue_simulate_player_input,
     ue_create_material |-> ue_create_material,
     ue_create_material_instance |-> ue_create_material_instance,
     ue_import_asset |-> ue_import_asset,
     ue_import_asset_with_transform_policy |-> ue_import_asset_with_transform_policy,
     ue_create_folder |-> ue_create_folder,
     ue_data_table_get_rows |-> ue_data_table_get_rows,
     ue_create_blueprint |-> ue_create_blueprint,
     ue_add_blueprint_variable |-> ue_add_blueprint_variable,
     ue_compile_blueprint |-> ue_compile_blueprint,
     ue_create_character_blueprint |-> ue_create_character_blueprint,
     ue_configure_character_movement |-> ue_configure_character_movement,
     ue_calibrate_character_collision |-> ue_calibrate_character_collision,
     ue_configure_third_person_camera |-> ue_configure_third_person_camera,
     ue_create_enhanced_input_assets |-> ue_create_enhanced_input_assets,
     ue_create_locomotion_animation_assets |-> ue_create_locomotion_animation_assets,
     ue_set_game_defaults |-> ue_set_game_defaults,
     ue_validate_third_person_pie |-> ue_validate_third_person_pie,
     ue_create_widget_blueprint |-> ue_create_widget_blueprint,
     ue_add_widget_to_blueprint |-> ue_add_widget_to_blueprint,
     ue_inspect_widget_blueprint |-> ue_inspect_widget_blueprint,
     ue_add_widget_to_panel |-> ue_add_widget_to_panel,
     ue_set_widget_properties |-> ue_set_widget_properties,
     ue_configure_widget_layout |-> ue_configure_widget_layout,
     ue_create_widget_component_blueprint |-> ue_create_widget_component_blueprint,
     ue_add_blueprint_component |-> ue_add_blueprint_component,
     ue_set_blueprint_class_default |-> ue_set_blueprint_class_default,
     ue_reparent_blueprint |-> ue_reparent_blueprint,
     ue_add_blueprint_function |-> ue_add_blueprint_function,
     ue_create_pcg_graph |-> ue_create_pcg_graph,
     ue_spawn_pcg_volume |-> ue_spawn_pcg_volume,
     ue_assign_pcg_graph |-> ue_assign_pcg_graph,
     ue_create_landscape |-> ue_create_landscape,
     ue_set_landscape_material |-> ue_set_landscape_material,
     ue_get_landscape_info |-> ue_get_landscape_info,
     ue_setup_sky_atmosphere |-> ue_setup_sky_atmosphere,
     ue_set_sun_direction |-> ue_set_sun_direction,
     ue_set_fog_properties |-> ue_set_fog_properties,
     ue_spawn_water_body |-> ue_spawn_water_body,
     ue_set_water_body_properties |-> ue_set_water_body_properties,
     ue_add_material_expression |-> ue_add_material_expression,
     ue_connect_material_expressions |-> ue_connect_material_expressions,
     ue_connect_material_property |-> ue_connect_material_property,
     ue_set_material_properties |-> ue_set_material_properties]

=============================================================================
