------------------------- MODULE RecipeToolsProofs -------------------------
(***************************************************************************)
(* For any set of the tools, length of the log and number of faults: the   *)
(* answer of a tool that runs a Python script in the editor is what the    *)
(* script emitted last, in each of its executions, and what the script has *)
(* done by then is what the answer says.  First the scripts: each of       *)
(* RecipePrograms keeps the disciplines of RecipeScripts, its named        *)
(* exceptions apart.  Then the harness alone, whose invariant the steps of *)
(* the recipes, the lost answers and the repeated calls keep.  Then the    *)
(* recipes, of which no more is used than the disciplines.                 *)
(***************************************************************************)
EXTENDS RecipeScripts, TLAPS

-----------------------------------------------------------------------------
(* What is sufficient for the disciplines.                                 *)

LEMMA OrderlyScript ==
    ASSUME NEW t, NEW r, NEW b \in Nat, IsScript(r), Orderly(t, r, b)
    PROVE  /\ t \notin Untidy => Tidy(r)
           /\ t \notin LateUnsupported => SaysSoFirst(r)
           /\ t \notin Creators => Repeatable(r)
           /\ t \notin Quiet => Outspoken(r)
  <1>1. DOMAIN r.steps \subseteq Nat
    BY DEF IsScript
  <1>2. t \notin Untidy => Tidy(r)
    BY <1>1 DEF Orderly, Tidy, Refusing
  <1>3. t \notin LateUnsupported => SaysSoFirst(r)
    BY <1>1 DEF Orderly, SaysSoFirst
  <1>4. t \notin Creators => Repeatable(r)
    BY DEF Orderly, Repeatable
  <1>5. t \notin Quiet => Outspoken(r)
    BY DEF Orderly, Outspoken
  <1>6. QED  BY <1>2, <1>3, <1>4, <1>5

LEMMA SavingScript ==
    ASSUME NEW r, NEW l \in Nat, IsScript(r), SavesFrom(r, l)
    PROVE  SavedLast(r)
  <1>1. DOMAIN r.steps \subseteq Nat
    BY DEF IsScript
  <1>2. QED  BY <1>1 DEF SavesFrom, SavedLast

LEMMA FlatScript ==
    ASSUME NEW r, Flat(r)
    PROVE  Attached(r)
  BY DEF Flat, Attached

LEMMA AddingScript ==
    ASSUME NEW t, NEW r, NEW a, AddsAt(t, r, a)
    PROVE  AddsOnce(r) /\ (t \notin Appenders => OneEach(r))
  BY DEF AddsAt, AddsOnce, OneEach

LEMMA RegularScript ==
    ASSUME NEW t, NEW r, NEW b \in Nat, NEW l \in Nat, NEW a \in Nat, Regular(t, r, b, l, a)
    PROVE  WellWritten(t, r)
  BY OrderlyScript, SavingScript, FlatScript, AddingScript DEF Regular, WellWritten

-----------------------------------------------------------------------------
(* The scripts, one by one: the steps as a table, and the steps b, l and a *)
(* at which the changes begin, the saves begin and something is added.     *)

\* The index of a step, of a script with so many.
LEMMA Upto1 == \A i \in 1..1 : i = 1
  OBVIOUS
LEMMA Upto2 == \A i \in 1..2 : i = 1 \/ i = 2
  OBVIOUS
LEMMA Upto3 == \A i \in 1..3 : i = 1 \/ i = 2 \/ i = 3
  OBVIOUS
LEMMA Upto4 == \A i \in 1..4 : i = 1 \/ i = 2 \/ i = 3 \/ i = 4
  OBVIOUS
LEMMA Upto5 == \A i \in 1..5 : i = 1 \/ i = 2 \/ i = 3 \/ i = 4 \/ i = 5
  OBVIOUS
LEMMA Upto6 == \A i \in 1..6 : i = 1 \/ i = 2 \/ i = 3 \/ i = 4 \/ i = 5 \/ i = 6
  OBVIOUS
LEMMA Upto7 == \A i \in 1..7 : i = 1 \/ i = 2 \/ i = 3 \/ i = 4 \/ i = 5 \/ i = 6
          \/ i = 7
  OBVIOUS
LEMMA Upto8 == \A i \in 1..8 : i = 1 \/ i = 2 \/ i = 3 \/ i = 4 \/ i = 5 \/ i = 6
          \/ i = 7 \/ i = 8
  OBVIOUS
LEMMA Upto9 == \A i \in 1..9 : i = 1 \/ i = 2 \/ i = 3 \/ i = 4 \/ i = 5 \/ i = 6
          \/ i = 7 \/ i = 8 \/ i = 9
  OBVIOUS
LEMMA Upto10 == \A i \in 1..10 : i = 1 \/ i = 2 \/ i = 3 \/ i = 4 \/ i = 5 \/ i = 6
          \/ i = 7 \/ i = 8 \/ i = 9 \/ i = 10
  OBVIOUS
LEMMA Upto11 == \A i \in 1..11 : i = 1 \/ i = 2 \/ i = 3 \/ i = 4 \/ i = 5 \/ i = 6
          \/ i = 7 \/ i = 8 \/ i = 9 \/ i = 10 \/ i = 11
  OBVIOUS
LEMMA Upto12 == \A i \in 1..12 : i = 1 \/ i = 2 \/ i = 3 \/ i = 4 \/ i = 5 \/ i = 6
          \/ i = 7 \/ i = 8 \/ i = 9 \/ i = 10 \/ i = 11 \/ i = 12
  OBVIOUS
LEMMA Upto13 == \A i \in 1..13 : i = 1 \/ i = 2 \/ i = 3 \/ i = 4 \/ i = 5 \/ i = 6
          \/ i = 7 \/ i = 8 \/ i = 9 \/ i = 10 \/ i = 11 \/ i = 12
          \/ i = 13
  OBVIOUS
LEMMA Upto14 == \A i \in 1..14 : i = 1 \/ i = 2 \/ i = 3 \/ i = 4 \/ i = 5 \/ i = 6
          \/ i = 7 \/ i = 8 \/ i = 9 \/ i = 10 \/ i = 11 \/ i = 12 \/ i = 13 \/ i = 14
  OBVIOUS
LEMMA Upto15 == \A i \in 1..15 : i = 1 \/ i = 2 \/ i = 3 \/ i = 4 \/ i = 5 \/ i = 6
          \/ i = 7 \/ i = 8 \/ i = 9 \/ i = 10 \/ i = 11 \/ i = 12 \/ i = 13 \/ i = 14
          \/ i = 15
  OBVIOUS
LEMMA Upto16 == \A i \in 1..16 : i = 1 \/ i = 2 \/ i = 3 \/ i = 4 \/ i = 5 \/ i = 6
          \/ i = 7 \/ i = 8 \/ i = 9 \/ i = 10 \/ i = 11 \/ i = 12
          \/ i = 13 \/ i = 14 \/ i = 15 \/ i = 16
  OBVIOUS
LEMMA Upto17 == \A i \in 1..17 : i = 1 \/ i = 2 \/ i = 3 \/ i = 4 \/ i = 5 \/ i = 6
          \/ i = 7 \/ i = 8 \/ i = 9 \/ i = 10 \/ i = 11 \/ i = 12
          \/ i = 13 \/ i = 14 \/ i = 15 \/ i = 16 \/ i = 17
  OBVIOUS

USE DEF Adding, Changing, Creating, Ending, Fallible
USE DEF Untidy, LateUnsupported, Creators, Quiet, Appenders, Features

LEMMA GetComponentTransformScript ==
    WellWritten("ue_get_component_transform", ue_get_component_transform)
  <1> DEFINE st == ue_get_component_transform.steps
  <1>1. Len(st) = 1 /\ DOMAIN st = 1..1
    BY DEF ue_get_component_transform, Recipe
  <1>2. /\ st[1].op = "find" /\ st[1].fails = "error" /\ st[1].under = "root"
    BY DEF ue_get_component_transform, Recipe, Step, Find
  <1> HIDE DEF st
  <1>3. Regular("ue_get_component_transform", ue_get_component_transform, 2, 2, 0)
    BY <1>1, <1>2, Upto1
       DEF st, Regular, IsScript, Orderly, SavesFrom, Flat, AddsAt
  <1>4. QED  BY <1>3, RegularScript

LEMMA GetComponentBoundsScript ==
    WellWritten("ue_get_component_bounds", ue_get_component_bounds)
  <1> DEFINE st == ue_get_component_bounds.steps
  <1>1. Len(st) = 1 /\ DOMAIN st = 1..1
    BY DEF ue_get_component_bounds, Recipe
  <1>2. /\ st[1].op = "find" /\ st[1].fails = "error" /\ st[1].under = "root"
    BY DEF ue_get_component_bounds, Recipe, Step, Find
  <1> HIDE DEF st
  <1>3. Regular("ue_get_component_bounds", ue_get_component_bounds, 2, 2, 0)
    BY <1>1, <1>2, Upto1
       DEF st, Regular, IsScript, Orderly, SavesFrom, Flat, AddsAt
  <1>4. QED  BY <1>3, RegularScript

LEMMA GetBlueprintComponentsScript ==
    WellWritten("ue_get_blueprint_components", ue_get_blueprint_components)
  <1> DEFINE st == ue_get_blueprint_components.steps
  <1>1. Len(st) = 2 /\ DOMAIN st = 1..2
    BY DEF ue_get_blueprint_components, Recipe
  <1>2. /\ st[1].op = "find" /\ st[1].fails = "error" /\ st[1].under = "root"
        /\ st[2].op = "check" /\ st[2].fails = "error" /\ st[2].under = "root"
    BY DEF ue_get_blueprint_components, Recipe, Step, Find, Check
  <1> HIDE DEF st
  <1>3. Regular("ue_get_blueprint_components", ue_get_blueprint_components, 3, 3, 0)
    BY <1>1, <1>2, Upto2
       DEF st, Regular, IsScript, Orderly, SavesFrom, Flat, AddsAt
  <1>4. QED  BY <1>3, RegularScript

LEMMA FitMeshComponentToHeightScript ==
    WellWritten("ue_fit_mesh_component_to_height", ue_fit_mesh_component_to_height)
  <1> DEFINE st == ue_fit_mesh_component_to_height.steps
  <1>1. Len(st) = 4 /\ DOMAIN st = 1..4
    BY DEF ue_fit_mesh_component_to_height, Recipe
  <1>2. /\ st[1].op = "find" /\ st[1].fails = "error" /\ st[1].under = "root"
        /\ st[2].op = "check" /\ st[2].fails = "error" /\ st[2].under = "root"
        /\ st[3].op = "check" /\ st[3].fails = "error" /\ st[3].under = "root"
        /\ st[4].op = "set" /\ st[4].fails = "error" /\ st[4].under = "root"
    BY DEF ue_fit_mesh_component_to_height, Recipe, Step, Find, Check, Set, If
  <1> HIDE DEF st
  <1>3. Regular("ue_fit_mesh_component_to_height", ue_fit_mesh_component_to_height, 4, 5, 0)
    BY <1>1, <1>2, Upto4
       DEF st, Regular, IsScript, Orderly, SavesFrom, Flat, AddsAt
  <1>4. QED  BY <1>3, RegularScript

LEMMA SetBlueprintComponentTemplateTransformScript ==
    WellWritten("ue_set_blueprint_component_template_transform", ue_set_blueprint_component_template_transform)
  <1> DEFINE st == ue_set_blueprint_component_template_transform.steps
  <1>1. Len(st) = 6 /\ DOMAIN st = 1..6
    BY DEF ue_set_blueprint_component_template_transform, Recipe
  <1>2. /\ st[1].op = "find" /\ st[1].fails = "error" /\ st[1].under = "root"
        /\ st[2].op = "find" /\ st[2].fails = "error" /\ st[2].under = "root"
        /\ st[3].op = "set" /\ st[3].fails = "silent" /\ st[3].under = "root"
        /\ st[4].op = "check" /\ st[4].fails = "silent" /\ st[4].under = "root" /\ st[4].obj = "BlueprintEditorLibrary"
        /\ st[5].op = "compile" /\ st[5].fails = "warns" /\ st[5].under = "root"
        /\ st[6].op = "save" /\ st[6].fails = "warns" /\ st[6].under = "root" /\ st[6].with = {}
    BY DEF ue_set_blueprint_component_template_transform, Recipe, Find, Step, Set, Silent,
       Compiler, Check, If, Compiles, Compile, With, Warns, Save
  <1> HIDE DEF st
  <1>3. Regular("ue_set_blueprint_component_template_transform", ue_set_blueprint_component_template_transform, 3, 6, 0)
    BY <1>1, <1>2, Upto6
       DEF st, Regular, IsScript, Orderly, SavesFrom, Flat, AddsAt
  <1>4. QED  BY <1>3, RegularScript

LEMMA NormalizeImportedCharacterMeshScript ==
    WellWritten("ue_normalize_imported_character_mesh", ue_normalize_imported_character_mesh)
  <1> DEFINE st == ue_normalize_imported_character_mesh.steps
  <1>1. Len(st) = 7 /\ DOMAIN st = 1..7
    BY DEF ue_normalize_imported_character_mesh, Recipe
  <1>2. /\ st[1].op = "check" /\ st[1].fails = "error" /\ st[1].under = "root"
        /\ st[2].op = "check" /\ st[2].fails = "warns" /\ st[2].under = "root"
        /\ st[3].op = "find" /\ st[3].fails = "silent" /\ st[3].under = "root"
        /\ st[4].op = "check" /\ st[4].fails = "warns" /\ st[4].under = "root"
        /\ st[5].op = "find" /\ st[5].fails = "warns" /\ st[5].under = "root"
        /\ st[6].op = "set" /\ st[6].fails = "error" /\ st[6].under = "root"
        /\ st[7].op = "set" /\ st[7].fails = "error" /\ st[7].under = "root"
    BY DEF ue_normalize_imported_character_mesh, Recipe, Check, Step, Warns, Find, If,
       Silent, With, Set
  <1> HIDE DEF st
  <1>3. Regular("ue_normalize_imported_character_mesh", ue_normalize_imported_character_mesh, 6, 8, 0)
    BY <1>1, <1>2, Upto7
       DEF st, Regular, IsScript, Orderly, SavesFrom, Flat, AddsAt
  <1>4. QED  BY <1>3, RegularScript

LEMMA SimulatePlayerInputScript ==
    WellWritten("ue_simulate_player_input", ue_simulate_player_input)
  <1> DEFINE st == ue_simulate_player_input.steps
  <1>1. Len(st) = 6 /\ DOMAIN st = 1..6
    BY DEF ue_simulate_player_input, Recipe
  <1>2. /\ st[1].op = "ensure" /\ st[1].fails = "warns" /\ st[1].under = "root"
        /\ st[2].op = "check" /\ st[2].fails = "error" /\ st[2].under = "root"
        /\ st[3].op = "check" /\ st[3].fails = "error" /\ st[3].under = "root"
        /\ st[4].op = "set" /\ st[4].fails = "silent" /\ st[4].under = "root"
        /\ st[5].op = "set" /\ st[5].fails = "error" /\ st[5].under = "root"
        /\ st[6].op = "end" /\ st[6].fails = "warns" /\ st[6].under = "root"
    BY DEF ue_simulate_player_input, Recipe, Ensure, Step, If, Warns, Check, Set, Silent,
       End
  <1> HIDE DEF st
  <1>3. Regular("ue_simulate_player_input", ue_simulate_player_input, 1, 7, 0)
    BY <1>1, <1>2, Upto6
       DEF st, Regular, IsScript, Orderly, SavesFrom, Flat, AddsAt
  <1>4. QED  BY <1>3, RegularScript

LEMMA CreateMaterialScript == WellWritten("ue_create_material", ue_create_material)
  <1> DEFINE st == ue_create_material.steps
  <1>1. Len(st) = 6 /\ DOMAIN st = 1..6
    BY DEF ue_create_material, Recipe
  <1>2. /\ st[1].op = "new" /\ st[1].fails = "error" /\ st[1].under = "root"
        /\ st[2].op = "add" /\ st[2].fails = "error" /\ st[2].under = "root"
        /\ st[3].op = "set" /\ st[3].fails = "error" /\ st[3].under = "root"
        /\ st[4].op = "set" /\ st[4].fails = "silent" /\ st[4].under = "root"
        /\ st[5].op = "compile" /\ st[5].fails = "error" /\ st[5].under = "root"
        /\ st[6].op = "save" /\ st[6].fails = "error" /\ st[6].under = "root" /\ st[6].with = {}
    BY DEF ue_create_material, Recipe, New, Step, Add, If, Set, Silent, Compile, Save
  <1>3. /\ st[1].obj = "asset" /\ st[2].obj = "expression"
        /\ st[1].when = {} /\ st[1].unless = {} /\ st[1].with = {}
    BY DEF ue_create_material, Recipe, New, Step, Add, If, Set, Silent, Compile, Save
  <1>4. "expression" \in DOMAIN ue_create_material.parts /\ ue_create_material.parts["expression"] = "asset"
    BY DEF ue_create_material, Recipe, OfAsset
  <1> HIDE DEF st
  <1>5. EmptiedBefore(ue_create_material, 2)
    <2>1. Empties(ue_create_material, st[1], "expression")
      BY <1>2, <1>3, <1>4 DEF Empties
    <2>2. 1 \in 1..(2 - 1) /\ (1 + 1)..(2 - 1) = {}
      OBVIOUS
    <2>3. QED  BY <1>3, <2>1, <2>2 DEF st, EmptiedBefore
  <1>6. Regular("ue_create_material", ue_create_material, 1, 6, 2)
    BY <1>1, <1>2, <1>5, Upto6
       DEF st, Regular, IsScript, Orderly, SavesFrom, Flat, AddsAt
  <1>7. QED  BY <1>6, RegularScript

LEMMA CreateMaterialInstanceScript ==
    WellWritten("ue_create_material_instance", ue_create_material_instance)
  <1> DEFINE st == ue_create_material_instance.steps
  <1>1. Len(st) = 4 /\ DOMAIN st = 1..4
    BY DEF ue_create_material_instance, Recipe
  <1>2. /\ st[1].op = "new" /\ st[1].fails = "error" /\ st[1].under = "root"
        /\ st[2].op = "find" /\ st[2].fails = "warns" /\ st[2].under = "root"
        /\ st[3].op = "set" /\ st[3].fails = "error" /\ st[3].under = "root"
        /\ st[4].op = "save" /\ st[4].fails = "error" /\ st[4].under = "root" /\ st[4].with = {}
    BY DEF ue_create_material_instance, Recipe, Step, New, Find, Warns, Set, With, Save
  <1> HIDE DEF st
  <1>3. Regular("ue_create_material_instance", ue_create_material_instance, 1, 4, 0)
    BY <1>1, <1>2, Upto4
       DEF st, Regular, IsScript, Orderly, SavesFrom, Flat, AddsAt
  <1>4. QED  BY <1>3, RegularScript

LEMMA ImportAssetScript == WellWritten("ue_import_asset", ue_import_asset)
  <1> DEFINE st == ue_import_asset.steps
  <1>1. Len(st) = 8 /\ DOMAIN st = 1..8
    BY DEF ue_import_asset, Recipe
  <1>2. /\ st[1].op = "check" /\ st[1].fails = "error" /\ st[1].under = "root"
        /\ st[2].op = "check" /\ st[2].fails = "error" /\ st[2].under = "root"
        /\ st[3].op = "check" /\ st[3].fails = "error" /\ st[3].under = "root"
        /\ st[4].op = "check" /\ st[4].fails = "error" /\ st[4].under = "root"
        /\ st[5].op = "check" /\ st[5].fails = "error" /\ st[5].under = "root"
        /\ st[6].op = "check" /\ st[6].fails = "error" /\ st[6].under = "root"
        /\ st[7].op = "replace" /\ st[7].fails = "error" /\ st[7].under = "root"
        /\ st[8].op = "save" /\ st[8].fails = "silent" /\ st[8].under = "root" /\ st[8].with = {}
    BY DEF ue_import_asset, Recipe, Step, Check, Replace, Reuse, Save, Silent
  <1> HIDE DEF st
  <1>3. Regular("ue_import_asset", ue_import_asset, 7, 8, 0)
    BY <1>1, <1>2, Upto8
       DEF st, Regular, IsScript, Orderly, SavesFrom, Flat, AddsAt
  <1>4. QED  BY <1>3, RegularScript

LEMMA ImportAssetWithTransformPolicyScript ==
    WellWritten("ue_import_asset_with_transform_policy", ue_import_asset_with_transform_policy)
  <1> DEFINE st == ue_import_asset_with_transform_policy.steps
  <1>1. Len(st) = 10 /\ DOMAIN st = 1..10
    BY DEF ue_import_asset_with_transform_policy, Recipe
  <1>2. /\ st[1].op = "check" /\ st[1].fails = "error" /\ st[1].under = "root"
        /\ st[2].op = "check" /\ st[2].fails = "error" /\ st[2].under = "root"
        /\ st[3].op = "check" /\ st[3].fails = "error" /\ st[3].under = "root"
        /\ st[4].op = "check" /\ st[4].fails = "error" /\ st[4].under = "root"
        /\ st[5].op = "check" /\ st[5].fails = "error" /\ st[5].under = "root"
        /\ st[6].op = "check" /\ st[6].fails = "error" /\ st[6].under = "root"
        /\ st[7].op = "check" /\ st[7].fails = "silent" /\ st[7].under = "root"
        /\ st[8].op = "check" /\ st[8].fails = "warns" /\ st[8].under = "root"
        /\ st[9].op = "replace" /\ st[9].fails = "error" /\ st[9].under = "root"
        /\ st[10].op = "save" /\ st[10].fails = "silent" /\ st[10].under = "root" /\ st[10].with = {}
    BY DEF ue_import_asset_with_transform_policy, Recipe, Check, Step, If, Silent, Warns,
       Replace, Reuse, Save
  <1> HIDE DEF st
  <1>3. Regular("ue_import_asset_with_transform_policy", ue_import_asset_with_transform_policy, 9, 10, 0)
    BY <1>1, <1>2, Upto10
       DEF st, Regular, IsScript, Orderly, SavesFrom, Flat, AddsAt
  <1>4. QED  BY <1>3, RegularScript

LEMMA CreateFolderScript == WellWritten("ue_create_folder", ue_create_folder)
  <1> DEFINE st == ue_create_folder.steps
  <1>1. Len(st) = 1 /\ DOMAIN st = 1..1
    BY DEF ue_create_folder, Recipe
  <1>2. /\ st[1].op = "ensure" /\ st[1].fails = "error" /\ st[1].under = "root"
    BY DEF ue_create_folder, Recipe, Step, Ensure
  <1> HIDE DEF st
  <1>3. Regular("ue_create_folder", ue_create_folder, 1, 2, 0)
    BY <1>1, <1>2, Upto1
       DEF st, Regular, IsScript, Orderly, SavesFrom, Flat, AddsAt
  <1>4. QED  BY <1>3, RegularScript

LEMMA DataTableGetRowsScript ==
    WellWritten("ue_data_table_get_rows", ue_data_table_get_rows)
  <1> DEFINE st == ue_data_table_get_rows.steps
  <1>1. Len(st) = 1 /\ DOMAIN st = 1..1
    BY DEF ue_data_table_get_rows, Recipe
  <1>2. /\ st[1].op = "find" /\ st[1].fails = "error" /\ st[1].under = "root"
    BY DEF ue_data_table_get_rows, Recipe, Step, Find
  <1> HIDE DEF st
  <1>3. Regular("ue_data_table_get_rows", ue_data_table_get_rows, 2, 2, 0)
    BY <1>1, <1>2, Upto1
       DEF st, Regular, IsScript, Orderly, SavesFrom, Flat, AddsAt
  <1>4. QED  BY <1>3, RegularScript

LEMMA CreateBlueprintScript == WellWritten("ue_create_blueprint", ue_create_blueprint)
  <1> DEFINE st == ue_create_blueprint.steps
  <1>1. Len(st) = 3 /\ DOMAIN st = 1..3
    BY DEF ue_create_blueprint, Recipe
  <1>2. /\ st[1].op = "find" /\ st[1].fails = "silent" /\ st[1].under = "root"
        /\ st[2].op = "new" /\ st[2].fails = "error" /\ st[2].under = "root"
        /\ st[3].op = "save" /\ st[3].fails = "error" /\ st[3].under = "root" /\ st[3].with = {}
    BY DEF ue_create_blueprint, Recipe, Step, Find, If, Silent, New, Save
  <1> HIDE DEF st
  <1>3. Regular("ue_create_blueprint", ue_create_blueprint, 2, 3, 0)
    BY <1>1, <1>2, Upto3
       DEF st, Regular, IsScript, Orderly, SavesFrom, Flat, AddsAt
  <1>4. QED  BY <1>3, RegularScript

LEMMA AddBlueprintVariableScript ==
    WellWritten("ue_add_blueprint_variable", ue_add_blueprint_variable)
  <1> DEFINE st == ue_add_blueprint_variable.steps
  <1>1. Len(st) = 7 /\ DOMAIN st = 1..7
    BY DEF ue_add_blueprint_variable, Recipe
  <1>2. /\ st[1].op = "find" /\ st[1].fails = "error" /\ st[1].under = "root"
        /\ st[2].op = "check" /\ st[2].fails = "error" /\ st[2].under = "root"
        /\ st[3].op = "check" /\ st[3].fails = "silent" /\ st[3].under = "root"
        /\ st[4].op = "ensure" /\ st[4].fails = "silent" /\ st[4].under = "root"
        /\ st[5].op = "set" /\ st[5].fails = "silent" /\ st[5].under = "root"
        /\ st[6].op = "compile" /\ st[6].fails = "error" /\ st[6].under = "root"
        /\ st[7].op = "save" /\ st[7].fails = "error" /\ st[7].under = "root" /\ st[7].with = {}
    BY DEF ue_add_blueprint_variable, Recipe, Find, Step, Compiler, Check, Silent, Ensure,
       Set, If, Compile, Save
  <1> HIDE DEF st
  <1>3. Regular("ue_add_blueprint_variable", ue_add_blueprint_variable, 4, 7, 0)
    BY <1>1, <1>2, Upto7
       DEF st, Regular, IsScript, Orderly, SavesFrom, Flat, AddsAt
  <1>4. QED  BY <1>3, RegularScript

LEMMA CompileBlueprintScript ==
    WellWritten("ue_compile_blueprint", ue_compile_blueprint)
  <1> DEFINE st == ue_compile_blueprint.steps
  <1>1. Len(st) = 4 /\ DOMAIN st = 1..4
    BY DEF ue_compile_blueprint, Recipe
  <1>2. /\ st[1].op = "find" /\ st[1].fails = "error" /\ st[1].under = "root"
        /\ st[2].op = "check" /\ st[2].fails = "error" /\ st[2].under = "root"
        /\ st[3].op = "compile" /\ st[3].fails = "error" /\ st[3].under = "root"
        /\ st[4].op = "save" /\ st[4].fails = "error" /\ st[4].under = "root" /\ st[4].with = {}
    BY DEF ue_compile_blueprint, Recipe, Find, Step, Compiler, Check, Compile, Save
  <1> HIDE DEF st
  <1>3. Regular("ue_compile_blueprint", ue_compile_blueprint, 5, 4, 0)
    BY <1>1, <1>2, Upto4
       DEF st, Regular, IsScript, Orderly, SavesFrom, Flat, AddsAt
  <1>4. QED  BY <1>3, RegularScript

LEMMA CreateCharacterBlueprintScript ==
    WellWritten("ue_create_character_blueprint", ue_create_character_blueprint)
  <1> DEFINE st == ue_create_character_blueprint.steps
  <1>1. Len(st) = 17 /\ DOMAIN st = 1..17
    BY DEF ue_create_character_blueprint, Recipe
  <1>2. /\ st[1].op = "make" /\ st[1].fails = "error" /\ st[1].under = "root"
        /\ st[2].op = "check" /\ st[2].fails = "silent" /\ st[2].under = "root" /\ st[2].obj = "BlueprintEditorLibrary"
        /\ st[3].op = "compile" /\ st[3].fails = "error" /\ st[3].under = "root"
        /\ st[4].op = "check" /\ st[4].fails = "error" /\ st[4].under = "root"
        /\ st[5].op = "set" /\ st[5].fails = "warns" /\ st[5].under = "root"
        /\ st[6].op = "check" /\ st[6].fails = "warns" /\ st[6].under = "root"
        /\ st[7].op = "find" /\ st[7].fails = "error" /\ st[7].under = "root"
        /\ st[8].op = "set" /\ st[8].fails = "warns" /\ st[8].under = "root"
        /\ st[9].op = "find" /\ st[9].fails = "error" /\ st[9].under = "root"
        /\ st[10].op = "set" /\ st[10].fails = "warns" /\ st[10].under = "root"
        /\ st[11].op = "set" /\ st[11].fails = "warns" /\ st[11].under = "root"
        /\ st[12].op = "add" /\ st[12].fails = "warns" /\ st[12].under = "root"
        /\ st[13].op = "set" /\ st[13].fails = "warns" /\ st[13].under = "root"
        /\ st[14].op = "add" /\ st[14].fails = "warns" /\ st[14].under = "boom"
        /\ st[15].op = "set" /\ st[15].fails = "warns" /\ st[15].under = "root"
        /\ st[16].op = "compile" /\ st[16].fails = "error" /\ st[16].under = "root"
        /\ st[17].op = "save" /\ st[17].fails = "error" /\ st[17].under = "root" /\ st[17].with = {}
    BY DEF ue_create_character_blueprint, Recipe, Make, Step, Compiler, Check, Silent,
       Compiles, Compile, With, Set, Warns, Find, If, Add, Under, Save
  <1>3. /\ st[1].obj = "asset" /\ st[2].obj = "BlueprintEditorLibrary"
        /\ st[3].obj = "asset" /\ st[4].obj = "class defaults"
        /\ st[5].obj = "asset" /\ st[6].obj = "mesh"
        /\ st[7].obj = "skeletal mesh" /\ st[8].obj = "asset"
        /\ st[9].obj = "animation blueprint" /\ st[10].obj = "asset"
        /\ st[11].obj = "asset" /\ st[12].obj = "boom"
        /\ st[13].obj = "boom" /\ st[14].obj = "camera"
        /\ st[15].obj = "camera" /\ st[16].obj = "asset"
        /\ st[17].obj = "asset"
    BY DEF ue_create_character_blueprint, Recipe, Make, Step, Compiler, Check, Silent,
       Compiles, Compile, With, Set, Warns, Find, If, Add, Under, Save
  <1>4. /\ "boom" \in st[13].with /\ "boom" \in st[14].with /\ st[12].with = {}
        /\ st[12].when = st[14].when /\ st[12].unless = st[14].unless
    BY DEF ue_create_character_blueprint, Recipe, Make, Step, Compiler, Check, Silent,
       Compiles, Compile, With, Set, Warns, Find, If, Add, Under, Save
  <1> HIDE DEF st
  <1>5. \A i \in 1..17 : st[i].under # "root" => i = 14
    BY <1>2, Upto17
  <1>6. \A i \in 1..17 : st[i].op \in Creating => i \in {1, 12, 14}
    BY <1>2, Upto17
  <1>7. \A i \in 1..17 : (st[i].obj = "boom" => i \in {12, 13}) /\ (st[i].obj = "camera" => i \in {14, 15})
    BY <1>3, Upto17
  <1>8. Attached(ue_create_character_blueprint)
    <2>1. \A i \in 1..17 : st[i].obj = "camera" /\ st[i].op \in Creating => i = 14
      BY <1>6, <1>7
    <2>2. \A i \in 1..17 : i # 12 /\ st[i].obj = "boom" =>
              st[i].op \notin Creating /\ i > 12 /\ "boom" \in st[i].with
      BY <1>4, <1>6, <1>7
    <2>3. /\ st[14].obj = "camera" /\ st[14].op = "add" /\ st[14].under = "boom" /\ "boom" \in st[14].with
          /\ st[12].obj = "boom" /\ st[12].op = "add" /\ st[12].with = {}
          /\ st[12].when \subseteq st[14].when /\ st[12].unless \subseteq st[14].unless
      <3>1. st[12].when \subseteq st[14].when /\ st[12].unless \subseteq st[14].unless
        BY <1>4
      <3>2. QED  BY <1>2, <1>3, <1>4, <3>1
    <2>4. 12 \in 1..(14 - 1)
      OBVIOUS
    <2>5. QED  BY <1>1, <1>5, <2>1, <2>2, <2>3, <2>4 DEF st, Attached
  <1>9. IsScript(ue_create_character_blueprint)
    BY <1>1 DEF st, IsScript
  <1>10. Orderly("ue_create_character_blueprint", ue_create_character_blueprint, 1)
    BY <1>1, <1>2, Upto17 DEF st, Orderly
  <1>11. SavesFrom(ue_create_character_blueprint, 17)
    BY <1>1, <1>2, Upto17 DEF st, SavesFrom, Changing
  <1>12. AddsOnce(ue_create_character_blueprint)
    <2>1. \A i \in 1..17 : st[i].op \in Adding => i \in {12, 14}
      BY <1>2, Upto17
    <2>2. st[12].obj # st[14].obj
      BY <1>3
    <2>3. QED  BY <1>1, <2>1, <2>2 DEF st, AddsOnce
  <1>13. QED
    BY <1>8, <1>9, <1>10, <1>11, <1>12, OrderlyScript, SavingScript DEF WellWritten

LEMMA ConfigureCharacterMovementScript ==
    WellWritten("ue_configure_character_movement", ue_configure_character_movement)
  <1> DEFINE st == ue_configure_character_movement.steps
  <1>1. Len(st) = 10 /\ DOMAIN st = 1..10
    BY DEF ue_configure_character_movement, Recipe
  <1>2. /\ st[1].op = "find" /\ st[1].fails = "error" /\ st[1].under = "root"
        /\ st[2].op = "check" /\ st[2].fails = "silent" /\ st[2].under = "root" /\ st[2].obj = "BlueprintEditorLibrary"
        /\ st[3].op = "compile" /\ st[3].fails = "error" /\ st[3].under = "root"
        /\ st[4].op = "check" /\ st[4].fails = "error" /\ st[4].under = "root"
        /\ st[5].op = "set" /\ st[5].fails = "warns" /\ st[5].under = "root"
        /\ st[6].op = "find" /\ st[6].fails = "warns" /\ st[6].under = "root"
        /\ st[7].op = "set" /\ st[7].fails = "warns" /\ st[7].under = "root"
        /\ st[8].op = "set" /\ st[8].fails = "warns" /\ st[8].under = "root"
        /\ st[9].op = "compile" /\ st[9].fails = "error" /\ st[9].under = "root"
        /\ st[10].op = "save" /\ st[10].fails = "error" /\ st[10].under = "root" /\ st[10].with = {}
    BY DEF ue_configure_character_movement, Recipe, Find, Step, Compiler, Check, Silent,
       Compiles, Compile, With, Set, Warns, If, Save
  <1> HIDE DEF st
  <1>3. Regular("ue_configure_character_movement", ue_configure_character_movement, 5, 10, 0)
    BY <1>1, <1>2, Upto10
       DEF st, Regular, IsScript, Orderly, SavesFrom, Flat, AddsAt
  <1>4. QED  BY <1>3, RegularScript

LEMMA CalibrateCharacterCollisionScript ==
    WellWritten("ue_calibrate_character_collision", ue_calibrate_character_collision)
  <1> DEFINE st == ue_calibrate_character_collision.steps
  <1>1. Len(st) = 9 /\ DOMAIN st = 1..9
    BY DEF ue_calibrate_character_collision, Recipe
  <1>2. /\ st[1].op = "find" /\ st[1].fails = "error" /\ st[1].under = "root"
        /\ st[2].op = "check" /\ st[2].fails = "silent" /\ st[2].under = "root" /\ st[2].obj = "BlueprintEditorLibrary"
        /\ st[3].op = "compile" /\ st[3].fails = "error" /\ st[3].under = "root"
        /\ st[4].op = "check" /\ st[4].fails = "error" /\ st[4].under = "root"
        /\ st[5].op = "set" /\ st[5].fails = "warns" /\ st[5].under = "root"
        /\ st[6].op = "check" /\ st[6].fails = "silent" /\ st[6].under = "root" /\ st[6].obj = "CollisionEnabled"
        /\ st[7].op = "set" /\ st[7].fails = "warns" /\ st[7].under = "root"
        /\ st[8].op = "compile" /\ st[8].fails = "error" /\ st[8].under = "root"
        /\ st[9].op = "save" /\ st[9].fails = "error" /\ st[9].under = "root" /\ st[9].with = {}
    BY DEF ue_calibrate_character_collision, Recipe, Find, Step, Compiler, Check, Silent,
       Compiles, Compile, With, Set, Warns, Save
  <1> HIDE DEF st
  <1>3. Regular("ue_calibrate_character_collision", ue_calibrate_character_collision, 5, 9, 0)
    BY <1>1, <1>2, Upto9
       DEF st, Regular, IsScript, Orderly, SavesFrom, Flat, AddsAt
  <1>4. QED  BY <1>3, RegularScript

LEMMA ConfigureThirdPersonCameraScript ==
    WellWritten("ue_configure_third_person_camera", ue_configure_third_person_camera)
  <1> DEFINE st == ue_configure_third_person_camera.steps
  <1>1. Len(st) = 13 /\ DOMAIN st = 1..13
    BY DEF ue_configure_third_person_camera, Recipe
  <1>2. /\ st[1].op = "find" /\ st[1].fails = "error" /\ st[1].under = "root"
        /\ st[2].op = "check" /\ st[2].fails = "silent" /\ st[2].under = "root" /\ st[2].obj = "BlueprintEditorLibrary"
        /\ st[3].op = "compile" /\ st[3].fails = "error" /\ st[3].under = "root"
        /\ st[4].op = "check" /\ st[4].fails = "error" /\ st[4].under = "root"
        /\ st[5].op = "supply" /\ st[5].fails = "warns" /\ st[5].under = "root"
        /\ st[6].op = "supply" /\ st[6].fails = "warns" /\ st[6].under = "boom"
        /\ st[7].op = "compile" /\ st[7].fails = "error" /\ st[7].under = "root"
        /\ st[8].op = "find" /\ st[8].fails = "warns" /\ st[8].under = "root"
        /\ st[9].op = "set" /\ st[9].fails = "warns" /\ st[9].under = "root"
        /\ st[10].op = "find" /\ st[10].fails = "warns" /\ st[10].under = "root"
        /\ st[11].op = "set" /\ st[11].fails = "warns" /\ st[11].under = "root"
        /\ st[12].op = "compile" /\ st[12].fails = "error" /\ st[12].under = "root"
        /\ st[13].op = "save" /\ st[13].fails = "error" /\ st[13].under = "root" /\ st[13].with = {}
    BY DEF ue_configure_third_person_camera, Recipe, Find, Step, Compiler, Check, Silent,
       Compiles, Compile, With, Supply, Warns, Under, Set, Save
  <1>3. /\ st[1].obj = "asset" /\ st[2].obj = "BlueprintEditorLibrary"
        /\ st[3].obj = "asset" /\ st[4].obj = "class defaults"
        /\ st[5].obj = "boom" /\ st[6].obj = "camera"
        /\ st[7].obj = "asset" /\ st[8].obj = "native boom"
        /\ st[9].obj = "native boom" /\ st[10].obj = "native camera"
        /\ st[11].obj = "native camera" /\ st[12].obj = "asset"
        /\ st[13].obj = "asset"
    BY DEF ue_configure_third_person_camera, Recipe, Find, Step, Compiler, Check, Silent,
       Compiles, Compile, With, Supply, Warns, Under, Set, Save
  <1>4. /\ "boom" \in st[6].with /\ st[5].with = {} /\ st[6].reuse = "native camera"
        /\ st[5].when = {} /\ st[5].unless = {}
        /\ st[10].when = {} /\ st[10].unless = {} /\ st[10].with = {}
    BY DEF ue_configure_third_person_camera, Recipe, Find, Step, Compiler, Check, Silent,
       Compiles, Compile, With, Supply, Warns, Under, Set, Save
  <1>5. DOMAIN ue_configure_third_person_camera.parts = {"boom", "camera"}
    BY DEF ue_configure_third_person_camera, Recipe, OfAsset
  <1> HIDE DEF st
  <1>6. \A i \in 1..13 : st[i].under # "root" => i = 6
    BY <1>2, Upto13
  <1>7. \A i \in 1..13 : st[i].op \in Creating => i \in {5, 6}
    BY <1>2, Upto13
  <1>8. \A i \in 1..13 : (st[i].obj = "boom" => i = 5) /\ (st[i].obj = "camera" => i = 6)
    BY <1>3, Upto13
  <1>9. Vouched(ue_configure_third_person_camera, 6)
    <2>1. Native(ue_configure_third_person_camera, "native camera")
      <3>1. st[5].obj # "native camera" /\ st[6].obj # "native camera"
        BY <1>3
      <3>2. QED  BY <1>1, <1>5, <1>7, <3>1 DEF st, Native
    <2>2. 10 \in DOMAIN st
      BY <1>1
    <2>3. /\ st[10].op = "find" /\ st[10].obj = "native camera"
          /\ st[10].fails = "warns"
      BY <1>1, <1>2, <1>3
    <2>4. QED  BY <1>4, <2>1, <2>2, <2>3 DEF st, Vouched
  <1>10. Attached(ue_configure_third_person_camera)
    <2>1. \A i \in 1..13 : i # 5 => st[i].obj # "boom"
      BY <1>8
    <2>2. \A i \in 1..13 : st[i].obj = "camera" => i = 6
      BY <1>8
    <2>3. /\ st[6].obj = "camera" /\ st[6].op = "supply" /\ st[6].under = "boom" /\ "boom" \in st[6].with
          /\ st[5].obj = "boom" /\ st[5].op = "supply" /\ st[5].with = {}
          /\ st[5].when \subseteq st[6].when /\ st[5].unless \subseteq st[6].unless
      <3>1. st[5].when \subseteq st[6].when /\ st[5].unless \subseteq st[6].unless
        BY <1>4
      <3>2. QED  BY <1>2, <1>3, <1>4, <3>1
    <2>4. 5 \in 1..(6 - 1)
      OBVIOUS
    <2>5. QED  BY <1>1, <1>6, <1>9, <2>1, <2>2, <2>3, <2>4 DEF st, Attached
  <1>11. IsScript(ue_configure_third_person_camera)
    BY <1>1 DEF st, IsScript
  <1>12. Orderly("ue_configure_third_person_camera", ue_configure_third_person_camera, 5)
    BY <1>1, <1>2, Upto13 DEF st, Orderly
  <1>13. SavesFrom(ue_configure_third_person_camera, 13)
    BY <1>1, <1>2, Upto13 DEF st, SavesFrom, Changing
  <1>14. AddsOnce(ue_configure_third_person_camera)
    <2>1. \A i \in 1..13 : st[i].op \in Adding => i \in {5, 6}
      BY <1>2, Upto13
    <2>2. st[5].obj # st[6].obj
      BY <1>3
    <2>3. QED  BY <1>1, <2>1, <2>2 DEF st, AddsOnce
  <1>15. QED
    BY <1>10, <1>11, <1>12, <1>13, <1>14, OrderlyScript, SavingScript DEF WellWritten

LEMMA CreateEnhancedInputAssetsScript ==
    WellWritten("ue_create_enhanced_input_assets", ue_create_enhanced_input_assets)
  <1> DEFINE st == ue_create_enhanced_input_assets.steps
  <1>1. Len(st) = 16 /\ DOMAIN st = 1..16
    BY DEF ue_create_enhanced_input_assets, Recipe
  <1>2. /\ st[1].op = "check" /\ st[1].fails = "unsupported" /\ st[1].under = "root"
        /\ st[2].op = "make" /\ st[2].fails = "error" /\ st[2].under = "root"
        /\ st[3].op = "make" /\ st[3].fails = "error" /\ st[3].under = "root"
        /\ st[4].op = "make" /\ st[4].fails = "error" /\ st[4].under = "root"
        /\ st[5].op = "make" /\ st[5].fails = "error" /\ st[5].under = "root"
        /\ st[6].op = "set" /\ st[6].fails = "warns" /\ st[6].under = "root"
        /\ st[7].op = "set" /\ st[7].fails = "warns" /\ st[7].under = "root"
        /\ st[8].op = "set" /\ st[8].fails = "warns" /\ st[8].under = "root"
        /\ st[9].op = "end" /\ st[9].fails = "warns" /\ st[9].under = "root"
        /\ st[10].op = "check" /\ st[10].fails = "silent" /\ st[10].under = "root" /\ st[10].obj = "InputAxisSwizzle"
        /\ st[11].op = "set" /\ st[11].fails = "error" /\ st[11].under = "root"
        /\ st[12].op = "add" /\ st[12].fails = "warns" /\ st[12].under = "root"
        /\ st[13].op = "save" /\ st[13].fails = "error" /\ st[13].under = "root" /\ st[13].with = {}
        /\ st[14].op = "save" /\ st[14].fails = "error" /\ st[14].under = "root" /\ st[14].with = {}
        /\ st[15].op = "save" /\ st[15].fails = "error" /\ st[15].under = "root" /\ st[15].with = {}
        /\ st[16].op = "save" /\ st[16].fails = "error" /\ st[16].under = "root" /\ st[16].with = {}
    BY DEF ue_create_enhanced_input_assets, Recipe, Check, Step, Unsupported, Make, Set,
       Warns, End, Silent, Add, Save
  <1>3. /\ st[9].obj = "mappings" /\ st[10].obj = "InputAxisSwizzle" /\ st[11].obj = "context"
        /\ st[12].obj = "mappings"
        /\ st[9].when = {} /\ st[9].unless = {} /\ st[9].with = {}
    BY DEF ue_create_enhanced_input_assets, Recipe, Check, Step, Unsupported, Make, Set,
       Warns, End, Silent, Add, Save
  <1> HIDE DEF st
  <1>5. EmptiedBefore(ue_create_enhanced_input_assets, 12)
    <2>1. Empties(ue_create_enhanced_input_assets, st[9], "mappings")
      BY <1>2, <1>3 DEF Empties
    <2>2. 9 \in 1..(12 - 1) /\ (9 + 1)..(12 - 1) = {10, 11}
      OBVIOUS
    <2>3. QED  BY <1>3, <2>1, <2>2 DEF st, EmptiedBefore
  <1>6. Regular("ue_create_enhanced_input_assets", ue_create_enhanced_input_assets, 2, 13, 12)
    BY <1>1, <1>2, <1>3, <1>5, Upto16
       DEF st, Regular, IsScript, Orderly, SavesFrom, Flat, AddsAt
  <1>7. QED  BY <1>6, RegularScript

LEMMA CreateLocomotionAnimationAssetsScript ==
    WellWritten("ue_create_locomotion_animation_assets", ue_create_locomotion_animation_assets)
  <1> DEFINE st == ue_create_locomotion_animation_assets.steps
  <1>1. Len(st) = 14 /\ DOMAIN st = 1..14
    BY DEF ue_create_locomotion_animation_assets, Recipe
  <1>2. /\ st[1].op = "check" /\ st[1].fails = "unsupported" /\ st[1].under = "root"
        /\ st[2].op = "find" /\ st[2].fails = "error" /\ st[2].under = "root"
        /\ st[3].op = "find" /\ st[3].fails = "warns" /\ st[3].under = "root"
        /\ st[4].op = "check" /\ st[4].fails = "warns" /\ st[4].under = "root"
        /\ st[5].op = "make" /\ st[5].fails = "error" /\ st[5].under = "root"
        /\ st[6].op = "make" /\ st[6].fails = "error" /\ st[6].under = "root"
        /\ st[7].op = "check" /\ st[7].fails = "silent" /\ st[7].under = "root"
        /\ st[8].op = "set" /\ st[8].fails = "warns" /\ st[8].under = "root"
        /\ st[9].op = "find" /\ st[9].fails = "warns" /\ st[9].under = "root"
        /\ st[10].op = "add" /\ st[10].fails = "warns" /\ st[10].under = "root"
        /\ st[11].op = "check" /\ st[11].fails = "silent" /\ st[11].under = "root" /\ st[11].obj = "BlueprintEditorLibrary"
        /\ st[12].op = "compile" /\ st[12].fails = "warns" /\ st[12].under = "root"
        /\ st[13].op = "save" /\ st[13].fails = "error" /\ st[13].under = "root" /\ st[13].with = {}
        /\ st[14].op = "save" /\ st[14].fails = "error" /\ st[14].under = "root" /\ st[14].with = {}
    BY DEF ue_create_locomotion_animation_assets, Recipe, Check, Step, Unsupported, Find,
       If, Warns, Make, Silent, Set, With, Add, Compiler, Compiles, Compile, Save
  <1> HIDE DEF st
  <1>3. Regular("ue_create_locomotion_animation_assets", ue_create_locomotion_animation_assets, 5, 13, 10)
    BY <1>1, <1>2, Upto14
       DEF st, Regular, IsScript, Orderly, SavesFrom, Flat, AddsAt
  <1>4. QED  BY <1>3, RegularScript

LEMMA SetGameDefaultsScript == WellWritten("ue_set_game_defaults", ue_set_game_defaults)
  <1> DEFINE st == ue_set_game_defaults.steps
  <1>1. Len(st) = 7 /\ DOMAIN st = 1..7
    BY DEF ue_set_game_defaults, Recipe
  <1>2. /\ st[1].op = "check" /\ st[1].fails = "unsupported" /\ st[1].under = "root"
        /\ st[2].op = "check" /\ st[2].fails = "error" /\ st[2].under = "root"
        /\ st[3].op = "save" /\ st[3].fails = "warns" /\ st[3].under = "root" /\ st[3].with = {}
        /\ st[4].op = "set" /\ st[4].fails = "warns" /\ st[4].under = "root"
        /\ st[5].op = "find" /\ st[5].fails = "warns" /\ st[5].under = "root"
        /\ st[6].op = "set" /\ st[6].fails = "warns" /\ st[6].under = "root"
        /\ st[7].op = "save" /\ st[7].fails = "warns" /\ st[7].under = "root" /\ st[7].with = {}
    BY DEF ue_set_game_defaults, Recipe, Step, Check, Unsupported, Save, If, Warns, Set,
       Find, With
  <1>3. /\ ue_set_game_defaults.parts = NoParts /\ DOMAIN NoParts = {}
        /\ st[1].obj = "GameMapsSettings" /\ st[2].obj = "settings" /\ st[3].obj = "level"
        /\ st[4].obj = "settings" /\ st[5].obj = "game mode" /\ st[6].obj = "settings"
        /\ st[7].obj = "settings"
    BY DEF ue_set_game_defaults, Recipe, Step, Check, Unsupported, Save, If, Warns, Set,
       Find, With, NoParts, OfAsset
  <1>4. st[3].with = {} /\ st[7].with = {}
    BY DEF ue_set_game_defaults, Recipe, Step, Check, Unsupported, Save, If, Warns, Set,
       Find, With
  <1> HIDE DEF st
  <1>5. SavedLast(ue_set_game_defaults)
    <2>1. \A i \in 1..7 : st[i].op = "save" => i \in {3, 7}
      BY <1>2, Upto7
    <2>2. \A i \in 1..7 : i > 3 /\ st[i].op \in Changing \cup {"compile"} => i \in {4, 6}
      BY <1>2, Upto7
    <2>3. st[4].obj = "settings" /\ st[6].obj = "settings" /\ st[3].obj = "level"
      BY <1>3
    <2>4. \A x : OwnerIn(ue_set_game_defaults, x) = x
      BY <1>3 DEF OwnerIn
    <2>5. QED  BY <1>1, <1>4, <2>1, <2>2, <2>3, <2>4 DEF st, SavedLast
  <1>6. IsScript(ue_set_game_defaults)
    BY <1>1 DEF st, IsScript
  <1>7. Orderly("ue_set_game_defaults", ue_set_game_defaults, 4)
    BY <1>1, <1>2, Upto7 DEF st, Orderly
  <1>8. Flat(ue_set_game_defaults) /\ AddsAt("ue_set_game_defaults", ue_set_game_defaults, 0)
    BY <1>1, <1>2, Upto7 DEF st, Flat, AddsAt
  <1>9. QED
    BY <1>5, <1>6, <1>7, <1>8, OrderlyScript, FlatScript, AddingScript DEF WellWritten

LEMMA ValidateThirdPersonPieScript ==
    WellWritten("ue_validate_third_person_pie", ue_validate_third_person_pie)
  <1> DEFINE st == ue_validate_third_person_pie.steps
  <1>1. Len(st) = 5 /\ DOMAIN st = 1..5
    BY DEF ue_validate_third_person_pie, Recipe
  <1>2. /\ st[1].op = "ensure" /\ st[1].fails = "warns" /\ st[1].under = "root"
        /\ st[2].op = "check" /\ st[2].fails = "error" /\ st[2].under = "root"
        /\ st[3].op = "check" /\ st[3].fails = "error" /\ st[3].under = "root"
        /\ st[4].op = "set" /\ st[4].fails = "warns" /\ st[4].under = "root"
        /\ st[5].op = "end" /\ st[5].fails = "warns" /\ st[5].under = "root"
    BY DEF ue_validate_third_person_pie, Recipe, Step, Ensure, If, Warns, Check, Set,
       End
  <1> HIDE DEF st
  <1>3. Regular("ue_validate_third_person_pie", ue_validate_third_person_pie, 1, 6, 0)
    BY <1>1, <1>2, Upto5
       DEF st, Regular, IsScript, Orderly, SavesFrom, Flat, AddsAt
  <1>4. QED  BY <1>3, RegularScript

LEMMA CreateWidgetBlueprintScript ==
    WellWritten("ue_create_widget_blueprint", ue_create_widget_blueprint)
  <1> DEFINE st == ue_create_widget_blueprint.steps
  <1>1. Len(st) = 8 /\ DOMAIN st = 1..8
    BY DEF ue_create_widget_blueprint, Recipe
  <1>2. /\ st[1].op = "check" /\ st[1].fails = "silent" /\ st[1].under = "root"
        /\ st[2].op = "new" /\ st[2].fails = "error" /\ st[2].under = "root"
        /\ st[3].op = "check" /\ st[3].fails = "warns" /\ st[3].under = "root"
        /\ st[4].op = "ensure" /\ st[4].fails = "warns" /\ st[4].under = "root"
        /\ st[5].op = "check" /\ st[5].fails = "silent" /\ st[5].under = "root" /\ st[5].obj = "BlueprintEditorLibrary"
        /\ st[6].op = "compile" /\ st[6].fails = "warns" /\ st[6].under = "root"
        /\ st[7].op = "save" /\ st[7].fails = "error" /\ st[7].under = "root" /\ st[7].with = {}
        /\ st[8].op = "got" /\ st[8].fails = "unsupported" /\ st[8].under = "root"
    BY DEF ue_create_widget_blueprint, Recipe, Check, Step, If, Silent, New, Warns,
       Ensure, With, Compiler, Compiles, Compile, Save, Got, Unsupported
  <1> HIDE DEF st
  <1>3. Regular("ue_create_widget_blueprint", ue_create_widget_blueprint, 2, 7, 0)
    BY <1>1, <1>2, Upto8
       DEF st, Regular, IsScript, Orderly, SavesFrom, Flat, AddsAt
  <1>4. QED  BY <1>3, RegularScript

LEMMA AddWidgetToBlueprintScript ==
    WellWritten("ue_add_widget_to_blueprint", ue_add_widget_to_blueprint)
  <1> DEFINE st == ue_add_widget_to_blueprint.steps
  <1>1. Len(st) = 10 /\ DOMAIN st = 1..10
    BY DEF ue_add_widget_to_blueprint, Recipe
  <1>2. /\ st[1].op = "find" /\ st[1].fails = "error" /\ st[1].under = "root"
        /\ st[2].op = "check" /\ st[2].fails = "error" /\ st[2].under = "root"
        /\ st[3].op = "check" /\ st[3].fails = "error" /\ st[3].under = "root"
        /\ st[4].op = "add" /\ st[4].fails = "error" /\ st[4].under = "root"
        /\ st[5].op = "check" /\ st[5].fails = "warns" /\ st[5].under = "root"
        /\ st[6].op = "set" /\ st[6].fails = "warns" /\ st[6].under = "root"
        /\ st[7].op = "set" /\ st[7].fails = "silent" /\ st[7].under = "root"
        /\ st[8].op = "check" /\ st[8].fails = "silent" /\ st[8].under = "root" /\ st[8].obj = "BlueprintEditorLibrary"
        /\ st[9].op = "compile" /\ st[9].fails = "error" /\ st[9].under = "root"
        /\ st[10].op = "save" /\ st[10].fails = "error" /\ st[10].under = "root" /\ st[10].with = {}
    BY DEF ue_add_widget_to_blueprint, Recipe, Find, Step, Check, Add, Warns, Set, With,
       If, Silent, Compiler, Compiles, Compile, Save
  <1> HIDE DEF st
  <1>3. Regular("ue_add_widget_to_blueprint", ue_add_widget_to_blueprint, 4, 10, 4)
    BY <1>1, <1>2, Upto10
       DEF st, Regular, IsScript, Orderly, SavesFrom, Flat, AddsAt
  <1>4. QED  BY <1>3, RegularScript

LEMMA InspectWidgetBlueprintScript ==
    WellWritten("ue_inspect_widget_blueprint", ue_inspect_widget_blueprint)
  <1> DEFINE st == ue_inspect_widget_blueprint.steps
  <1>1. Len(st) = 2 /\ DOMAIN st = 1..2
    BY DEF ue_inspect_widget_blueprint, Recipe
  <1>2. /\ st[1].op = "find" /\ st[1].fails = "error" /\ st[1].under = "root"
        /\ st[2].op = "check" /\ st[2].fails = "error" /\ st[2].under = "root"
    BY DEF ue_inspect_widget_blueprint, Recipe, Step, Find, Check
  <1> HIDE DEF st
  <1>3. Regular("ue_inspect_widget_blueprint", ue_inspect_widget_blueprint, 3, 3, 0)
    BY <1>1, <1>2, Upto2
       DEF st, Regular, IsScript, Orderly, SavesFrom, Flat, AddsAt
  <1>4. QED  BY <1>3, RegularScript

LEMMA AddWidgetToPanelScript ==
    WellWritten("ue_add_widget_to_panel", ue_add_widget_to_panel)
  <1> DEFINE st == ue_add_widget_to_panel.steps
  <1>1. Len(st) = 12 /\ DOMAIN st = 1..12
    BY DEF ue_add_widget_to_panel, Recipe
  <1>2. /\ st[1].op = "find" /\ st[1].fails = "error" /\ st[1].under = "root"
        /\ st[2].op = "check" /\ st[2].fails = "error" /\ st[2].under = "root"
        /\ st[3].op = "find" /\ st[3].fails = "error" /\ st[3].under = "root"
        /\ st[4].op = "check" /\ st[4].fails = "error" /\ st[4].under = "root"
        /\ st[5].op = "add" /\ st[5].fails = "error" /\ st[5].under = "root"
        /\ st[6].op = "check" /\ st[6].fails = "error" /\ st[6].under = "root"
        /\ st[7].op = "set" /\ st[7].fails = "error" /\ st[7].under = "root"
        /\ st[8].op = "set" /\ st[8].fails = "warns" /\ st[8].under = "root"
        /\ st[9].op = "set" /\ st[9].fails = "silent" /\ st[9].under = "root"
        /\ st[10].op = "check" /\ st[10].fails = "silent" /\ st[10].under = "root" /\ st[10].obj = "BlueprintEditorLibrary"
        /\ st[11].op = "compile" /\ st[11].fails = "error" /\ st[11].under = "root"
        /\ st[12].op = "save" /\ st[12].fails = "error" /\ st[12].under = "root" /\ st[12].with = {}
    BY DEF ue_add_widget_to_panel, Recipe, Find, Step, Check, Add, Set, Warns, Silent,
       Compiler, Compiles, Compile, With, Save
  <1> HIDE DEF st
  <1>3. Regular("ue_add_widget_to_panel", ue_add_widget_to_panel, 5, 12, 5)
    BY <1>1, <1>2, Upto12
       DEF st, Regular, IsScript, Orderly, SavesFrom, Flat, AddsAt
  <1>4. QED  BY <1>3, RegularScript

LEMMA SetWidgetPropertiesScript ==
    WellWritten("ue_set_widget_properties", ue_set_widget_properties)
  <1> DEFINE st == ue_set_widget_properties.steps
  <1>1. Len(st) = 7 /\ DOMAIN st = 1..7
    BY DEF ue_set_widget_properties, Recipe
  <1>2. /\ st[1].op = "find" /\ st[1].fails = "error" /\ st[1].under = "root"
        /\ st[2].op = "find" /\ st[2].fails = "error" /\ st[2].under = "root"
        /\ st[3].op = "set" /\ st[3].fails = "warns" /\ st[3].under = "root"
        /\ st[4].op = "set" /\ st[4].fails = "silent" /\ st[4].under = "root"
        /\ st[5].op = "check" /\ st[5].fails = "silent" /\ st[5].under = "root" /\ st[5].obj = "BlueprintEditorLibrary"
        /\ st[6].op = "compile" /\ st[6].fails = "error" /\ st[6].under = "root"
        /\ st[7].op = "save" /\ st[7].fails = "error" /\ st[7].under = "root" /\ st[7].with = {}
    BY DEF ue_set_widget_properties, Recipe, Find, Step, Set, Warns, Silent, Compiler,
       Check, Compiles, Compile, With, Save
  <1> HIDE DEF st
  <1>3. Regular("ue_set_widget_properties", ue_set_widget_properties, 3, 7, 0)
    BY <1>1, <1>2, Upto7
       DEF st, Regular, IsScript, Orderly, SavesFrom, Flat, AddsAt
  <1>4. QED  BY <1>3, RegularScript

LEMMA ConfigureWidgetLayoutScript ==
    WellWritten("ue_configure_widget_layout", ue_configure_widget_layout)
  <1> DEFINE st == ue_configure_widget_layout.steps
  <1>1. Len(st) = 8 /\ DOMAIN st = 1..8
    BY DEF ue_configure_widget_layout, Recipe
  <1>2. /\ st[1].op = "find" /\ st[1].fails = "error" /\ st[1].under = "root"
        /\ st[2].op = "find" /\ st[2].fails = "error" /\ st[2].under = "root"
        /\ st[3].op = "check" /\ st[3].fails = "error" /\ st[3].under = "root"
        /\ st[4].op = "set" /\ st[4].fails = "warns" /\ st[4].under = "root"
        /\ st[5].op = "set" /\ st[5].fails = "silent" /\ st[5].under = "root"
        /\ st[6].op = "check" /\ st[6].fails = "silent" /\ st[6].under = "root" /\ st[6].obj = "BlueprintEditorLibrary"
        /\ st[7].op = "compile" /\ st[7].fails = "error" /\ st[7].under = "root"
        /\ st[8].op = "save" /\ st[8].fails = "error" /\ st[8].under = "root" /\ st[8].with = {}
    BY DEF ue_configure_widget_layout, Recipe, Find, Step, Check, Set, Warns, Silent,
       Compiler, Compiles, Compile, With, Save
  <1> HIDE DEF st
  <1>3. Regular("ue_configure_widget_layout", ue_configure_widget_layout, 4, 8, 0)
    BY <1>1, <1>2, Upto8
       DEF st, Regular, IsScript, Orderly, SavesFrom, Flat, AddsAt
  <1>4. QED  BY <1>3, RegularScript

LEMMA CreateWidgetComponentBlueprintScript ==
    WellWritten("ue_create_widget_component_blueprint", ue_create_widget_component_blueprint)
  <1> DEFINE st == ue_create_widget_component_blueprint.steps
  <1>1. Len(st) = 11 /\ DOMAIN st = 1..11
    BY DEF ue_create_widget_component_blueprint, Recipe
  <1>2. /\ st[1].op = "find" /\ st[1].fails = "error" /\ st[1].under = "root"
        /\ st[2].op = "check" /\ st[2].fails = "error" /\ st[2].under = "root"
        /\ st[3].op = "make" /\ st[3].fails = "error" /\ st[3].under = "root"
        /\ st[4].op = "check" /\ st[4].fails = "silent" /\ st[4].under = "root" /\ st[4].obj = "BlueprintEditorLibrary"
        /\ st[5].op = "compile" /\ st[5].fails = "error" /\ st[5].under = "root"
        /\ st[6].op = "check" /\ st[6].fails = "unsupported" /\ st[6].under = "root"
        /\ st[7].op = "add" /\ st[7].fails = "unsupported" /\ st[7].under = "root"
        /\ st[8].op = "check" /\ st[8].fails = "mute" /\ st[8].under = "root"
        /\ st[9].op = "set" /\ st[9].fails = "warns" /\ st[9].under = "root"
        /\ st[10].op = "compile" /\ st[10].fails = "error" /\ st[10].under = "root"
        /\ st[11].op = "save" /\ st[11].fails = "error" /\ st[11].under = "root" /\ st[11].with = {}
    BY DEF ue_create_widget_component_blueprint, Recipe, Find, Step, Check, Make,
       Compiler, Silent, Compiles, Compile, With, Unsupported, Add, Mute, Set, Warns, Save
  <1> HIDE DEF st
  <1>3. Regular("ue_create_widget_component_blueprint", ue_create_widget_component_blueprint, 3, 11, 7)
    BY <1>1, <1>2, Upto11
       DEF st, Regular, IsScript, Orderly, SavesFrom, Flat, AddsAt
  <1>4. QED  BY <1>3, RegularScript

LEMMA AddBlueprintComponentScript ==
    WellWritten("ue_add_blueprint_component", ue_add_blueprint_component)
  <1> DEFINE st == ue_add_blueprint_component.steps
  <1>1. Len(st) = 9 /\ DOMAIN st = 1..9
    BY DEF ue_add_blueprint_component, Recipe
  <1>2. /\ st[1].op = "find" /\ st[1].fails = "error" /\ st[1].under = "root"
        /\ st[2].op = "check" /\ st[2].fails = "error" /\ st[2].under = "root"
        /\ st[3].op = "check" /\ st[3].fails = "error" /\ st[3].under = "root"
        /\ st[4].op = "find" /\ st[4].fails = "silent" /\ st[4].under = "root"
        /\ st[5].op = "add" /\ st[5].fails = "error" /\ st[5].under = "root"
        /\ st[6].op = "set" /\ st[6].fails = "silent" /\ st[6].under = "root"
        /\ st[7].op = "check" /\ st[7].fails = "silent" /\ st[7].under = "root" /\ st[7].obj = "BlueprintEditorLibrary"
        /\ st[8].op = "compile" /\ st[8].fails = "error" /\ st[8].under = "root"
        /\ st[9].op = "save" /\ st[9].fails = "error" /\ st[9].under = "root" /\ st[9].with = {}
    BY DEF ue_add_blueprint_component, Recipe, Find, Step, Check, If, Silent, Add, Set,
       Compiler, Compiles, Compile, With, Save
  <1> HIDE DEF st
  <1>3. Regular("ue_add_blueprint_component", ue_add_blueprint_component, 5, 9, 5)
    BY <1>1, <1>2, Upto9
       DEF st, Regular, IsScript, Orderly, SavesFrom, Flat, AddsAt
  <1>4. QED  BY <1>3, RegularScript

LEMMA SetBlueprintClassDefaultScript ==
    WellWritten("ue_set_blueprint_class_default", ue_set_blueprint_class_default)
  <1> DEFINE st == ue_set_blueprint_class_default.steps
  <1>1. Len(st) = 7 /\ DOMAIN st = 1..7
    BY DEF ue_set_blueprint_class_default, Recipe
  <1>2. /\ st[1].op = "find" /\ st[1].fails = "error" /\ st[1].under = "root"
        /\ st[2].op = "check" /\ st[2].fails = "silent" /\ st[2].under = "root" /\ st[2].obj = "BlueprintEditorLibrary"
        /\ st[3].op = "compile" /\ st[3].fails = "error" /\ st[3].under = "root"
        /\ st[4].op = "check" /\ st[4].fails = "error" /\ st[4].under = "root"
        /\ st[5].op = "set" /\ st[5].fails = "error" /\ st[5].under = "root"
        /\ st[6].op = "compile" /\ st[6].fails = "error" /\ st[6].under = "root"
        /\ st[7].op = "save" /\ st[7].fails = "error" /\ st[7].under = "root" /\ st[7].with = {}
    BY DEF ue_set_blueprint_class_default, Recipe, Find, Step, Compiler, Check, Silent,
       Compiles, Compile, With, Set, Save
  <1> HIDE DEF st
  <1>3. Regular("ue_set_blueprint_class_default", ue_set_blueprint_class_default, 5, 7, 0)
    BY <1>1, <1>2, Upto7
       DEF st, Regular, IsScript, Orderly, SavesFrom, Flat, AddsAt
  <1>4. QED  BY <1>3, RegularScript

LEMMA ReparentBlueprintScript ==
    WellWritten("ue_reparent_blueprint", ue_reparent_blueprint)
  <1> DEFINE st == ue_reparent_blueprint.steps
  <1>1. Len(st) = 6 /\ DOMAIN st = 1..6
    BY DEF ue_reparent_blueprint, Recipe
  <1>2. /\ st[1].op = "find" /\ st[1].fails = "error" /\ st[1].under = "root"
        /\ st[2].op = "check" /\ st[2].fails = "error" /\ st[2].under = "root"
        /\ st[3].op = "check" /\ st[3].fails = "error" /\ st[3].under = "root"
        /\ st[4].op = "set" /\ st[4].fails = "error" /\ st[4].under = "root"
        /\ st[5].op = "compile" /\ st[5].fails = "error" /\ st[5].under = "root"
        /\ st[6].op = "save" /\ st[6].fails = "error" /\ st[6].under = "root" /\ st[6].with = {}
    BY DEF ue_reparent_blueprint, Recipe, Find, Step, Compiler, Check, Set, Compile, Save
  <1> HIDE DEF st
  <1>3. Regular("ue_reparent_blueprint", ue_reparent_blueprint, 4, 6, 0)
    BY <1>1, <1>2, Upto6
       DEF st, Regular, IsScript, Orderly, SavesFrom, Flat, AddsAt
  <1>4. QED  BY <1>3, RegularScript

LEMMA AddBlueprintFunctionScript ==
    WellWritten("ue_add_blueprint_function", ue_add_blueprint_function)
  <1> DEFINE st == ue_add_blueprint_function.steps
  <1>1. Len(st) = 6 /\ DOMAIN st = 1..6
    BY DEF ue_add_blueprint_function, Recipe
  <1>2. /\ st[1].op = "find" /\ st[1].fails = "error" /\ st[1].under = "root"
        /\ st[2].op = "check" /\ st[2].fails = "error" /\ st[2].under = "root"
        /\ st[3].op = "check" /\ st[3].fails = "error" /\ st[3].under = "root"
        /\ st[4].op = "add" /\ st[4].fails = "error" /\ st[4].under = "root"
        /\ st[5].op = "compile" /\ st[5].fails = "error" /\ st[5].under = "root"
        /\ st[6].op = "save" /\ st[6].fails = "error" /\ st[6].under = "root" /\ st[6].with = {}
    BY DEF ue_add_blueprint_function, Recipe, Find, Step, Compiler, Check, Add, Compile,
       Save
  <1> HIDE DEF st
  <1>3. Regular("ue_add_blueprint_function", ue_add_blueprint_function, 4, 6, 4)
    BY <1>1, <1>2, Upto6
       DEF st, Regular, IsScript, Orderly, SavesFrom, Flat, AddsAt
  <1>4. QED  BY <1>3, RegularScript

LEMMA CreatePcgGraphScript == WellWritten("ue_create_pcg_graph", ue_create_pcg_graph)
  <1> DEFINE st == ue_create_pcg_graph.steps
  <1>1. Len(st) = 3 /\ DOMAIN st = 1..3
    BY DEF ue_create_pcg_graph, Recipe
  <1>2. /\ st[1].op = "check" /\ st[1].fails = "error" /\ st[1].under = "root"
        /\ st[2].op = "new" /\ st[2].fails = "error" /\ st[2].under = "root"
        /\ st[3].op = "save" /\ st[3].fails = "error" /\ st[3].under = "root" /\ st[3].with = {}
    BY DEF ue_create_pcg_graph, Recipe, Step, Check, New, Save
  <1> HIDE DEF st
  <1>3. Regular("ue_create_pcg_graph", ue_create_pcg_graph, 2, 3, 0)
    BY <1>1, <1>2, Upto3
       DEF st, Regular, IsScript, Orderly, SavesFrom, Flat, AddsAt
  <1>4. QED  BY <1>3, RegularScript

LEMMA SpawnPcgVolumeScript == WellWritten("ue_spawn_pcg_volume", ue_spawn_pcg_volume)
  <1> DEFINE st == ue_spawn_pcg_volume.steps
  <1>1. Len(st) = 6 /\ DOMAIN st = 1..6
    BY DEF ue_spawn_pcg_volume, Recipe
  <1>2. /\ st[1].op = "check" /\ st[1].fails = "error" /\ st[1].under = "root"
        /\ st[2].op = "add" /\ st[2].fails = "error" /\ st[2].under = "root"
        /\ st[3].op = "set" /\ st[3].fails = "silent" /\ st[3].under = "root"
        /\ st[4].op = "find" /\ st[4].fails = "warns" /\ st[4].under = "root"
        /\ st[5].op = "check" /\ st[5].fails = "warns" /\ st[5].under = "root"
        /\ st[6].op = "set" /\ st[6].fails = "warns" /\ st[6].under = "root"
    BY DEF ue_spawn_pcg_volume, Recipe, Check, Step, Add, Set, If, Silent, Find, Warns,
       With
  <1> HIDE DEF st
  <1>3. Regular("ue_spawn_pcg_volume", ue_spawn_pcg_volume, 2, 7, 2)
    BY <1>1, <1>2, Upto6
       DEF st, Regular, IsScript, Orderly, SavesFrom, Flat, AddsAt
  <1>4. QED  BY <1>3, RegularScript

LEMMA AssignPcgGraphScript == WellWritten("ue_assign_pcg_graph", ue_assign_pcg_graph)
  <1> DEFINE st == ue_assign_pcg_graph.steps
  <1>1. Len(st) = 6 /\ DOMAIN st = 1..6
    BY DEF ue_assign_pcg_graph, Recipe
  <1>2. /\ st[1].op = "check" /\ st[1].fails = "error" /\ st[1].under = "root"
        /\ st[2].op = "find" /\ st[2].fails = "error" /\ st[2].under = "root"
        /\ st[3].op = "find" /\ st[3].fails = "error" /\ st[3].under = "root"
        /\ st[4].op = "check" /\ st[4].fails = "error" /\ st[4].under = "root"
        /\ st[5].op = "set" /\ st[5].fails = "error" /\ st[5].under = "root"
        /\ st[6].op = "set" /\ st[6].fails = "warns" /\ st[6].under = "root"
    BY DEF ue_assign_pcg_graph, Recipe, Step, Check, Find, Set, If, Warns
  <1> HIDE DEF st
  <1>3. Regular("ue_assign_pcg_graph", ue_assign_pcg_graph, 5, 7, 0)
    BY <1>1, <1>2, Upto6
       DEF st, Regular, IsScript, Orderly, SavesFrom, Flat, AddsAt
  <1>4. QED  BY <1>3, RegularScript

LEMMA CreateLandscapeScript == WellWritten("ue_create_landscape", ue_create_landscape)
  <1> DEFINE st == ue_create_landscape.steps
  <1>1. Len(st) = 3 /\ DOMAIN st = 1..3
    BY DEF ue_create_landscape, Recipe
  <1>2. /\ st[1].op = "check" /\ st[1].fails = "error" /\ st[1].under = "root"
        /\ st[2].op = "add" /\ st[2].fails = "error" /\ st[2].under = "root"
        /\ st[3].op = "set" /\ st[3].fails = "silent" /\ st[3].under = "root"
    BY DEF ue_create_landscape, Recipe, Step, Check, Add, Set, Silent
  <1> HIDE DEF st
  <1>3. Regular("ue_create_landscape", ue_create_landscape, 2, 4, 2)
    BY <1>1, <1>2, Upto3
       DEF st, Regular, IsScript, Orderly, SavesFrom, Flat, AddsAt
  <1>4. QED  BY <1>3, RegularScript

LEMMA SetLandscapeMaterialScript ==
    WellWritten("ue_set_landscape_material", ue_set_landscape_material)
  <1> DEFINE st == ue_set_landscape_material.steps
  <1>1. Len(st) = 3 /\ DOMAIN st = 1..3
    BY DEF ue_set_landscape_material, Recipe
  <1>2. /\ st[1].op = "find" /\ st[1].fails = "error" /\ st[1].under = "root"
        /\ st[2].op = "find" /\ st[2].fails = "error" /\ st[2].under = "root"
        /\ st[3].op = "set" /\ st[3].fails = "error" /\ st[3].under = "root"
    BY DEF ue_set_landscape_material, Recipe, Step, Find, Set
  <1> HIDE DEF st
  <1>3. Regular("ue_set_landscape_material", ue_set_landscape_material, 3, 4, 0)
    BY <1>1, <1>2, Upto3
       DEF st, Regular, IsScript, Orderly, SavesFrom, Flat, AddsAt
  <1>4. QED  BY <1>3, RegularScript

LEMMA GetLandscapeInfoScript == WellWritten("ue_get_landscape_info", ue_get_landscape_info)
  <1> DEFINE st == ue_get_landscape_info.steps
  <1>1. Len(st) = 0 /\ DOMAIN st = 1..0
    BY DEF ue_get_landscape_info, Recipe
  <1> HIDE DEF st
  <1>3. Regular("ue_get_landscape_info", ue_get_landscape_info, 1, 1, 0)
    BY <1>1
       DEF st, Regular, IsScript, Orderly, SavesFrom, Flat, AddsAt
  <1>4. QED  BY <1>3, RegularScript

LEMMA SetupSkyAtmosphereScript ==
    WellWritten("ue_setup_sky_atmosphere", ue_setup_sky_atmosphere)
  <1> DEFINE st == ue_setup_sky_atmosphere.steps
  <1>1. Len(st) = 7 /\ DOMAIN st = 1..7
    BY DEF ue_setup_sky_atmosphere, Recipe
  <1>2. /\ st[1].op = "ensure" /\ st[1].fails = "warns" /\ st[1].under = "root"
        /\ st[2].op = "ensure" /\ st[2].fails = "warns" /\ st[2].under = "root"
        /\ st[3].op = "set" /\ st[3].fails = "silent" /\ st[3].under = "root"
        /\ st[4].op = "ensure" /\ st[4].fails = "warns" /\ st[4].under = "root"
        /\ st[5].op = "set" /\ st[5].fails = "silent" /\ st[5].under = "root"
        /\ st[6].op = "ensure" /\ st[6].fails = "warns" /\ st[6].under = "root"
        /\ st[7].op = "ensure" /\ st[7].fails = "warns" /\ st[7].under = "root"
    BY DEF ue_setup_sky_atmosphere, Recipe, Step, Ensure, Warns, Set, With, Silent, If
  <1> HIDE DEF st
  <1>3. Regular("ue_setup_sky_atmosphere", ue_setup_sky_atmosphere, 1, 8, 0)
    BY <1>1, <1>2, Upto7
       DEF st, Regular, IsScript, Orderly, SavesFrom, Flat, AddsAt
  <1>4. QED  BY <1>3, RegularScript

LEMMA SetSunDirectionScript == WellWritten("ue_set_sun_direction", ue_set_sun_direction)
  <1> DEFINE st == ue_set_sun_direction.steps
  <1>1. Len(st) = 2 /\ DOMAIN st = 1..2
    BY DEF ue_set_sun_direction, Recipe
  <1>2. /\ st[1].op = "find" /\ st[1].fails = "error" /\ st[1].under = "root"
        /\ st[2].op = "set" /\ st[2].fails = "error" /\ st[2].under = "root"
    BY DEF ue_set_sun_direction, Recipe, Step, Find, Set
  <1> HIDE DEF st
  <1>3. Regular("ue_set_sun_direction", ue_set_sun_direction, 2, 3, 0)
    BY <1>1, <1>2, Upto2
       DEF st, Regular, IsScript, Orderly, SavesFrom, Flat, AddsAt
  <1>4. QED  BY <1>3, RegularScript

LEMMA SetFogPropertiesScript ==
    WellWritten("ue_set_fog_properties", ue_set_fog_properties)
  <1> DEFINE st == ue_set_fog_properties.steps
  <1>1. Len(st) = 5 /\ DOMAIN st = 1..5
    BY DEF ue_set_fog_properties, Recipe
  <1>2. /\ st[1].op = "check" /\ st[1].fails = "error" /\ st[1].under = "root"
        /\ st[2].op = "ensure" /\ st[2].fails = "error" /\ st[2].under = "root"
        /\ st[3].op = "supply" /\ st[3].fails = "error" /\ st[3].under = "root"
        /\ st[4].op = "check" /\ st[4].fails = "silent" /\ st[4].under = "root"
        /\ st[5].op = "set" /\ st[5].fails = "silent" /\ st[5].under = "root"
    BY DEF ue_set_fog_properties, Recipe, Check, Step, Ensure, Unless, Supply, If, Silent,
       Set, With
  <1> HIDE DEF st
  <1>3. Regular("ue_set_fog_properties", ue_set_fog_properties, 2, 6, 3)
    BY <1>1, <1>2, Upto5
       DEF st, Regular, IsScript, Orderly, SavesFrom, Flat, AddsAt
  <1>4. QED  BY <1>3, RegularScript

LEMMA SpawnWaterBodyScript == WellWritten("ue_spawn_water_body", ue_spawn_water_body)
  <1> DEFINE st == ue_spawn_water_body.steps
  <1>1. Len(st) = 4 /\ DOMAIN st = 1..4
    BY DEF ue_spawn_water_body, Recipe
  <1>2. /\ st[1].op = "check" /\ st[1].fails = "error" /\ st[1].under = "root"
        /\ st[2].op = "check" /\ st[2].fails = "error" /\ st[2].under = "root"
        /\ st[3].op = "add" /\ st[3].fails = "error" /\ st[3].under = "root"
        /\ st[4].op = "set" /\ st[4].fails = "silent" /\ st[4].under = "root"
    BY DEF ue_spawn_water_body, Recipe, Step, Check, Add, Set, If, Silent
  <1> HIDE DEF st
  <1>3. Regular("ue_spawn_water_body", ue_spawn_water_body, 3, 5, 3)
    BY <1>1, <1>2, Upto4
       DEF st, Regular, IsScript, Orderly, SavesFrom, Flat, AddsAt
  <1>4. QED  BY <1>3, RegularScript

LEMMA SetWaterBodyPropertiesScript ==
    WellWritten("ue_set_water_body_properties", ue_set_water_body_properties)
  <1> DEFINE st == ue_set_water_body_properties.steps
  <1>1. Len(st) = 4 /\ DOMAIN st = 1..4
    BY DEF ue_set_water_body_properties, Recipe
  <1>2. /\ st[1].op = "find" /\ st[1].fails = "error" /\ st[1].under = "root"
        /\ st[2].op = "set" /\ st[2].fails = "silent" /\ st[2].under = "root"
        /\ st[3].op = "find" /\ st[3].fails = "silent" /\ st[3].under = "root"
        /\ st[4].op = "set" /\ st[4].fails = "silent" /\ st[4].under = "root"
    BY DEF ue_set_water_body_properties, Recipe, Find, Step, Set, Silent, If, With
  <1> HIDE DEF st
  <1>3. Regular("ue_set_water_body_properties", ue_set_water_body_properties, 2, 5, 0)
    BY <1>1, <1>2, Upto4
       DEF st, Regular, IsScript, Orderly, SavesFrom, Flat, AddsAt
  <1>4. QED  BY <1>3, RegularScript

LEMMA AddMaterialExpressionScript ==
    WellWritten("ue_add_material_expression", ue_add_material_expression)
  <1> DEFINE st == ue_add_material_expression.steps
  <1>1. Len(st) = 8 /\ DOMAIN st = 1..8
    BY DEF ue_add_material_expression, Recipe
  <1>2. /\ st[1].op = "find" /\ st[1].fails = "error" /\ st[1].under = "root"
        /\ st[2].op = "check" /\ st[2].fails = "error" /\ st[2].under = "root"
        /\ st[3].op = "add" /\ st[3].fails = "error" /\ st[3].under = "root"
        /\ st[4].op = "set" /\ st[4].fails = "silent" /\ st[4].under = "root"
        /\ st[5].op = "find" /\ st[5].fails = "silent" /\ st[5].under = "root"
        /\ st[6].op = "set" /\ st[6].fails = "silent" /\ st[6].under = "root"
        /\ st[7].op = "compile" /\ st[7].fails = "error" /\ st[7].under = "root"
        /\ st[8].op = "save" /\ st[8].fails = "error" /\ st[8].under = "root" /\ st[8].with = {}
    BY DEF ue_add_material_expression, Recipe, Find, Step, Check, Add, Set, Silent, If,
       With, Compile, Save
  <1> HIDE DEF st
  <1>3. Regular("ue_add_material_expression", ue_add_material_expression, 3, 8, 3)
    BY <1>1, <1>2, Upto8
       DEF st, Regular, IsScript, Orderly, SavesFrom, Flat, AddsAt
  <1>4. QED  BY <1>3, RegularScript

LEMMA ConnectMaterialExpressionsScript ==
    WellWritten("ue_connect_material_expressions", ue_connect_material_expressions)
  <1> DEFINE st == ue_connect_material_expressions.steps
  <1>1. Len(st) = 8 /\ DOMAIN st = 1..8
    BY DEF ue_connect_material_expressions, Recipe
  <1>2. /\ st[1].op = "find" /\ st[1].fails = "error" /\ st[1].under = "root"
        /\ st[2].op = "find" /\ st[2].fails = "error" /\ st[2].under = "root"
        /\ st[3].op = "find" /\ st[3].fails = "error" /\ st[3].under = "root"
        /\ st[4].op = "check" /\ st[4].fails = "error" /\ st[4].under = "root"
        /\ st[5].op = "ensure" /\ st[5].fails = "warns" /\ st[5].under = "root"
        /\ st[6].op = "compile" /\ st[6].fails = "error" /\ st[6].under = "root"
        /\ st[7].op = "save" /\ st[7].fails = "error" /\ st[7].under = "root" /\ st[7].with = {}
        /\ st[8].op = "got" /\ st[8].fails = "error" /\ st[8].under = "root"
    BY DEF ue_connect_material_expressions, Recipe, Step, Find, Check, Ensure, Warns,
       Compile, Save, Got
  <1>3. /\ st[1].obj = "asset" /\ st[2].obj = "from" /\ st[3].obj = "to"
        /\ st[4].obj = "connect" /\ st[5].obj = "link" /\ st[6].obj = "asset"
        /\ st[7].obj = "asset" /\ st[8].obj = "link"
    BY DEF ue_connect_material_expressions, Recipe, Step, Find, Check, Ensure, Warns,
       Compile, Save, Got
  <1>4. st[5].with = {}
    BY DEF ue_connect_material_expressions, Recipe, Step, Find, Check, Ensure, Warns,
       Compile, Save, Got
  <1> HIDE DEF st
  <1>5. \A i \in 1..7 : st[i].obj = "link" => i = 5
    BY <1>3, Upto7
  <1>6. Kept(ue_connect_material_expressions, 8)
    BY <1>2, <1>3, <1>4, <1>5 DEF st, Kept
  <1>7. Regular("ue_connect_material_expressions", ue_connect_material_expressions, 5, 7, 0)
    BY <1>1, <1>2, <1>6, Upto8
       DEF st, Regular, IsScript, Orderly, SavesFrom, Flat, AddsAt
  <1>8. QED  BY <1>7, RegularScript

LEMMA ConnectMaterialPropertyScript ==
    WellWritten("ue_connect_material_property", ue_connect_material_property)
  <1> DEFINE st == ue_connect_material_property.steps
  <1>1. Len(st) = 8 /\ DOMAIN st = 1..8
    BY DEF ue_connect_material_property, Recipe
  <1>2. /\ st[1].op = "find" /\ st[1].fails = "error" /\ st[1].under = "root"
        /\ st[2].op = "find" /\ st[2].fails = "error" /\ st[2].under = "root"
        /\ st[3].op = "check" /\ st[3].fails = "error" /\ st[3].under = "root"
        /\ st[4].op = "check" /\ st[4].fails = "error" /\ st[4].under = "root"
        /\ st[5].op = "ensure" /\ st[5].fails = "warns" /\ st[5].under = "root"
        /\ st[6].op = "compile" /\ st[6].fails = "error" /\ st[6].under = "root"
        /\ st[7].op = "save" /\ st[7].fails = "error" /\ st[7].under = "root" /\ st[7].with = {}
        /\ st[8].op = "got" /\ st[8].fails = "bare" /\ st[8].under = "root"
    BY DEF ue_connect_material_property, Recipe, Step, Find, Check, Ensure, Warns,
       Compile, Save, Got, Bare
  <1>3. /\ st[1].obj = "asset" /\ st[2].obj = "from" /\ st[3].obj = "property"
        /\ st[4].obj = "connect" /\ st[5].obj = "link" /\ st[6].obj = "asset"
        /\ st[7].obj = "asset" /\ st[8].obj = "link"
    BY DEF ue_connect_material_property, Recipe, Step, Find, Check, Ensure, Warns,
       Compile, Save, Got, Bare
  <1>4. st[5].with = {}
    BY DEF ue_connect_material_property, Recipe, Step, Find, Check, Ensure, Warns,
       Compile, Save, Got, Bare
  <1> HIDE DEF st
  <1>5. \A i \in 1..7 : st[i].obj = "link" => i = 5
    BY <1>3, Upto7
  <1>6. Kept(ue_connect_material_property, 8)
    BY <1>2, <1>3, <1>4, <1>5 DEF st, Kept
  <1>7. Regular("ue_connect_material_property", ue_connect_material_property, 5, 7, 0)
    BY <1>1, <1>2, <1>6, Upto8
       DEF st, Regular, IsScript, Orderly, SavesFrom, Flat, AddsAt
  <1>8. QED  BY <1>7, RegularScript

LEMMA SetMaterialPropertiesScript ==
    WellWritten("ue_set_material_properties", ue_set_material_properties)
  <1> DEFINE st == ue_set_material_properties.steps
  <1>1. Len(st) = 5 /\ DOMAIN st = 1..5
    BY DEF ue_set_material_properties, Recipe
  <1>2. /\ st[1].op = "find" /\ st[1].fails = "error" /\ st[1].under = "root"
        /\ st[2].op = "check" /\ st[2].fails = "silent" /\ st[2].under = "root"
        /\ st[3].op = "set" /\ st[3].fails = "silent" /\ st[3].under = "root"
        /\ st[4].op = "compile" /\ st[4].fails = "error" /\ st[4].under = "root"
        /\ st[5].op = "save" /\ st[5].fails = "error" /\ st[5].under = "root" /\ st[5].with = {}
    BY DEF ue_set_material_properties, Recipe, Find, Step, Check, Silent, Set, Compile,
       Save
  <1> HIDE DEF st
  <1>3. Regular("ue_set_material_properties", ue_set_material_properties, 3, 5, 0)
    BY <1>1, <1>2, Upto5
       DEF st, Regular, IsScript, Orderly, SavesFrom, Flat, AddsAt
  <1>4. QED  BY <1>3, RegularScript

HIDE DEF Adding, Changing, Creating, Ending, Fallible
HIDE DEF Untidy, LateUnsupported, Creators, Quiet, Appenders, Features

-----------------------------------------------------------------------------
(* All of them.                                                            *)

\* Whatever tools are looked at: each script of tool_registry.cpp saves after it has
\* changed something, adds a component once and under one that it has added before and,
\* named exceptions apart, refuses before it changes, can be repeated, and passes over
\* no failure without a word but the want of the Features (1752-2999, 3636-6840, 7438-8645).
THEOREM ScriptsAreWellWritten == \A t \in Tools : WellWritten(t, Recipes[t])
  <1> DEFINE G1 ==
           {"ue_get_component_transform", "ue_get_component_bounds",
            "ue_get_blueprint_components", "ue_fit_mesh_component_to_height",
            "ue_set_blueprint_component_template_transform",
            "ue_normalize_imported_character_mesh", "ue_simulate_player_input",
            "ue_create_material", "ue_create_material_instance", "ue_import_asset"}
  <1> DEFINE G2 ==
           {"ue_import_asset_with_transform_policy", "ue_create_folder",
            "ue_data_table_get_rows", "ue_create_blueprint", "ue_add_blueprint_variable",
            "ue_compile_blueprint", "ue_create_character_blueprint",
            "ue_configure_character_movement", "ue_calibrate_character_collision",
            "ue_configure_third_person_camera"}
  <1> DEFINE G3 ==
           {"ue_create_enhanced_input_assets", "ue_create_locomotion_animation_assets",
            "ue_set_game_defaults", "ue_validate_third_person_pie",
            "ue_create_widget_blueprint", "ue_add_widget_to_blueprint",
            "ue_inspect_widget_blueprint", "ue_add_widget_to_panel",
            "ue_set_widget_properties", "ue_configure_widget_layout"}
  <1> DEFINE G4 ==
           {"ue_create_widget_component_blueprint", "ue_add_blueprint_component",
            "ue_set_blueprint_class_default", "ue_reparent_blueprint",
            "ue_add_blueprint_function", "ue_create_pcg_graph", "ue_spawn_pcg_volume",
            "ue_assign_pcg_graph", "ue_create_landscape", "ue_set_landscape_material"}
  <1> DEFINE G5 ==
           {"ue_get_landscape_info", "ue_setup_sky_atmosphere", "ue_set_sun_direction",
            "ue_set_fog_properties", "ue_spawn_water_body",
            "ue_set_water_body_properties", "ue_add_material_expression",
            "ue_connect_material_expressions", "ue_connect_material_property",
            "ue_set_material_properties"}
  <1>0. \A t \in Tools : t \in G1 \cup G2 \cup G3 \cup G4 \cup G5
    BY ToolsAssumption DEF Recipes
  <1>1. \A t \in G1 : WellWritten(t, Recipes[t])
    <2>1. /\ Recipes["ue_get_component_transform"] = ue_get_component_transform
          /\ Recipes["ue_get_component_bounds"] = ue_get_component_bounds
          /\ Recipes["ue_get_blueprint_components"] = ue_get_blueprint_components
          /\ Recipes["ue_fit_mesh_component_to_height"] = ue_fit_mesh_component_to_height
          /\ Recipes["ue_set_blueprint_component_template_transform"] = ue_set_blueprint_component_template_transform
          /\ Recipes["ue_normalize_imported_character_mesh"] = ue_normalize_imported_character_mesh
          /\ Recipes["ue_simulate_player_input"] = ue_simulate_player_input
          /\ Recipes["ue_create_material"] = ue_create_material
          /\ Recipes["ue_create_material_instance"] = ue_create_material_instance
          /\ Recipes["ue_import_asset"] = ue_import_asset
      BY DEF Recipes
    <2>2. QED
      BY <2>1, GetComponentTransformScript, GetComponentBoundsScript,
       GetBlueprintComponentsScript, FitMeshComponentToHeightScript,
       SetBlueprintComponentTemplateTransformScript, NormalizeImportedCharacterMeshScript,
       SimulatePlayerInputScript, CreateMaterialScript, CreateMaterialInstanceScript,
       ImportAssetScript
  <1>2. \A t \in G2 : WellWritten(t, Recipes[t])
    <2>1. /\ Recipes["ue_import_asset_with_transform_policy"] = ue_import_asset_with_transform_policy
          /\ Recipes["ue_create_folder"] = ue_create_folder
          /\ Recipes["ue_data_table_get_rows"] = ue_data_table_get_rows
          /\ Recipes["ue_create_blueprint"] = ue_create_blueprint
          /\ Recipes["ue_add_blueprint_variable"] = ue_add_blueprint_variable
          /\ Recipes["ue_compile_blueprint"] = ue_compile_blueprint
          /\ Recipes["ue_create_character_blueprint"] = ue_create_character_blueprint
          /\ Recipes["ue_configure_character_movement"] = ue_configure_character_movement
          /\ Recipes["ue_calibrate_character_collision"] = ue_calibrate_character_collision
          /\ Recipes["ue_configure_third_person_camera"] = ue_configure_third_person_camera
      BY DEF Recipes
    <2>2. QED
      BY <2>1, ImportAssetWithTransformPolicyScript, CreateFolderScript,
       DataTableGetRowsScript, CreateBlueprintScript, AddBlueprintVariableScript,
       CompileBlueprintScript, CreateCharacterBlueprintScript,
       ConfigureCharacterMovementScript, CalibrateCharacterCollisionScript,
       ConfigureThirdPersonCameraScript
  <1>3. \A t \in G3 : WellWritten(t, Recipes[t])
    <2>1. /\ Recipes["ue_create_enhanced_input_assets"] = ue_create_enhanced_input_assets
          /\ Recipes["ue_create_locomotion_animation_assets"] = ue_create_locomotion_animation_assets
          /\ Recipes["ue_set_game_defaults"] = ue_set_game_defaults
          /\ Recipes["ue_validate_third_person_pie"] = ue_validate_third_person_pie
          /\ Recipes["ue_create_widget_blueprint"] = ue_create_widget_blueprint
          /\ Recipes["ue_add_widget_to_blueprint"] = ue_add_widget_to_blueprint
          /\ Recipes["ue_inspect_widget_blueprint"] = ue_inspect_widget_blueprint
          /\ Recipes["ue_add_widget_to_panel"] = ue_add_widget_to_panel
          /\ Recipes["ue_set_widget_properties"] = ue_set_widget_properties
          /\ Recipes["ue_configure_widget_layout"] = ue_configure_widget_layout
      BY DEF Recipes
    <2>2. QED
      BY <2>1, CreateEnhancedInputAssetsScript,
       CreateLocomotionAnimationAssetsScript, SetGameDefaultsScript,
       ValidateThirdPersonPieScript, CreateWidgetBlueprintScript, AddWidgetToBlueprintScript,
       InspectWidgetBlueprintScript, AddWidgetToPanelScript, SetWidgetPropertiesScript,
       ConfigureWidgetLayoutScript
  <1>4. \A t \in G4 : WellWritten(t, Recipes[t])
    <2>1. /\ Recipes["ue_create_widget_component_blueprint"] = ue_create_widget_component_blueprint
          /\ Recipes["ue_add_blueprint_component"] = ue_add_blueprint_component
          /\ Recipes["ue_set_blueprint_class_default"] = ue_set_blueprint_class_default
          /\ Recipes["ue_reparent_blueprint"] = ue_reparent_blueprint
          /\ Recipes["ue_add_blueprint_function"] = ue_add_blueprint_function
          /\ Recipes["ue_create_pcg_graph"] = ue_create_pcg_graph
          /\ Recipes["ue_spawn_pcg_volume"] = ue_spawn_pcg_volume
          /\ Recipes["ue_assign_pcg_graph"] = ue_assign_pcg_graph
          /\ Recipes["ue_create_landscape"] = ue_create_landscape
          /\ Recipes["ue_set_landscape_material"] = ue_set_landscape_material
      BY DEF Recipes
    <2>2. QED
      BY <2>1, CreateWidgetComponentBlueprintScript,
       AddBlueprintComponentScript, SetBlueprintClassDefaultScript, ReparentBlueprintScript,
       AddBlueprintFunctionScript, CreatePcgGraphScript, SpawnPcgVolumeScript,
       AssignPcgGraphScript, CreateLandscapeScript, SetLandscapeMaterialScript
  <1>5. \A t \in G5 : WellWritten(t, Recipes[t])
    <2>1. /\ Recipes["ue_get_landscape_info"] = ue_get_landscape_info
          /\ Recipes["ue_setup_sky_atmosphere"] = ue_setup_sky_atmosphere
          /\ Recipes["ue_set_sun_direction"] = ue_set_sun_direction
          /\ Recipes["ue_set_fog_properties"] = ue_set_fog_properties
          /\ Recipes["ue_spawn_water_body"] = ue_spawn_water_body
          /\ Recipes["ue_set_water_body_properties"] = ue_set_water_body_properties
          /\ Recipes["ue_add_material_expression"] = ue_add_material_expression
          /\ Recipes["ue_connect_material_expressions"] = ue_connect_material_expressions
          /\ Recipes["ue_connect_material_property"] = ue_connect_material_property
          /\ Recipes["ue_set_material_properties"] = ue_set_material_properties
      BY DEF Recipes
    <2>2. QED
      BY <2>1, GetLandscapeInfoScript, SetupSkyAtmosphereScript,
       SetSunDirectionScript, SetFogPropertiesScript, SpawnWaterBodyScript,
       SetWaterBodyPropertiesScript, AddMaterialExpressionScript,
       ConnectMaterialExpressionsScript, ConnectMaterialPropertyScript,
       SetMaterialPropertiesScript
  <1>6. QED  BY <1>0, <1>1, <1>2, <1>3, <1>4, <1>5

-----------------------------------------------------------------------------
(* The harness.                                                            *)

Emitted == Results \cup {Raised, NoResult}
Entries == [result : Emitted, newline : BOOLEAN]

\* What the log holds: the last result that was emitted, if any was.
LogShows ==
    /\ emitted = NoResult => \A i \in DOMAIN log : log[i].result = NoResult
    /\ emitted # NoResult =>
          \E k \in DOMAIN log : /\ log[k].result = emitted
                                /\ \A i \in DOMAIN log : i > k => log[i].result = NoResult

\* What is found there: that result, unless there is more output on its line.
Found == IF Overrun THEN NoResult ELSE emitted

\* There is room in the log for the traceback.
RoomLeft == pc \in {"body", "except"} => Len(log) <= MaxLog

ReplyShows ==
    pc = "replied" => reply.kind = "transport" \/ reply = answer(Found)

HarnessInv == TypeOK /\ LogShows /\ RoomLeft /\ ReplyShows

-----------------------------------------------------------------------------
(* The scanner.                                                            *)

\* Where the last result is.
LastResult ==
    LET I == {i \in 1..Len(log) : log[i].result # NoResult}
    IN  IF I # {} THEN Max(I) ELSE 0

LEMMA LastEntry ==
    ASSUME TypeOK, LogShows
    PROVE  /\ Len(log) \in Nat
           /\ emitted = NoResult => LastResult = 0
           /\ emitted # NoResult => LastResult \in 1..Len(log) /\ log[LastResult].result = emitted
  <1> DEFINE I == {i \in 1..Len(log) : log[i].result # NoResult}
  <1>0. log \in Seq(Entries)
    BY DEF TypeOK, Entries, Emitted
  <1>1. Len(log) \in Nat /\ DOMAIN log = 1..Len(log)
    BY <1>0
  <1>2. LastResult = IF I # {} THEN Max(I) ELSE 0
    BY DEF LastResult
  <1>3. CASE emitted = NoResult
    <2>1. I = {}
      BY <1>1, <1>3 DEF LogShows
    <2>2. QED  BY <1>1, <1>2, <1>3, <2>1
  <1>4. CASE emitted # NoResult
    <2>1. PICK k \in DOMAIN log : /\ log[k].result = emitted
                                  /\ \A i \in DOMAIN log : i > k => log[i].result = NoResult
      BY <1>4 DEF LogShows
    <2>2. k \in I /\ k \in 1..Len(log)
      BY <1>1, <1>4, <2>1
    <2>3. \A i \in I : i \in Nat /\ i <= k
      BY <1>1, <2>1
    <2>4. Max(I) = k
      <3>1. \A y \in I : k >= y
        BY <2>2, <2>3
      <3>2. \A x \in I : (\A y \in I : x >= y) => x = k
        BY <1>1, <2>2, <2>3
      <3> HIDE DEF I
      <3>3. QED  BY <2>2, <3>1, <3>2 DEF Max
    <2> HIDE DEF I
    <2>5. LastResult = k
      BY <1>2, <2>2, <2>4
    <2>6. QED  BY <1>1, <1>4, <2>1, <2>2, <2>5
  <1>5. QED  BY <1>3, <1>4

LEMMA OverrunIs == Overrun <=> LastResult # 0 /\ LastResult < Len(log) /\ ~log[LastResult].newline
  BY DEF Overrun, SelectLastInSeq, LastResult

\* The scanner finds the last result in the log, if it has the rest of its line.
LEMMA ScanFindsLast ==
    ASSUME TypeOK, LogShows
    PROVE  scan(log) = Found
  <1>1. scan(log) = IF LastResult = 0 THEN NoResult
                    ELSE IF log[LastResult].newline \/ LastResult = Len(log) THEN log[LastResult].result
                    ELSE NoResult
    BY DEF scan, SelectLastInSeq, LastResult
  <1>2. CASE emitted = NoResult
    BY <1>1, <1>2, LastEntry DEF Found
  <1>3. CASE emitted # NoResult
    <2>1. LastResult # 0 /\ log[LastResult].result = emitted /\ (LastResult = Len(log) \/ LastResult < Len(log))
      BY <1>3, LastEntry
    <2>2. CASE Overrun
      BY <1>1, <2>1, <2>2, OverrunIs, LastEntry DEF Found
    <2>3. CASE ~Overrun
      BY <1>1, <2>1, <2>3, OverrunIs DEF Found
    <2>4. QED  BY <2>2, <2>3
  <1>4. QED  BY <1>2, <1>3

\* Either channel of the editor's answer is scanned.
LEMMA ExtractFindsLast ==
    ASSUME TypeOK, LogShows
    PROVE  \A channel \in Channels : extract_recipe_result(channel) = Found
  BY ScanFindsLast DEF extract_recipe_result, Channels

-----------------------------------------------------------------------------
(* The log.                                                                *)

\* One more entry.
LEMMA LogGrows ==
    ASSUME TypeOK, LogShows, NEW r \in Emitted, NEW newline \in BOOLEAN, Log(r, newline),
           emitted' = IF r = NoResult THEN emitted ELSE r
    PROVE  log' \in Seq(Entries) /\ Len(log') = Len(log) + 1 /\ LogShows'
  <1> DEFINE e == [result |-> r, newline |-> newline]
  <1>1. log \in Seq(Entries) /\ e \in Entries /\ log' = Append(log, e)
    BY DEF TypeOK, Entries, Emitted, Log
  <1>2. e.result = r
    OBVIOUS
  <1> HIDE DEF e
  <1>3. /\ log' \in Seq(Entries) /\ Len(log') = Len(log) + 1 /\ Len(log) \in Nat
        /\ DOMAIN log = 1..Len(log) /\ DOMAIN log' = 1..(Len(log) + 1)
        /\ \A i \in 1..Len(log) : log'[i] = log[i]
        /\ log'[Len(log) + 1] = e
    BY <1>1
  <1>4. \A i \in DOMAIN log' : i \in DOMAIN log \/ i = Len(log) + 1
    BY <1>3
  <1>5. CASE r = NoResult
    <2>1. emitted' = emitted
      BY <1>5
    <2>2. emitted = NoResult => \A i \in DOMAIN log' : log'[i].result = NoResult
      BY <1>2, <1>3, <1>4, <1>5 DEF LogShows
    <2>3. ASSUME emitted # NoResult
          PROVE  \E k \in DOMAIN log' :
                    /\ log'[k].result = emitted
                    /\ \A i \in DOMAIN log' : i > k => log'[i].result = NoResult
      <3>1. PICK k \in DOMAIN log : /\ log[k].result = emitted
                                    /\ \A i \in DOMAIN log : i > k => log[i].result = NoResult
        BY <2>3 DEF LogShows
      <3>2. k \in DOMAIN log' /\ log'[k].result = emitted
        BY <1>3, <3>1
      <3>3. \A i \in DOMAIN log' : i > k => log'[i].result = NoResult
        BY <1>2, <1>3, <1>4, <1>5, <3>1
      <3>4. QED  BY <3>2, <3>3
    <2>4. QED  BY <1>3, <2>1, <2>2, <2>3 DEF LogShows
  <1>6. CASE r # NoResult
    <2>1. emitted' = r
      BY <1>6
    <2>2. Len(log) + 1 \in DOMAIN log' /\ log'[Len(log) + 1].result = r
      BY <1>2, <1>3
    <2>3. \A i \in DOMAIN log' : ~(i > Len(log) + 1)
      BY <1>3
    <2>4. QED  BY <1>3, <1>6, <2>1, <2>2, <2>3 DEF LogShows
  <1>7. QED  BY <1>5, <1>6

-----------------------------------------------------------------------------
(* The steps of the harness.                                               *)

\* Every answer is one of the replies.
LEMMA AnswerTypes ==
    ASSUME NEW r \in Emitted
    PROVE  answer(r) \in [kind : {"none", "ok", "error", "noResult", "transport", "thrown"},
                          error : {"none", "text", "recipe reported failure"}]
  BY DEF answer

\* The invariant holds before the script.
LEMMA InitHarness == Init => HarnessInv
  <1> SUFFICES ASSUME Init PROVE HarnessInv
    OBVIOUS
  <1>1. /\ log \in Seq(Entries) /\ Len(log) = 0 /\ DOMAIN log = {}
        /\ MaxLog \in Nat
    BY RecipeAssumption DEF Init
  <1>2. TypeOK
    BY <1>1 DEF Init, TypeOK, Entries, Emitted
  <1>3. LogShows /\ RoomLeft
    BY <1>1 DEF Init, LogShows, RoomLeft
  <1>4. ReplyShows
    BY DEF Init, ReplyShows
  <1>5. QED  BY <1>2, <1>3, <1>4 DEF HarnessInv

\* A script that logs or emits keeps the invariant.
LEMMA LogStep ==
    ASSUME HarnessInv, NEW r \in Emitted, NEW newline \in BOOLEAN, Log(r, newline),
           emitted' = IF r = NoResult THEN emitted ELSE r,
           UNCHANGED reply,
           \/ pc = "body" /\ pc' = "body" /\ Len(log) < MaxLog
           \/ pc = "except" /\ pc' = "ended"
    PROVE  HarnessInv'
  <1>1. log' \in Seq(Entries) /\ Len(log') = Len(log) + 1 /\ LogShows' /\ Len(log) \in Nat
    <2>0. log \in Seq(Entries)
      BY DEF HarnessInv, TypeOK, Entries, Emitted
    <2>1. Len(log) \in Nat
      BY <2>0
    <2>2. QED  BY <2>1, LogGrows DEF HarnessInv
  <1>2. emitted' \in Emitted
    BY DEF HarnessInv, TypeOK, Emitted
  <1>3. Len(log') <= MaxLog + 1 /\ RoomLeft'
    BY <1>1, RecipeAssumption DEF HarnessInv, RoomLeft
  <1>4. pc' \in {"body", "ended"}
        /\ reply' \in [kind : {"none", "ok", "error", "noResult", "transport", "thrown"},
                       error : {"none", "text", "recipe reported failure"}]
    BY DEF HarnessInv, TypeOK
  <1>5. TypeOK'
    BY <1>1, <1>2, <1>3, <1>4 DEF TypeOK, Entries, Emitted
  <1>6. ReplyShows'
    BY <1>4 DEF ReplyShows
  <1>7. QED  BY <1>1, <1>3, <1>5, <1>6 DEF HarnessInv

\* A step that leaves the log alone keeps what it shows.
LEMMA QuietStep ==
    ASSUME HarnessInv, UNCHANGED <<log, emitted>>,
           pc' \in {"body", "except", "ended", "replied"}, pc' = "body" => pc = "body",
           pc' = "except" => pc \in {"body", "except"},
           reply' \in [kind : {"none", "ok", "error", "noResult", "transport", "thrown"},
                       error : {"none", "text", "recipe reported failure"}],
           pc' = "replied" => reply'.kind = "transport" \/ reply' = answer(Found)
    PROVE  HarnessInv'
  <1>1. TypeOK'
    BY DEF HarnessInv, TypeOK
  <1>2. LogShows'
    BY DEF HarnessInv, LogShows
  <1>3. RoomLeft'
    BY DEF HarnessInv, RoomLeft
  <1>4. ReplyShows'
    <2>1. Overrun' = Overrun
      BY DEF Overrun, SelectLastInSeq
    <2>2. Found' = Found
      BY <2>1 DEF Found
    <2>3. answer(Found)' = answer(Found)
      BY <2>2 DEF answer
    <2>4. QED  BY <2>3 DEF ReplyShows
  <1>5. QED  BY <1>1, <1>2, <1>3, <1>4 DEF HarnessInv

\* Every step of the harness keeps it.
LEMMA HarnessStep ==
    ASSUME HarnessInv, [Next]_vars
    PROVE  HarnessInv'
  <1>0. \A newline \in Newlines : newline \in BOOLEAN
    BY RecipeAssumption
  <1>1. ASSUME NEW newline \in Newlines, LogsOutput(newline) PROVE HarnessInv'
    <2>1. NoResult \in Emitted /\ newline \in BOOLEAN
      BY <1>0 DEF Emitted
    <2>2. QED  BY <1>1, <2>1, LogStep DEF LogsOutput
  <1>2. ASSUME NEW newline \in Newlines, EmitsTraceback(newline) PROVE HarnessInv'
    <2>1. Raised \in Emitted /\ Raised # NoResult /\ newline \in BOOLEAN
      BY <1>0 DEF Emitted, Raised, NoResult
    <2>2. QED  BY <1>2, <2>1, LogStep DEF EmitsTraceback
  <1>3. ASSUME NEW newline \in Newlines, NEW result \in Results, Emits(result, newline)
        PROVE  HarnessInv'
    <2>1. result \in Emitted /\ result # NoResult /\ newline \in BOOLEAN
      BY <1>0, RecipeAssumption DEF Emitted, NoResult, Oks, Errors
    <2>2. QED  BY <1>3, <2>1, LogStep DEF Emits
  <1>4. CASE Raises
    BY <1>4, QuietStep DEF Raises, HarnessInv, TypeOK
  <1>5. CASE Ends
    BY <1>5, QuietStep DEF Ends, HarnessInv, TypeOK
  <1>6. CASE run_python_recipe
    <2>1. (\A channel \in Channels : extract_recipe_result(channel) = Found) /\ Found \in Emitted
      BY ExtractFindsLast DEF HarnessInv, TypeOK, Emitted, Found
    <2>2. /\ UNCHANGED <<log, emitted>> /\ pc' = "replied"
          /\ reply' = answer(Found)
      BY <1>6, <2>1 DEF run_python_recipe
    <2>3. QED  BY <2>1, <2>2, AnswerTypes, QuietStep
  <1>7. CASE TransportFails
    BY <1>7, QuietStep DEF TransportFails
  <1>8. CASE UNCHANGED vars
    BY <1>8, QuietStep DEF vars, HarnessInv, TypeOK, ReplyShows
  <1>9. QED  BY <1>1, <1>2, <1>3, <1>4, <1>5, <1>6, <1>7, <1>8 DEF Next

-----------------------------------------------------------------------------
(* The tools.                                                              *)

\* What a recipe's own steps do to the harness is a step of the harness.
LEMMA ToolsStepIsHarnessStep ==
    ASSUME [ToolsNext]_allvars, ~CallsAgain
    PROVE  [Next]_vars
  <1>1. ASSUME NEW s \in Elements(Steps), RunsStep(s) PROVE [Next]_vars
    <2>1. GoesOn => UNCHANGED vars
      BY DEF GoesOn, harness, vars
    <2>2. CASE PassesOver(s) \/ PassesOverLacking(s) \/ Does(s) \/ SaveRefused(s) \/ Tolerates(s)
      BY <2>1, <2>2 DEF PassesOver, PassesOverLacking, Does, SaveRefused, Tolerates
    <2>3. CASE StepRaises(s)
      BY <2>3 DEF StepRaises, Next
    <2>4. CASE StepMute(s)
      BY <2>4 DEF StepMute, Next
    <2>5. ASSUME NEW newline \in Newlines, StepBare(s, newline) PROVE Next
      BY <2>5, ToolsAssumption DEF StepBare, Next
    <2>6. QED  BY <1>1, <2>2, <2>3, <2>4, <2>5 DEF RunsStep
  <1>2. CASE Requires
    BY <1>2 DEF Requires, Next
  <1>3. CASE EmitsResult
    BY <1>3, ToolsAssumption DEF EmitsResult, Next
  <1>4. CASE ImporterRuns
    BY <1>4 DEF ImporterRuns, Next
  <1>5. CASE Harness
    BY <1>5 DEF Harness, Next
  <1>6. CASE AnswerLost
    BY <1>6 DEF AnswerLost, Next
  <1>7. CASE UNCHANGED allvars
    BY <1>7 DEF allvars
  <1>8. QED  BY <1>1, <1>2, <1>3, <1>4, <1>5, <1>6, <1>7 DEF ToolsNext

\* A repeated call starts with an empty log.
LEMMA CallsAgainStep ==
    ASSUME HarnessInv, CallsAgain
    PROVE  HarnessInv'
  <1>1. /\ log' = <<>> /\ pc' = "body" /\ emitted' = NoResult
        /\ reply' = [kind |-> "none", error |-> "none"]
    BY DEF CallsAgain
  <1>2. /\ log' \in Seq(Entries) /\ Len(log') = 0 /\ DOMAIN log' = {}
        /\ MaxLog \in Nat
    BY <1>1, RecipeAssumption
  <1>3. TypeOK'
    <2>1. Len(log') <= MaxLog + 1
      BY <1>2
    <2>2. emitted' \in Emitted /\ pc' \in {"body", "except", "ended", "replied"}
      BY <1>1 DEF Emitted
    <2>3. reply' \in [kind : {"none", "ok", "error", "noResult", "transport", "thrown"},
                      error : {"none", "text", "recipe reported failure"}]
      BY <1>1
    <2>4. QED  BY <1>2, <2>1, <2>2, <2>3 DEF TypeOK, Entries, Emitted
  <1>4. LogShows' /\ RoomLeft' /\ ReplyShows'
    BY <1>1, <1>2 DEF LogShows, RoomLeft, ReplyShows
  <1>5. QED  BY <1>3, <1>4 DEF HarnessInv

\* It holds for ever, whatever the recipes do.
LEMMA HarnessInvHolds == ToolsSpec => []HarnessInv
  <1>1. ToolsInit => HarnessInv
    BY InitHarness DEF ToolsInit
  <1>2. HarnessInv /\ [ToolsNext]_allvars => HarnessInv'
    BY HarnessStep, ToolsStepIsHarnessStep, CallsAgainStep
  <1>3. QED  BY <1>1, <1>2, PTL DEF ToolsSpec

-----------------------------------------------------------------------------
(* The steps of a call, by what they do to the script.                     *)

\* The script has ended before its end.
Stopped ==
    \/ pc = "except" \/ emitted \in {Failed, Raised}
    \/ pc \in {"ended", "replied"} /\ emitted = NoResult

GoesBy(s) ==
    PassesOver(s) \/ PassesOverLacking(s) \/ Does(s) \/ SaveRefused(s) \/ Tolerates(s)

Stops(s) ==
    /\ s.fails \in Ending /\ Fails(s) /\ StepEnds(s)
    /\ emitted' \in {NoResult, Failed} /\ Stopped'
    /\ marked' => marked \/ s.fails = "unsupported"
    /\ marked' = marked \/ marked' \in BOOLEAN

\* The script stays where it is.
Waits ==
    /\ UNCHANGED toolvars
    /\ tool \in Tools /\ complete =>
          \/ UNCHANGED <<pc, emitted>>
          \/ Running /\ at > Len(Steps) /\ pc' = pc /\ emitted' = Done
          \/ emitted # NoResult /\ pc = "body" /\ pc' = "ended" /\ emitted' = emitted
          \/ pc = "except" /\ pc' = "ended" /\ emitted' = Raised
          \/ pc = "ended" /\ pc' = "replied" /\ emitted' = emitted

\* A step of a call: the script goes by one of its steps, ends at it, waits, or is
\* run once more.
LEMMA Cases ==
    ASSUME [ToolsNext]_allvars
    PROVE  \/ \E s \in Elements(Steps) : At(s) /\ GoesBy(s)
           \/ \E s \in Elements(Steps) : At(s) /\ Stops(s)
           \/ Waits
           \/ CallsAgain
  <1>1. ASSUME NEW s \in Elements(Steps), At(s), RunsStep(s)
        PROVE  GoesBy(s) \/ Stops(s)
    <2>1. pc = "body" /\ emitted = NoResult
      BY <1>1 DEF At, Running
    <2>2. CASE StepRaises(s)
      BY <2>1, <2>2 DEF StepRaises, Raises, Stops, Stopped, Ending
    <2>3. CASE StepMute(s)
      BY <2>1, <2>3 DEF StepMute, Ends, Stops, Stopped, Ending
    <2>4. ASSUME NEW newline \in Newlines, StepBare(s, newline) PROVE Stops(s)
      BY <2>1, <2>4 DEF StepBare, Emits, Stops, Stopped, Ending
    <2>5. QED  BY <1>1, <2>2, <2>3, <2>4 DEF RunsStep, GoesBy
  <1>2. CASE Requires
    BY <1>2 DEF Requires, Waits
  <1>3. CASE EmitsResult
    BY <1>3 DEF EmitsResult, Emits, Waits, toolvars, call
  <1>4. CASE ImporterRuns
    BY <1>4, ToolsAssumption DEF ImporterRuns, Waits
  <1>5. CASE Harness
    <2>1. CASE emitted # NoResult /\ Ends
      BY <1>5, <2>1 DEF Harness, Ends, Waits
    <2>2. ASSUME NEW newline \in Newlines, EmitsTraceback(newline) PROVE Waits
      BY <1>5, <2>2 DEF Harness, EmitsTraceback, Waits
    <2>3. CASE run_python_recipe
      BY <1>5, <2>3 DEF Harness, run_python_recipe, Waits
    <2>4. QED  BY <1>5, <2>1, <2>2, <2>3 DEF Harness
  <1>6. CASE AnswerLost
    BY <1>6 DEF AnswerLost, TransportFails, Waits
  <1>7. CASE UNCHANGED allvars
    BY <1>7 DEF allvars, vars, Waits
  <1>8. QED  BY <1>1, <1>2, <1>3, <1>4, <1>5, <1>6, <1>7 DEF ToolsNext

-----------------------------------------------------------------------------
(* The call.                                                               *)

\* The faults of the executions before this one.
Base == IF attempt = 1 THEN 0 ELSE first.faults

\* The types of the call; the faults of this execution come after the others.
CallOK ==
    /\ tool \in Tools \cup Importers
    /\ recipe = IF tool \in Tools THEN Recipes[tool] ELSE NoTool
    /\ given \subseteq Options(recipe) /\ complete \in BOOLEAN
    /\ at \in 1..(Len(Steps) + 1)
    /\ faults \in 0..MaxFaults /\ attempt \in 1..2
    /\ first \in [result : Results \cup {Raised, NoResult}, faults : 0..MaxFaults]
    /\ Base <= faults

\* The script is one of RecipePrograms, or an importer, which has none here.
LEMMA Script ==
    ASSUME CallOK
    PROVE  IsScript(recipe) /\ (tool \in Tools => WellWritten(tool, recipe))
  <1>1. CASE tool \in Tools
    BY <1>1, ScriptsAreWellWritten DEF CallOK, WellWritten
  <1>2. CASE tool \notin Tools
    <2>1. recipe = NoTool
      BY <1>2 DEF CallOK
    <2>2. Len(NoTool.steps) = 0 /\ DOMAIN NoTool.steps = 1..0
      BY DEF NoTool, Recipe
    <2>3. QED  BY <1>2, <2>1, <2>2 DEF IsScript
  <1>3. QED  BY <1>1, <1>2

\* The step that is next.
LEMMA StepAt ==
    ASSUME CallOK, NEW s \in Elements(Steps), At(s)
    PROVE  /\ at \in DOMAIN Steps /\ s = Steps[at] /\ Running
           /\ at \in Nat /\ at + 1 \in 1..(Len(Steps) + 1)
           /\ tool \in Tools
  BY Script DEF CallOK, At, Running, IsScript

\* A call begins so.
LEMMA CallInit == ToolsInit => CallOK
  <1> SUFFICES ASSUME ToolsInit PROVE CallOK
    OBVIOUS
  <1>1. IsScript(recipe)
    <2>1. CASE tool \in Tools
      BY <2>1, ScriptsAreWellWritten DEF ToolsInit, WellWritten
    <2>2. CASE tool \notin Tools
      <3>1. Len(NoTool.steps) = 0 /\ DOMAIN NoTool.steps = 1..0
        BY DEF NoTool, Recipe
      <3>2. QED  BY <2>2, <3>1 DEF ToolsInit, IsScript
    <2>3. QED  BY <2>1, <2>2
  <1>2. at \in 1..(Len(Steps) + 1)
    BY <1>1 DEF ToolsInit, IsScript
  <1>3. first \in [result : Results \cup {Raised, NoResult}, faults : 0..MaxFaults] /\ 0 \in 0..MaxFaults
    BY ToolsAssumption DEF ToolsInit
  <1>4. complete \in BOOLEAN
    BY Zenon DEF ToolsInit
  <1>5. faults = 0 /\ attempt = 1 /\ Base = 0 /\ MaxFaults \in Nat
    BY ToolsAssumption DEF ToolsInit, Base
  <1>6. tool \in Tools \cup Importers /\ given \subseteq Options(recipe)
        /\ recipe = IF tool \in Tools THEN Recipes[tool] ELSE NoTool
    BY DEF ToolsInit
  <1>7. QED  BY <1>2, <1>3, <1>4, <1>5, <1>6 DEF CallOK

\* No step leaves it.
LEMMA CallStep ==
    ASSUME CallOK, TypeOK, [ToolsNext]_allvars
    PROVE  CallOK'
  <1>0. MaxFaults \in Nat /\ IsScript(recipe)
    BY ToolsAssumption, Script
  <1>1. ASSUME NEW s \in Elements(Steps), At(s), GoesBy(s) PROVE CallOK'
    <2>1. at + 1 \in 1..(Len(Steps) + 1)
      BY <1>1, StepAt
    <2>2. GoesOn /\ (faults' = faults \/ (faults < MaxFaults /\ faults' = faults + 1))
      BY <1>1 DEF GoesBy, PassesOver, PassesOverLacking, Does, SaveRefused, Tolerates, Fails
    <2>3. faults' \in 0..MaxFaults /\ faults <= faults'
      BY <1>0, <2>2 DEF CallOK
    <2>4. Base' = Base /\ Base \in Nat
      BY <2>2 DEF GoesOn, Base, CallOK
    <2>5. Base' <= faults'
      BY <2>3, <2>4 DEF CallOK
    <2>6. QED  BY <2>1, <2>2, <2>3, <2>5 DEF GoesOn, call, CallOK, Steps
  <1>2. ASSUME NEW s \in Elements(Steps), At(s), Stops(s) PROVE CallOK'
    <2>1. Fails(s) /\ StepEnds(s)
      BY <1>2 DEF Stops
    <2>2. faults' = faults \/ (faults < MaxFaults /\ faults' = faults + 1)
      BY <2>1 DEF Fails
    <2>3. faults' \in 0..MaxFaults /\ faults <= faults'
      BY <1>0, <2>2 DEF CallOK
    <2>4. UNCHANGED <<call, at, attempt, first>>
      BY <2>1 DEF StepEnds
    <2>5. Base' = Base /\ Base \in Nat
      BY <2>4 DEF Base, CallOK
    <2>6. Base' <= faults'
      BY <2>3, <2>5 DEF CallOK
    <2>7. QED  BY <2>3, <2>4, <2>6 DEF call, CallOK, Steps
  <1>3. CASE Waits
    <2>1. UNCHANGED <<tool, recipe, given, complete, at, faults, attempt, first>>
      BY <1>3 DEF Waits, toolvars, call
    <2>2. QED  BY <2>1 DEF CallOK, Base, Steps
  <1>4. CASE CallsAgain
    <2>1. /\ UNCHANGED <<call, faults>> /\ attempt' = 2 /\ at' = 1
          /\ first' = [result |-> emitted, faults |-> faults]
      BY <1>4 DEF CallsAgain, call
    <2>a. emitted \in Results \cup {Raised, NoResult} /\ faults \in 0..MaxFaults
      BY DEF CallOK, TypeOK
    <2>2. first' \in [result : Results \cup {Raised, NoResult}, faults : 0..MaxFaults]
          /\ Base' = faults
      BY <2>1, <2>a DEF Base
    <2>3. at' \in 1..(Len(Steps) + 1) /\ Base' <= faults'
      BY <1>0, <2>1, <2>2 DEF IsScript, CallOK
    <2>4. QED  BY <2>1, <2>2, <2>3 DEF call, CallOK, Steps
  <1>5. QED  BY <1>1, <1>2, <1>3, <1>4, Cases

-----------------------------------------------------------------------------
(* Where a script has ended.                                               *)

\* Why the step that ended it failed.
Why(s) ==
    \/ s.op = "check" /\ s.obj \in missed
    \/ ~Able(s)
    \/ faults > Base

\* What has ended the script: its end, or a step that may end it, and why it failed.
EndOK ==
    tool \in Tools /\ complete =>
        /\ emitted \in {NoResult, Done, Failed, Raised}
        /\ emitted = Done => at > Len(Steps)
        /\ marked => Stopped
        /\ Stopped => /\ at \in DOMAIN Steps /\ Active(Steps[at])
                      /\ Steps[at].fails \in Ending
                      /\ marked => Steps[at].fails = "unsupported"
                      /\ Why(Steps[at])

\* The four results are different ones.
LEMMA FourResults ==
    /\ NoResult # Done /\ NoResult # Failed /\ NoResult # Raised
    /\ Done # Failed /\ Done # Raised /\ Failed # Raised
  BY DEF NoResult, Done, Failed, Raised

\* No step of a call disturbs that.
LEMMA EndStep ==
    ASSUME CallOK, TypeOK, EndOK, [ToolsNext]_allvars
    PROVE  EndOK'
  <1>1. ASSUME NEW s \in Elements(Steps), At(s), GoesBy(s) PROVE EndOK'
    <2>1. GoesOn
      BY <1>1 DEF GoesBy, PassesOver, PassesOverLacking, Does, SaveRefused, Tolerates
    <2>2. pc' = "body" /\ emitted' = NoResult /\ marked' = marked /\ ~Stopped
      BY <1>1, <2>1, FourResults DEF GoesOn, harness, At, Running, Stopped
    <2>3. tool \in Tools /\ complete /\ ~marked
      BY <1>1, <2>2 DEF At, Running, EndOK
    <2>4. ~Stopped'
      BY <2>2, FourResults DEF Stopped
    <2>5. QED  BY <2>2, <2>3, <2>4, FourResults DEF EndOK
  <1>2. ASSUME NEW s \in Elements(Steps), At(s), Stops(s) PROVE EndOK'
    <2>1. /\ at \in DOMAIN Steps /\ s = Steps[at] /\ Running
      BY <1>2, StepAt
    <2>2. Fails(s) /\ StepEnds(s) /\ s.fails \in Ending
      BY <1>2 DEF Stops
    <2>3. UNCHANGED <<tool, recipe, given, complete, at, count, attempt, first>>
      BY <2>2 DEF StepEnds, call, world
    <2>4. Steps' = Steps /\ Steps'[at'] = s /\ Active(s) /\ Active(s)'
      BY <2>1, <2>2, <2>3 DEF Steps, Fails, Active
    <2>5. Why(s)'
      <3>1. CASE s.op = "check"
        BY <2>2, <3>1 DEF StepEnds, Why
      <3>2. CASE s.op # "check" /\ ~Able(s)
        <4>1. missed' = missed
          BY <2>2, <3>2 DEF StepEnds
        <4>2. ~Able(s)'
          BY <2>3, <3>2, <4>1 DEF Able
        <4>3. QED  BY <4>2 DEF Why
      <3>3. CASE s.op # "check" /\ Able(s)
        <4>1. faults' = faults + 1
          BY <2>2, <3>3 DEF Fails
        <4>2. Base' = Base
          BY <2>3 DEF Base
        <4>3. Base <= faults /\ faults \in Nat /\ Base \in Nat
          BY DEF CallOK, Base
        <4>4. faults' > Base'
          BY <4>1, <4>2, <4>3
        <4>5. QED  BY <4>4 DEF Why
      <3>4. QED  BY <3>1, <3>2, <3>3
    <2>6. ~marked
      BY <2>1, FourResults DEF EndOK, Running, Stopped
    <2>7. emitted' \in {NoResult, Failed} /\ Stopped' /\ (marked' => s.fails = "unsupported")
      BY <1>2, <2>6 DEF Stops
    <2>9. QED  BY <2>1, <2>2, <2>3, <2>4, <2>5, <2>7, FourResults DEF EndOK
  <1>3. CASE Waits
    <2>1. UNCHANGED <<tool, recipe, given, complete, at, count, missed, marked, faults, attempt, first>>
      BY <1>3 DEF Waits, toolvars, call, world, execution
    <2>2. SUFFICES ASSUME tool \in Tools, complete PROVE EndOK'
      BY <2>1 DEF EndOK
    <2>3. Steps' = Steps /\ \A s : Active(s)' = Active(s) /\ Why(s)' = Why(s)
      BY <2>1 DEF Steps, Active, Why, Able, Base
    <2>4. /\ emitted' \in {NoResult, Done, Failed, Raised}
          /\ emitted' = Done => at > Len(Steps)
          /\ Stopped' = Stopped
      BY <1>3, <2>2, FourResults DEF Waits, EndOK, Stopped, Running, TypeOK
    <2>5. QED  BY <2>1, <2>2, <2>3, <2>4 DEF EndOK
  <1>4. CASE CallsAgain
    BY <1>4, FourResults DEF CallsAgain, FreshExecution, EndOK, Stopped, call
  <1>5. QED  BY <1>1, <1>2, <1>3, <1>4, Cases

-----------------------------------------------------------------------------
(* What has been changed, and what was missed.                             *)

\* Something has been changed only if a step that changes has been passed.
Begun ==
    tool \in Tools /\ changed # {} =>
        \E i \in DOMAIN Steps : i < at /\ Steps[i].op \in Changing

\* If no step has failed that could be done, what was missed is what a step
\* was passed over for, or found missing.
MissedOK ==
    tool \in Tools /\ faults = Base =>
        \A obj \in missed :
            \/ at \in DOMAIN Steps /\ Steps[at].op = "check" /\ Steps[at].obj = obj
            \/ \E i \in DOMAIN Steps :
                  i < at /\ Steps[i].obj = obj /\ (Steps[i].with # {} \/ Fallible(Steps[i]))

\* A step that is passed stays passed.
LEMMA Passed ==
    ASSUME CallOK, NEW s \in Elements(Steps), At(s), GoesBy(s)
    PROVE  /\ at' = at + 1 /\ Steps' = Steps /\ UNCHANGED <<call, attempt, first, marked, harness>>
           /\ at \in DOMAIN Steps /\ s = Steps[at] /\ at < at'
           /\ \A i \in DOMAIN Steps : i < at' <=> i < at \/ i = at
           /\ faults' = faults \/ faults' = faults + 1
           /\ Base' = Base /\ (faults' = Base' => faults = Base /\ faults' = faults)
  <1>1. at \in DOMAIN Steps /\ s = Steps[at] /\ at \in Nat /\ DOMAIN Steps = 1..Len(Steps)
    BY StepAt, Script DEF IsScript
  <1>2. GoesOn /\ (faults' = faults \/ faults' = faults + 1)
    BY DEF GoesBy, PassesOver, PassesOverLacking, Does, SaveRefused, Tolerates, Fails
  <1>3. at' = at + 1 /\ Steps' = Steps /\ UNCHANGED <<call, attempt, first, marked, harness>>
    BY <1>2 DEF GoesOn, Steps, call
  <1>4. Base' = Base /\ Base \in Nat /\ faults \in Nat /\ Base <= faults
    BY <1>3 DEF Base, CallOK
  <1>5. \A i \in DOMAIN Steps : i < at' <=> i < at \/ i = at
    BY <1>1, <1>3, Script DEF IsScript
  <1>6. faults' = Base' => faults = Base /\ faults' = faults
    BY <1>2, <1>4
  <1>7. QED  BY <1>1, <1>2, <1>3, <1>4, <1>5, <1>6

\* No step of a call disturbs that.
LEMMA BegunStep ==
    ASSUME CallOK, Begun, [ToolsNext]_allvars
    PROVE  Begun'
  <1>1. ASSUME NEW s \in Elements(Steps), At(s), GoesBy(s) PROVE Begun'
    <2>1. s = Steps[at] /\ at \in DOMAIN Steps /\ Steps' = Steps /\ tool' = tool
          /\ \A i \in DOMAIN Steps : i < at' <=> i < at \/ i = at
      BY <1>1, Passed DEF call
    <2>2. changed' = changed \/ s.op \in Changing
      BY <1>1 DEF GoesBy, PassesOver, PassesOverLacking, Does, SaveRefused, Tolerates,
         Counted, Changing, Creating, Adding
    <2>3. QED  BY <2>1, <2>2 DEF Begun
  <1>2. ASSUME NEW s \in Elements(Steps), At(s), Stops(s) PROVE Begun'
    BY <1>2 DEF Stops, StepEnds, call, Begun, Steps
  <1>3. CASE Waits
    BY <1>3 DEF Waits, toolvars, call, execution, Begun, Steps
  <1>4. CASE CallsAgain
    BY <1>4 DEF CallsAgain, FreshExecution, Begun
  <1>5. QED  BY <1>1, <1>2, <1>3, <1>4, Cases

\* No step of a call disturbs that.
LEMMA MissedStep ==
    ASSUME CallOK, MissedOK, [ToolsNext]_allvars
    PROVE  MissedOK'
  <1>1. ASSUME NEW s \in Elements(Steps), At(s), GoesBy(s) PROVE MissedOK'
    <2>1. /\ s = Steps[at] /\ at \in DOMAIN Steps /\ Steps' = Steps /\ tool' = tool
          /\ \A i \in DOMAIN Steps : i < at' <=> i < at \/ i = at
          /\ faults' = Base' => faults = Base /\ faults' = faults
      BY <1>1, Passed DEF call
    <2> SUFFICES ASSUME tool \in Tools, faults' = Base', NEW obj \in missed'
                 PROVE  \E i \in DOMAIN Steps :
                            i < at' /\ Steps[i].obj = obj /\ (Steps[i].with # {} \/ Fallible(Steps[i]))
      BY <2>1 DEF MissedOK
    <2>2. CASE obj \in missed
      <3>1. CASE Steps[at].op = "check" /\ Steps[at].obj = obj
        BY <2>1, <3>1 DEF Fallible
      <3>2. CASE ~(Steps[at].op = "check" /\ Steps[at].obj = obj)
        BY <2>1, <2>2, <3>2 DEF MissedOK
      <3>3. QED  BY <3>1, <3>2
    <2>3. CASE obj \notin missed
      <3>1. CASE PassesOverLacking(s)
        BY <2>1, <2>3, <3>1 DEF PassesOverLacking, Lacking
      <3>2. CASE Tolerates(s)
        <4>1. obj = s.obj /\ Fails(s) /\ s.op \in {"check", "find", "make", "ensure", "add", "supply"}
          BY <2>3, <3>2 DEF Tolerates
        <4>2. faults' = faults /\ faults \in Nat
          BY <2>1 DEF CallOK
        <4>3. ~Able(s) \/ s.op = "check"
          BY <4>1, <4>2 DEF Fails
        <4>4. Fallible(s)
          BY <4>1, <4>3 DEF Able, Fallible
        <4>5. QED  BY <2>1, <4>1, <4>4
      <3>3. QED
        BY <1>1, <2>3, <3>1, <3>2 DEF GoesBy, PassesOver, Does, SaveRefused
    <2>4. QED  BY <2>2, <2>3
  <1>2. ASSUME NEW s \in Elements(Steps), At(s), Stops(s) PROVE MissedOK'
    <2>1. s = Steps[at] /\ at \in DOMAIN Steps
      BY <1>2, StepAt
    <2>2. Fails(s) /\ StepEnds(s)
      BY <1>2 DEF Stops
    <2>3. UNCHANGED <<tool, recipe, at, attempt, first>>
      BY <2>2 DEF StepEnds, call
    <2>4. Steps' = Steps /\ Base' = Base /\ (faults' = faults \/ faults' = faults + 1)
      BY <2>2, <2>3 DEF Steps, Base, Fails
    <2>5. faults' = Base' => faults = Base
      BY <2>4 DEF CallOK, Base
    <2>6. \A obj \in missed' : obj \in missed \/ (s.op = "check" /\ s.obj = obj)
      BY <2>2 DEF StepEnds
    <2>7. QED  BY <2>1, <2>3, <2>4, <2>5, <2>6 DEF MissedOK
  <1>3. CASE Waits
    BY <1>3 DEF Waits, toolvars, call, execution, MissedOK, Steps, Base
  <1>4. CASE CallsAgain
    BY <1>4 DEF CallsAgain, FreshExecution, MissedOK
  <1>5. QED  BY <1>1, <1>2, <1>3, <1>4, Cases

-----------------------------------------------------------------------------
(* Why a call has failed, and what a repeated one can count on.            *)

\* The one entry in the log of a script is what it has emitted.
OneEntry ==
    tool \in Tools =>
        /\ Len(log) <= 1
        /\ emitted = NoResult => Len(log) = 0
        /\ pc = "except" => emitted = NoResult

\* No step of a call adds another.
LEMMA OneEntryStep ==
    ASSUME TypeOK, OneEntry, [ToolsNext]_allvars
    PROVE  OneEntry'
  <1>0. /\ Len(log) \in Nat
        /\ \A r : \A newline : Log(r, newline) => Len(log') = Len(log) + 1
    <2> DEFINE Logged == [result : Results \cup {Raised, NoResult}, newline : BOOLEAN]
    <2>1. log \in Seq(Logged)
      BY DEF TypeOK
    <2> HIDE DEF Logged
    <2>2. Len(log) \in Nat /\ \A e : Len(Append(log, e)) = Len(log) + 1
      BY <2>1
    <2>3. QED  BY <2>2 DEF Log
  <1>1. ASSUME NEW s \in Elements(Steps), At(s), RunsStep(s) PROVE OneEntry'
    <2>1. tool \in Tools /\ emitted = NoResult /\ pc = "body"
      BY <1>1 DEF At, Running
    <2>2. CASE GoesOn
      BY <2>1, <2>2 DEF GoesOn, harness, call, OneEntry
    <2>3. CASE StepRaises(s)
      BY <2>1, <2>3 DEF StepRaises, Raises, StepEnds, call, OneEntry
    <2>4. CASE StepMute(s)
      BY <2>1, <2>4 DEF StepMute, Ends, StepEnds, call, OneEntry
    <2>5. ASSUME NEW newline \in Newlines, StepBare(s, newline) PROVE OneEntry'
      <3>1. tool' = tool /\ emitted' = Failed /\ pc' = pc /\ Log(Failed, newline)
        BY <2>5 DEF StepBare, Emits, StepEnds, call
      <3>2. Len(log) = 0 /\ Len(log') = 1
        BY <1>0, <2>1, <3>1 DEF OneEntry
      <3>3. QED  BY <2>1, <3>1, <3>2, FourResults DEF OneEntry
    <2>6. QED
      BY <1>1, <2>2, <2>3, <2>4, <2>5
         DEF RunsStep, PassesOver, PassesOverLacking, Does, SaveRefused, Tolerates
  <1>2. CASE Requires \/ AnswerLost
    BY <1>2 DEF Requires, AnswerLost, TransportFails, toolvars, call, OneEntry
  <1>3. ASSUME NEW newline \in Newlines, EmitsResult, Emits(Done, newline) PROVE OneEntry'
    <2>1. /\ tool \in Tools /\ emitted = NoResult /\ pc = "body"
          /\ tool' = tool /\ emitted' = Done /\ pc' = pc /\ Log(Done, newline)
      BY <1>3 DEF EmitsResult, Running, Emits, toolvars, call
    <2>2. Len(log) = 0 /\ Len(log') = 1
      BY <1>0, <2>1 DEF OneEntry
    <2>3. QED  BY <2>1, <2>2, FourResults DEF OneEntry
  <1>4. CASE ImporterRuns
    BY <1>4, ToolsAssumption DEF ImporterRuns, toolvars, call, OneEntry
  <1>5. CASE Harness
    <2>1. tool' = tool
      BY <1>5 DEF Harness, toolvars, call
    <2>2. ASSUME NEW newline \in Newlines, EmitsTraceback(newline) PROVE OneEntry'
      <3>1. pc = "except" /\ emitted' = Raised /\ pc' = "ended" /\ Log(Raised, newline)
        BY <2>2 DEF EmitsTraceback
      <3>2. tool \in Tools => Len(log) = 0 /\ Len(log') = 1
        BY <1>0, <3>1 DEF OneEntry
      <3>3. emitted' # NoResult /\ pc' # "except"
        BY <3>1, FourResults
      <3>4. ASSUME tool \in Tools
            PROVE  /\ Len(log') <= 1
                   /\ emitted' = NoResult => Len(log') = 0
                   /\ pc' = "except" => emitted' = NoResult
        <4>1. Len(log') = 1
          BY <3>2, <3>4
        <4>2. Len(log') <= 1
          BY <4>1
        <4>3. QED  BY <3>3, <4>2
      <3>5. QED  BY <2>1, <3>4 DEF OneEntry
    <2>3. CASE Ends \/ run_python_recipe
      BY <2>1, <2>3 DEF Ends, run_python_recipe, OneEntry
    <2>4. QED  BY <1>5, <2>2, <2>3 DEF Harness
  <1>6. CASE CallsAgain
    BY <1>6 DEF CallsAgain, call, OneEntry
  <1>7. CASE UNCHANGED allvars
    BY <1>7 DEF allvars, vars, toolvars, call, OneEntry
  <1>8. QED  BY <1>1, <1>2, <1>3, <1>4, <1>5, <1>6, <1>7 DEF ToolsNext, EmitsResult

\* So there is no output behind a script's result, and the answer is made of it.
LEMMA ScriptAnswer ==
    ASSUME HarnessInv, OneEntry, Executed
    PROVE  tool \in Tools /\ complete /\ pc = "replied" /\ reply = answer(emitted)
  <1>1. tool \in Tools /\ complete /\ pc = "replied" /\ reply = answer(Found)
    BY DEF Executed, Answered, HarnessInv, ReplyShows
  <1>2. ~Overrun
    <2>1. LastResult \in Nat /\ Len(log) \in Nat /\ Len(log) <= 1
      BY <1>1, LastEntry DEF HarnessInv, OneEntry
    <2>2. QED  BY <2>1, OverrunIs
  <1>3. QED  BY <1>1, <1>2 DEF Found

\* An answer that is not "ok" comes of a script that has ended before its end.
LEMMA NotOk ==
    ASSUME EndOK, HarnessInv, OneEntry, Executed, reply.kind # "ok"
    PROVE  Stopped
  <1>1. tool \in Tools /\ complete /\ pc = "replied" /\ reply = answer(emitted)
    BY ScriptAnswer
  <1>a. Done.ok = "true" /\ NoResult.ok = "none"
    BY DEF Done, NoResult
  <1>b. answer(Done).kind = "ok"
    BY <1>a DEF answer
  <1>2. emitted # Done
    BY <1>1, <1>b
  <1>3. QED  BY <1>1, <1>2 DEF EndOK, Stopped

\* "ok" is the answer of a script that has gone to its end.
LEMMA Ok ==
    ASSUME EndOK, HarnessInv, OneEntry, Executed, reply.kind = "ok"
    PROVE  emitted = Done
  <1>1. tool \in Tools /\ complete /\ pc = "replied" /\ reply = answer(emitted)
    BY ScriptAnswer
  <1>2. emitted \in {NoResult, Done, Failed, Raised}
    BY <1>1 DEF EndOK
  <1>3. answer(NoResult).kind # "ok" /\ answer(Failed).kind # "ok" /\ answer(Raised).kind # "ok"
    BY DEF answer, NoResult, Failed, Raised
  <1>4. QED  BY <1>1, <1>2, <1>3

\* What is asked for with "got" was not missed without a fault.
LEMMA GotIsKept ==
    ASSUME CallOK, MissedOK, tool \in Tools, faults = Base, at \in DOMAIN Steps,
           Steps[at].op = "got", Kept(recipe, at)
    PROVE  Steps[at].obj \notin missed
  <1> SUFFICES ASSUME Steps[at].obj \in missed PROVE FALSE
    OBVIOUS
  <1>1. PICK i \in DOMAIN Steps : i < at /\ Steps[i].obj = Steps[at].obj
                                  /\ (Steps[i].with # {} \/ Fallible(Steps[i]))
    BY DEF MissedOK
  <1>2. i \in 1..(at - 1)
    BY <1>1, Script DEF IsScript, CallOK, Steps
  <1>3. QED  BY <1>1, <1>2 DEF Kept, Steps

\* What fails without a fault is what may fail.
LEMMA FailsForReason ==
    ASSUME CallOK, MissedOK, EndOK, tool \in Tools, complete, Stopped, faults = Base
    PROVE  Refusing(recipe, at) /\ at \in DOMAIN Steps
  <1> DEFINE s == Steps[at]
  <1>1. at \in DOMAIN Steps /\ s.fails \in Ending /\ Why(s) /\ ~(faults > Base)
    BY DEF EndOK, CallOK
  <1>2. Fallible(s)
    BY <1>1 DEF Why, Able, Fallible
  <1>3. ASSUME s.op = "got", Kept(recipe, at) PROVE FALSE
    <2>1. s.obj \notin missed
      BY <1>1, <1>3, GotIsKept
    <2>2. Able(s) /\ s.op # "check"
      BY <1>3, <2>1 DEF Able
    <2>3. QED  BY <1>1, <2>2 DEF Why
  <1>4. QED  BY <1>1, <1>2, <1>3 DEF Refusing, Steps

\* Where "unsupported" is said, nothing has been changed.
LEMMA Unsupporteds ==
    ASSUME CallOK, EndOK, Begun
    PROVE  UnsupportedChangedNothing
  <1> SUFFICES ASSUME Executed, marked, tool \notin LateUnsupported, changed # {} PROVE FALSE
    BY DEF UnsupportedChangedNothing
  <1>1. tool \in Tools /\ complete
    BY DEF Executed, Answered
  <1>2. at \in DOMAIN Steps /\ Steps[at].fails = "unsupported"
    BY <1>1 DEF EndOK
  <1>3. PICK i \in DOMAIN Steps : i < at /\ Steps[i].op \in Changing
    BY <1>1 DEF Begun
  <1>4. SaysSoFirst(recipe)
    BY <1>1, Script DEF WellWritten
  <1>5. QED  BY <1>2, <1>3, <1>4 DEF SaysSoFirst, Steps

\* Where a call is refused without a fault, nothing has been changed.
LEMMA Refusals ==
    ASSUME CallOK, EndOK, MissedOK, Begun, HarnessInv, OneEntry
    PROVE  RefusalLeavesNothing
  <1> SUFFICES ASSUME Executed, reply.kind # "ok", faults = 0, tool \notin Untidy, changed # {}
               PROVE  FALSE
    BY DEF RefusalLeavesNothing
  <1>1. tool \in Tools /\ complete /\ Stopped
    BY NotOk DEF Executed, Answered
  <1>2. faults = Base
    BY DEF CallOK, Base
  <1>3. Refusing(recipe, at) /\ at \in DOMAIN Steps
    BY <1>1, <1>2, FailsForReason
  <1>4. PICK i \in DOMAIN Steps : i < at /\ Steps[i].op \in Changing
    BY <1>1 DEF Begun
  <1>5. Tidy(recipe)
    BY <1>1, Script DEF WellWritten
  <1>6. QED  BY <1>3, <1>4, <1>5 DEF Tidy, Steps

\* A repeated call that meets no fault succeeds.
LEMMA Repeats ==
    ASSUME CallOK, EndOK, MissedOK, HarnessInv, OneEntry
    PROVE  RepeatSucceeds
  <1> SUFFICES ASSUME Executed, attempt = 2, faults = first.faults, Reusing(recipe) \subseteq given,
                      tool \notin Creators, reply.kind # "ok",
                      \A s \in Elements(Steps) : Active(s) =>
                         /\ s.op = "find" => count[s.obj] >= 1
                         /\ s.op = "check" => s.obj \notin missed
               PROVE  FALSE
    BY DEF RepeatSucceeds
  <1> DEFINE s == Steps[at]
  <1>1. tool \in Tools /\ complete /\ Stopped
    BY NotOk DEF Executed, Answered
  <1>2. faults = Base
    BY DEF Base
  <1>3. Refusing(recipe, at) /\ at \in DOMAIN Steps
    BY <1>1, <1>2, FailsForReason
  <1>4. Active(s) /\ s \in Elements(Steps) /\ s.fails \in Ending /\ Why(s) /\ ~(faults > Base)
    BY <1>1, <1>2, <1>3 DEF EndOK, Elements, CallOK
  <1>5. s.op # "check" /\ s.op # "find"
    BY <1>4 DEF Why, Able
  <1>6. s.op # "new" /\ s.op # "got"
    <2>1. Repeatable(recipe)
      BY <1>1, Script DEF WellWritten
    <2>2. QED  BY <1>3, <1>4, <2>1 DEF Repeatable, Refusing, Steps
  <1>7. ASSUME s.op \in {"make", "replace"} PROVE FALSE
    <2>1. s.reuse \in given \cup {"always"}
      BY <1>4, <1>7 DEF Reusing, Places, Elements, Steps
    <2>2. QED  BY <1>4, <1>7, <2>1 DEF Why, Able
  <1>8. QED  BY <1>4, <1>5, <1>6, <1>7 DEF Why, Able

-----------------------------------------------------------------------------
(* What is told.                                                           *)

\* What could not be done is told, or the tool is one that does not tell.
Told ==
    tool \in Tools /\ complete /\ tool \notin Quiet /\ ~warned /\ (Running \/ emitted = Done) =>
        (undone = {} /\ missed = {}) \/ \E i \in undone : Steps[i].obj \in Features

\* No step of a call disturbs that.
LEMMA ToldStep ==
    ASSUME CallOK, Told, [ToolsNext]_allvars
    PROVE  Told'
  <1>1. ASSUME NEW s \in Elements(Steps), At(s), GoesBy(s) PROVE Told'
    <2>1. s = Steps[at] /\ at \in DOMAIN Steps /\ tool' = tool /\ emitted' = emitted
          /\ complete' = complete /\ Steps' = Steps
      BY <1>1, Passed DEF call, harness
    <2> SUFFICES ASSUME tool \in Tools, complete, tool \notin Quiet, ~warned'
                 PROVE  (undone' = {} /\ missed' = {}) \/ \E i \in undone' : Steps[i].obj \in Features
      BY <2>1 DEF Told
    <2>2. Running /\ Outspoken(recipe)
      BY <1>1, StepAt, Script DEF WellWritten
    <2>3. s.fails = "silent" => s.op = "save" \/ s.obj \in Features
      BY <2>1, <2>2 DEF Outspoken, Steps
    <2>4. ~warned
      BY <1>1 DEF GoesBy, PassesOver, PassesOverLacking, Does, SaveRefused, Tolerates
    <2>5. CASE \E i \in undone : Steps[i].obj \in Features
      <3>1. undone \subseteq undone'
        BY <1>1 DEF GoesBy, PassesOver, PassesOverLacking, Does, SaveRefused, Tolerates
      <3>2. QED  BY <2>5, <3>1
    <2>6. CASE undone = {} /\ missed = {}
      <3>1. ~Lacking(s)
        BY <2>6 DEF Lacking
      <3>2. CASE Tolerates(s)
        <4>1. s.op = "save" => undone' = undone /\ missed' = missed
          BY <3>2 DEF Tolerates
        <4>2. s.op # "save" => at \in undone' /\ s.obj \in Features
          BY <2>3, <3>2 DEF Tolerates
        <4>3. QED  BY <2>1, <2>6, <4>1, <4>2
      <3>3. CASE ~Tolerates(s)
        BY <1>1, <2>6, <3>1, <3>3 DEF GoesBy, PassesOver, PassesOverLacking, Does, SaveRefused
      <3>4. QED  BY <3>2, <3>3
    <2>7. QED  BY <2>2, <2>4, <2>5, <2>6 DEF Told
  <1>2. ASSUME NEW s \in Elements(Steps), At(s), Stops(s) PROVE Told'
    <2>1. emitted' # Done /\ ~Running'
      BY <1>2, FourResults DEF Stops, Stopped, Running
    <2>2. QED  BY <2>1 DEF Told
  <1>3. CASE Waits
    <2>1. UNCHANGED <<tool, complete, warned, undone, missed>> /\ Steps' = Steps
      BY <1>3 DEF Waits, toolvars, call, execution, Steps
    <2>2. tool \in Tools /\ complete /\ (Running' \/ emitted' = Done) => Running \/ emitted = Done
      BY <1>3, FourResults DEF Waits, Running, toolvars, call
    <2>3. QED  BY <2>1, <2>2 DEF Told
  <1>4. CASE CallsAgain
    BY <1>4 DEF CallsAgain, FreshExecution, Told
  <1>5. QED  BY <1>1, <1>2, <1>3, <1>4, Cases

-----------------------------------------------------------------------------
(* What is saved.                                                          *)

\* What has been saved is, unless save_asset refused.
SavesHold ==
    tool \in Tools =>
        \A i \in DOMAIN Steps : i < at /\ Steps[i].op = "save" /\ Active(Steps[i]) =>
            Steps[i].obj \notin unsaved \/ Steps[i].obj \in refused

\* No step of a call disturbs that.
LEMMA SavesStep ==
    ASSUME CallOK, SavesHold, [ToolsNext]_allvars
    PROVE  SavesHold'
  <1>1. ASSUME NEW s \in Elements(Steps), At(s), GoesBy(s) PROVE SavesHold'
    <2>1. /\ s = Steps[at] /\ at \in DOMAIN Steps /\ Steps' = Steps
          /\ UNCHANGED <<tool, recipe, given>>
          /\ \A i \in DOMAIN Steps : i < at' <=> i < at \/ i = at
      BY <1>1, Passed DEF call
    <2> SUFFICES ASSUME tool \in Tools, NEW i \in DOMAIN Steps, i < at',
                        Steps[i].op = "save", Active(Steps[i])
                 PROVE  Steps[i].obj \notin unsaved' \/ Steps[i].obj \in refused'
      BY <2>1 DEF SavesHold, Active
    <2>2. SavedLast(recipe)
      BY Script DEF WellWritten
    <2>3. CASE i = at
      <3>1. s.with = {} /\ s.op = "save" /\ Active(s)
        BY <2>1, <2>2, <2>3 DEF SavedLast, Steps
      <3>2. ~PassesOverLacking(s) /\ ~PassesOver(s)
        BY <3>1 DEF PassesOverLacking, PassesOver, Lacking
      <3>3. CASE Does(s)
        <4>1. Counted(s) = count
          BY <3>1 DEF Counted
        <4>2. unsaved' = unsaved \ {s.obj}
          BY <3>1, <3>3, <4>1 DEF Does
        <4>3. QED  BY <2>1, <2>3, <4>2
      <3>4. CASE SaveRefused(s) \/ Tolerates(s)
        BY <2>1, <2>3, <3>1, <3>4 DEF SaveRefused, Tolerates
      <3>5. QED  BY <1>1, <3>2, <3>3, <3>4 DEF GoesBy
    <2>4. CASE i < at
      <3>1. Steps[i].obj \notin unsaved \/ Steps[i].obj \in refused
        BY <2>4 DEF SavesHold
      <3>2. refused \subseteq refused'
        BY <1>1 DEF GoesBy, PassesOver, PassesOverLacking, Does, SaveRefused, Tolerates
      <3>3. s.op \in Changing \cup {"compile"} => Owner(s.obj) # Steps[i].obj
        BY <2>1, <2>2, <2>4 DEF SavedLast, OwnerIn, Owner, Steps
      <3>4. unsaved' \subseteq unsaved \/ (s.op \in Changing \cup {"compile"} /\ unsaved' = unsaved \cup {Owner(s.obj)})
        <4>1. CASE Does(s)
          <5>1. Counted(s) # count => s.op \in Changing
            BY DEF Counted, Changing, Creating, Adding
          <5>2. s.op \in {"set", "replace"} => s.op \in Changing
            BY DEF Changing, Creating
          <5>3. QED  BY <4>1, <5>1, <5>2 DEF Does
        <4>2. CASE ~Does(s)
          BY <1>1, <4>2 DEF GoesBy, PassesOver, PassesOverLacking, SaveRefused, Tolerates, world
        <4>3. QED  BY <4>1, <4>2
      <3>5. QED  BY <3>1, <3>2, <3>3, <3>4
    <2>5. QED  BY <2>1, <2>3, <2>4
  <1>2. ASSUME NEW s \in Elements(Steps), At(s), Stops(s) PROVE SavesHold'
    BY <1>2 DEF Stops, StepEnds, call, world, SavesHold, Steps, Active
  <1>3. CASE Waits
    BY <1>3 DEF Waits, toolvars, call, world, execution, SavesHold, Steps, Active
  <1>4. CASE CallsAgain
    <2>1. at' = 1 /\ UNCHANGED <<tool, recipe>>
      BY <1>4 DEF CallsAgain, call
    <2>2. \A i \in DOMAIN Steps : ~(i < 1)
      BY Script DEF IsScript, Steps
    <2>3. QED  BY <2>1, <2>2 DEF SavesHold, Steps
  <1>5. QED  BY <1>1, <1>2, <1>3, <1>4, Cases

-----------------------------------------------------------------------------
(* Objects, and how many there are of each.                                *)

\* The steps that change how many there are of an object are about an object, and
\* so is what makes a supply needless.
LEMMA ObjectOfStep ==
    ASSUME NEW s \in Elements(Steps), s.op \in Creating
    PROVE  s.obj \in Objects(recipe) /\ (s.op = "supply" => s.reuse \in Objects(recipe))
  BY DEF Objects, Places, Elements, Steps, Creating, Adding

\* There are numbers of the objects.
CountOK == count \in [Objects(recipe) -> Nat]

\* What a step makes of the number of an object.
LEMMA CountedOK ==
    ASSUME CountOK, NEW s \in Elements(Steps)
    PROVE  /\ Counted(s) \in [Objects(recipe) -> Nat]
           /\ \A obj \in Objects(recipe) :
                \/ Counted(s)[obj] \in {0, count[obj]}
                \/ s.op \in Creating /\ obj = s.obj /\ Counted(s)[obj] = 1
                \/ s.op \in Adding /\ obj = s.obj /\ Counted(s)[obj] = count[obj] + 1
  <1>1. CASE s.op \in {"new", "replace", "make", "ensure"}
    <2>1. s.obj \in Objects(recipe)
      BY <1>1, ObjectOfStep DEF Creating
    <2>2. QED  BY <1>1, <2>1 DEF CountOK, Counted, Creating
  <1>2. CASE s.op \in {"add", "supply", "end"}
    <2>1. s.obj \in Objects(recipe)
      BY <1>2, ObjectOfStep DEF Creating, Adding
    <2>2. QED  BY <1>2, <2>1 DEF CountOK, Counted, Creating, Adding
  <1>3. CASE s.op \notin {"new", "replace", "make", "ensure", "add", "supply", "end"}
    <2>1. Counted(s) = count
      BY <1>3 DEF Counted
    <2>2. QED  BY <2>1 DEF CountOK
  <1>4. QED  BY <1>1, <1>2, <1>3

\* Of what a script adds there are no more than before, and one for each step
\* that adds one: of everything, at most one for each execution, and one.
Added(obj) == \E i \in DOMAIN Steps : i < at /\ Steps[i].op \in Adding /\ Steps[i].obj = obj

FewOfEach ==
    /\ CountOK
    /\ \A obj \in Objects(recipe) :
          count[obj] <= attempt + (IF tool \in Tools /\ Added(obj) THEN 1 ELSE 0)

\* No step of a call disturbs that.
LEMMA FewStep ==
    ASSUME CallOK, FewOfEach, [ToolsNext]_allvars
    PROVE  FewOfEach'
  <1>1. ASSUME NEW s \in Elements(Steps), At(s), GoesBy(s) PROVE FewOfEach'
    <2>1. /\ s = Steps[at] /\ at \in DOMAIN Steps /\ Steps' = Steps
          /\ UNCHANGED <<tool, recipe, attempt>> /\ attempt \in 1..2 /\ tool \in Tools
          /\ \A i \in DOMAIN Steps : i < at' <=> i < at \/ i = at
      BY <1>1, Passed, StepAt DEF call, CallOK
    <2>2. \A obj : Added(obj)' <=> Added(obj) \/ (s.op \in Adding /\ s.obj = obj)
      BY <2>1 DEF Added
    <2>3. CASE count' = count
      BY <2>1, <2>2, <2>3 DEF FewOfEach, CountOK
    <2>4. CASE count' = Counted(s)
      <3>1. CountOK'
        BY <2>1, <2>4, CountedOK DEF FewOfEach, CountOK
      <3>2. ASSUME s.op \in Adding PROVE ~Added(s.obj)
        <4>1. AddsOnce(recipe)
          BY <2>1, Script DEF WellWritten
        <4>2. at \in Nat
          BY DEF CallOK
        <4>3. QED  BY <2>1, <3>2, <4>1, <4>2, Script DEF AddsOnce, Added, Steps, IsScript
      <3>3. ASSUME NEW obj \in Objects(recipe)
            PROVE  count'[obj] <= attempt + (IF Added(obj)' THEN 1 ELSE 0)
        <4>0. count[obj] \in Nat /\ count[obj] <= attempt + (IF Added(obj) THEN 1 ELSE 0)
          BY <2>1 DEF FewOfEach, CountOK
        <4>1. \/ count'[obj] \in {0, 1, count[obj]}
              \/ s.op \in Adding /\ obj = s.obj /\ count'[obj] = count[obj] + 1
          BY <2>4, CountedOK DEF FewOfEach
        <4>2. QED  BY <2>1, <2>2, <3>2, <4>0, <4>1
      <3>4. QED  BY <2>1, <3>1, <3>3 DEF FewOfEach
    <2>5. QED
      BY <1>1, <2>3, <2>4 DEF GoesBy, PassesOver, PassesOverLacking, Does, SaveRefused, Tolerates, world
  <1>2. ASSUME NEW s \in Elements(Steps), At(s), Stops(s) PROVE FewOfEach'
    BY <1>2 DEF Stops, StepEnds, call, world, FewOfEach, CountOK, Added, Steps
  <1>3. CASE Waits
    BY <1>3 DEF Waits, toolvars, call, world, FewOfEach, CountOK, Added, Steps
  <1>4. CASE CallsAgain
    <2>1. attempt = 1 /\ attempt' = 2 /\ UNCHANGED <<tool, recipe, count>>
      BY <1>4 DEF CallsAgain, call, world
    <2>2. CountOK' /\ \A obj \in Objects(recipe) : count[obj] \in Nat /\ count[obj] <= 2
      BY <2>1 DEF FewOfEach, CountOK
    <2>3. \A obj \in Objects(recipe) : count'[obj] <= attempt' + (IF tool' \in Tools /\ Added(obj)' THEN 1 ELSE 0)
      BY <2>1, <2>2
    <2>4. QED  BY <2>1, <2>2, <2>3 DEF FewOfEach
  <1>5. QED  BY <1>1, <1>2, <1>3, <1>4, Cases

-----------------------------------------------------------------------------
(* One of each.                                                            *)

\* The object that step j adds has been emptied by step i, and not come back.
EmptiedAt(i, j) ==
    /\ i < j /\ Empties(recipe, Steps[i], Steps[j].obj)
    /\ \A k \in DOMAIN Steps : i < k /\ k < j /\ Steps[k].obj = Steps[j].obj =>
           Steps[k].op \notin Creating

\* Without a fault, there is at most one of each, and none of what is to be added.
OneOfEach ==
    tool \in Tools /\ faults = 0 /\ OneEach(recipe) =>
        /\ \A obj \in Objects(recipe) : count[obj] <= 1
        /\ \A i, j \in DOMAIN Steps :
              i < at /\ at <= j /\ Steps[j].op \in Adding /\ EmptiedAt(i, j) => count[Steps[j].obj] = 0

\* What is added has been emptied.
LEMMA EmptiedForAdd ==
    ASSUME CallOK, OneEach(recipe), NEW j \in DOMAIN Steps, Steps[j].op \in Adding
    PROVE  \E i \in DOMAIN Steps : EmptiedAt(i, j)
  <1>1. PICK i \in 1..(j - 1) :
            /\ Empties(recipe, Steps[i], Steps[j].obj)
            /\ \A k \in (i + 1)..(j - 1) : Steps[k].obj = Steps[j].obj => Steps[k].op \notin Creating
    BY DEF OneEach, EmptiedBefore, Steps
  <1>2. DOMAIN Steps = 1..Len(Steps) /\ Len(Steps) \in Nat
    BY Script DEF IsScript, Steps
  <1>3. i \in DOMAIN Steps /\ i < j
    BY <1>2
  <1>4. \A k \in DOMAIN Steps : i < k /\ k < j => k \in (i + 1)..(j - 1)
    BY <1>2
  <1>5. QED  BY <1>1, <1>3, <1>4 DEF EmptiedAt

\* A step that empties an object does so, or ends the script.
LEMMA EmptyingWorks ==
    ASSUME CallOK, CountOK, NEW s \in Elements(Steps), At(s), GoesBy(s), faults' = 0,
           NEW obj \in Objects(recipe), Empties(recipe, s, obj)
    PROVE  count'[obj] = 0
  <1>1. ~PassesOver(s) /\ ~PassesOverLacking(s)
    BY DEF Empties, PassesOver, PassesOverLacking, Active, Lacking
  <1>2. ~SaveRefused(s)
    BY DEF Empties, SaveRefused, CallOK
  <1>3. ~Tolerates(s)
    <2>1. CASE s.fails \in Ending
      BY <2>1 DEF Tolerates, Ending
    <2>2. CASE s.op = "end"
      BY <2>2 DEF Tolerates, Fails, Able, CallOK
    <2>3. QED  BY <2>1, <2>2 DEF Empties
  <1>4. count' = Counted(s)
    BY <1>1, <1>2, <1>3 DEF GoesBy, Does
  <1>5. CASE s.op = "end" /\ s.obj = obj
    BY <1>4, <1>5 DEF Counted, CountOK
  <1>6. CASE s.op \in {"new", "replace"} /\ obj \in DOMAIN recipe.parts /\ recipe.parts[obj] = s.obj /\ s.obj # obj
    BY <1>4, <1>6 DEF Counted, CountOK, Owner
  <1>7. QED  BY <1>5, <1>6 DEF Empties

\* No step of a call disturbs that.
LEMMA OneOfEachStep ==
    ASSUME CallOK, CountOK, OneOfEach, [ToolsNext]_allvars
    PROVE  OneOfEach'
  <1>1. ASSUME NEW s \in Elements(Steps), At(s), GoesBy(s) PROVE OneOfEach'
    <2>1. /\ s = Steps[at] /\ at \in DOMAIN Steps /\ Steps' = Steps /\ at' = at + 1 /\ at \in Nat
          /\ UNCHANGED <<tool, recipe>> /\ DOMAIN Steps \subseteq Nat
          /\ \A i \in DOMAIN Steps : i < at' <=> i < at \/ i = at
      BY <1>1, Passed, StepAt, Script DEF call, IsScript
    <2> SUFFICES ASSUME tool \in Tools, faults' = 0, OneEach(recipe)
                 PROVE  /\ \A obj \in Objects(recipe) : count'[obj] <= 1
                        /\ \A i, j \in DOMAIN Steps :
                              i < at' /\ at' <= j /\ Steps[j].op \in Adding /\ EmptiedAt(i, j) =>
                                 count'[Steps[j].obj] = 0
      BY <2>1 DEF OneOfEach, EmptiedAt
    <2>2. faults = 0
      BY <1>1, Passed DEF CallOK
    <2>3. \/ count' = count
          \/ count' = Counted(s)
      BY <1>1 DEF GoesBy, PassesOver, PassesOverLacking, Does, SaveRefused, Tolerates, world
    <2>4. ASSUME NEW obj \in Objects(recipe)
          PROVE  \/ count'[obj] \in {0, count[obj]}
                 \/ s.op \in Creating /\ obj = s.obj /\ count'[obj] = 1
                 \/ s.op \in Adding /\ obj = s.obj /\ count'[obj] = count[obj] + 1
      BY <2>3, CountedOK
    <2>5. ASSUME s.op \in Adding PROVE count[s.obj] = 0
      BY <2>1, <2>2, <2>5, EmptiedForAdd DEF OneOfEach, EmptiedAt
    <2>6. \A obj \in Objects(recipe) : count'[obj] <= 1
      BY <2>2, <2>4, <2>5 DEF OneOfEach, CountOK
    <2>7. ASSUME NEW i \in DOMAIN Steps, NEW j \in DOMAIN Steps,
                 i < at', at' <= j, Steps[j].op \in Adding, EmptiedAt(i, j)
          PROVE  count'[Steps[j].obj] = 0
      <3>1. Steps[j].obj \in Objects(recipe) /\ at < j
        BY <2>1, <2>7, ObjectOfStep DEF Elements, Creating, Adding
      <3>2. CASE i = at
        BY <1>1, <2>1, <2>7, <3>1, <3>2, EmptyingWorks DEF EmptiedAt
      <3>3. CASE i < at
        <4>1. count[Steps[j].obj] = 0
          BY <2>1, <2>2, <2>7, <3>1, <3>3 DEF OneOfEach
        <4>2. s.obj = Steps[j].obj => s.op \notin Creating
          BY <2>1, <2>7, <3>1, <3>3 DEF EmptiedAt
        <4>3. QED  BY <2>4, <3>1, <4>1, <4>2 DEF Creating, Adding
      <3>4. QED  BY <2>1, <2>7, <3>2, <3>3
    <2>8. QED  BY <2>6, <2>7
  <1>2. ASSUME NEW s \in Elements(Steps), At(s), Stops(s) PROVE OneOfEach'
    <2>1. Fails(s) /\ StepEnds(s)
      BY <1>2 DEF Stops
    <2>2. UNCHANGED <<tool, recipe, at, count>> /\ (faults' = 0 => faults = 0)
      BY <2>1 DEF StepEnds, Fails, call, world, CallOK
    <2>3. QED  BY <2>2 DEF OneOfEach, EmptiedAt, Steps
  <1>3. CASE Waits
    BY <1>3 DEF Waits, toolvars, call, world, OneOfEach, EmptiedAt, Steps
  <1>4. CASE CallsAgain
    <2>1. at' = 1 /\ UNCHANGED <<tool, recipe, count, faults>>
      BY <1>4 DEF CallsAgain, call, world
    <2>2. \A i \in DOMAIN Steps : ~(i < 1)
      BY Script DEF IsScript, Steps
    <2>3. QED  BY <2>1, <2>2 DEF OneOfEach, Steps
  <1>5. QED  BY <1>1, <1>2, <1>3, <1>4, Cases

-----------------------------------------------------------------------------
(* What hangs under what.                                                  *)

\* What has been added by this execution.
FreshOK ==
    /\ tool \notin Tools => fresh = {}
    /\ \A obj \in fresh :
          \E k \in DOMAIN Steps : k < at /\ Steps[k].obj = obj /\ Steps[k].op \in Creating

\* Step i creates what the object of step j is to hang under.
Holds(i, j) ==
    /\ i < j /\ Steps[j].under # "root"
    /\ Steps[i].obj = Steps[j].under /\ Steps[i].op = Steps[j].op
    /\ Steps[i].when \subseteq Steps[j].when /\ Steps[i].unless \subseteq Steps[j].unless
    /\ Steps[i].with = {}
    /\ \A k \in DOMAIN Steps : k # i /\ Steps[k].obj = Steps[j].under =>
          Steps[k].op \notin Creating /\ (k > i => Steps[j].under \in Steps[k].with)

\* What something is to be added under is there, or its absence is known.
HoldersKnown ==
    tool \in Tools =>
        \A i, j \in DOMAIN Steps :
            Steps[j].op = "add" /\ Holds(i, j) /\ i < at /\ Active(Steps[j]) =>
                Steps[j].under \in missed \cup fresh

\* What is added under another hangs there.
HangsOK ==
    tool \in Tools =>
        \A j \in DOMAIN Steps :
            Steps[j].op = "add" /\ j < at /\ Steps[j].under # "root" /\ Steps[j].obj \in fresh =>
                Steps[j].under \in fresh /\ parent[Steps[j].obj] = Steps[j].under

\* What was supplied to hang under another was wanting.
SuppliedOK ==
    tool \in Tools =>
        \A j \in DOMAIN Steps :
            Steps[j].op = "supply" /\ j < at /\ Steps[j].under # "root" /\ Steps[j].obj \in fresh =>
                count[Steps[j].reuse] = 0

\* Step i says so if there is no such object.
Vouches(i) ==
    /\ Steps[i].op = "find" /\ Steps[i].fails = "warns"
    /\ Steps[i].when = {} /\ Steps[i].unless = {} /\ Steps[i].with = {}
    /\ Native(recipe, Steps[i].obj)

FoundOK ==
    tool \in Tools =>
        \A i \in DOMAIN Steps : i < at /\ Vouches(i) => warned \/ count[Steps[i].obj] >= 1

\* The step that hangs a component under another is the only one that creates it.
LEMMA HungSteps ==
    ASSUME CallOK, tool \in Tools, NEW j \in DOMAIN Steps, Steps[j].under # "root"
    PROVE  /\ Steps[j].op \in Adding /\ Steps[j].under \in Steps[j].with
           /\ Steps[j].op = "supply" => Vouched(recipe, j)
           /\ \A k \in DOMAIN Steps :
                 Steps[k].obj = Steps[j].obj /\ Steps[k].op \in Creating => k = j
           /\ \E i \in DOMAIN Steps : Holds(i, j)
  <1>1. DOMAIN Steps = 1..Len(Steps) /\ Len(Steps) \in Nat
    BY Script DEF IsScript, Steps
  <1>2. Attached(recipe)
    BY Script DEF WellWritten
  <1>3. \A i \in 1..(j - 1) : i \in DOMAIN Steps /\ i < j
    BY <1>1
  <1>4. /\ Steps[j].op \in Adding /\ Steps[j].under \in Steps[j].with
        /\ Steps[j].op = "supply" => Vouched(recipe, j)
        /\ \A k \in DOMAIN Steps :
              Steps[k].obj = Steps[j].obj /\ Steps[k].op \in Creating => k = j
        /\ \E i \in 1..(j - 1) : Holds(i, j)
    BY <1>2, <1>3 DEF Attached, Holds, Steps
  <1>5. QED  BY <1>3, <1>4

\* No step changes how many there are of what is no affair of the script.
LEMMA NativeStays ==
    ASSUME CallOK, CountOK, NEW s \in Elements(Steps), At(s), GoesBy(s),
           NEW obj \in Objects(recipe), Native(recipe, obj)
    PROVE  count'[obj] = count[obj]
  <1>1. s.obj = obj => s.op \notin Creating
    BY StepAt DEF Native, Steps
  <1>2. Counted(s)[obj] = count[obj]
    BY <1>1 DEF Counted, CountOK, Native, Creating, Adding
  <1>3. QED
    BY <1>2 DEF GoesBy, PassesOver, PassesOverLacking, Does, SaveRefused, Tolerates, world

\* What a step makes of the components it has added.
LEMMA FreshAfter ==
    ASSUME NEW s \in Elements(Steps), At(s), GoesBy(s)
    PROVE  \/ fresh' = fresh /\ parent' = parent
           \/ s.op \in Creating /\ Does(s) /\ Counted(s) # count /\ fresh' = fresh \cup {s.obj} /\ parent' = Hung(s)
  <1>1. CASE Does(s)
    <2>1. Counted(s) # count => s.op \in Creating
      BY DEF Counted, Creating, Adding
    <2>2. Counted(s) = count => Hung(s) = parent
      BY DEF Hung
    <2>3. QED  BY <1>1, <2>1, <2>2 DEF Does
  <1>2. CASE ~Does(s)
    BY <1>2 DEF GoesBy, PassesOver, PassesOverLacking, SaveRefused, Tolerates, world
  <1>3. QED  BY <1>1, <1>2

\* What has been added in this execution was added by a step that is passed.
LEMMA FreshStep ==
    ASSUME CallOK, FreshOK, [ToolsNext]_allvars
    PROVE  FreshOK'
  <1>1. ASSUME NEW s \in Elements(Steps), At(s), GoesBy(s) PROVE FreshOK'
    <2>1. /\ s = Steps[at] /\ at \in DOMAIN Steps /\ Steps' = Steps /\ tool' = tool /\ tool \in Tools
          /\ \A i \in DOMAIN Steps : i < at' <=> i < at \/ i = at
      BY <1>1, Passed, StepAt DEF call
    <2>2. fresh' = fresh \/ (s.op \in Creating /\ fresh' = fresh \cup {s.obj})
      BY <1>1, FreshAfter
    <2>3. QED  BY <2>1, <2>2 DEF FreshOK
  <1>2. ASSUME NEW s \in Elements(Steps), At(s), Stops(s) PROVE FreshOK'
    BY <1>2 DEF Stops, StepEnds, call, FreshOK, Steps
  <1>3. CASE Waits
    BY <1>3 DEF Waits, toolvars, call, execution, FreshOK, Steps
  <1>4. CASE CallsAgain
    BY <1>4 DEF CallsAgain, FreshExecution, FreshOK
  <1>5. QED  BY <1>1, <1>2, <1>3, <1>4, Cases

\* No step of a call disturbs that.
LEMMA HoldersStep ==
    ASSUME CallOK, CountOK, HoldersKnown, [ToolsNext]_allvars
    PROVE  HoldersKnown'
  <1>1. ASSUME NEW s \in Elements(Steps), At(s), GoesBy(s) PROVE HoldersKnown'
    <2>1. /\ s = Steps[at] /\ at \in DOMAIN Steps /\ Steps' = Steps
          /\ UNCHANGED <<tool, recipe, given>>
          /\ at \in Nat /\ DOMAIN Steps \subseteq Nat
          /\ \A i \in DOMAIN Steps : i < at' <=> i < at \/ i = at
      BY <1>1, Passed, StepAt, Script DEF call, IsScript, Steps
    <2> SUFFICES ASSUME tool \in Tools, NEW i \in DOMAIN Steps, NEW j \in DOMAIN Steps,
                        Steps[j].op = "add", Holds(i, j), i < at', Active(Steps[j])
                 PROVE  Steps[j].under \in missed' \cup fresh'
      BY <2>1 DEF HoldersKnown, Holds, Active
    <2> DEFINE obj == Steps[j].under
    <2>2. fresh \subseteq fresh'
      BY <1>1, FreshAfter
    <2>3. CASE i = at
      <3>1. s.op = "add" /\ s.obj = obj /\ ~PassesOver(s) /\ ~PassesOverLacking(s) /\ ~SaveRefused(s)
        BY <2>1, <2>3 DEF Holds, Active, PassesOver, PassesOverLacking, SaveRefused, Lacking
      <3>2. CASE Does(s)
        <4>1. Counted(s)[obj] = count[obj] + 1 /\ count[obj] \in Nat
          BY <3>1, ObjectOfStep DEF Counted, CountOK, Creating, Adding
        <4>2. Counted(s) # count
          BY <4>1
        <4>3. QED  BY <3>1, <3>2, <4>2 DEF Does
      <3>3. CASE Tolerates(s)
        BY <3>1, <3>3 DEF Tolerates
      <3>4. QED  BY <1>1, <3>1, <3>2, <3>3 DEF GoesBy
    <2>4. CASE i < at
      <3>1. obj \in missed \cup fresh
        BY <2>4 DEF HoldersKnown
      <3>2. ASSUME obj \in missed, Does(s) PROVE s.obj # obj
        BY <2>1, <2>4, <3>2 DEF Does, Lacking, Holds
      <3>3. obj \in missed => obj \in missed'
        BY <1>1, <3>2 DEF GoesBy, PassesOver, PassesOverLacking, Does, SaveRefused, Tolerates
      <3>4. QED  BY <2>2, <3>1, <3>3
    <2>5. QED  BY <2>1, <2>3, <2>4
  <1>2. ASSUME NEW s \in Elements(Steps), At(s), Stops(s) PROVE HoldersKnown'
    <2>1. UNCHANGED <<tool, recipe, given, at, fresh>> /\ missed \subseteq missed'
      BY <1>2 DEF Stops, StepEnds, call
    <2>2. QED  BY <2>1 DEF HoldersKnown, Holds, Active, Steps
  <1>3. CASE Waits
    BY <1>3 DEF Waits, toolvars, call, execution, HoldersKnown, Holds, Active, Steps
  <1>4. CASE CallsAgain
    <2>1. at' = 1 /\ UNCHANGED <<tool, recipe>>
      BY <1>4 DEF CallsAgain, call
    <2>2. \A i \in DOMAIN Steps : ~(i < 1)
      BY Script DEF IsScript, Steps
    <2>3. QED  BY <2>1, <2>2 DEF HoldersKnown, Steps
  <1>5. QED  BY <1>1, <1>2, <1>3, <1>4, Cases

\* What was hung stays there.
LEMMA HangsStep ==
    ASSUME CallOK, FreshOK, HoldersKnown, HangsOK, DOMAIN parent = Objects(recipe), [ToolsNext]_allvars
    PROVE  HangsOK'
  <1>1. ASSUME NEW s \in Elements(Steps), At(s), GoesBy(s) PROVE HangsOK'
    <2>1. /\ s = Steps[at] /\ at \in DOMAIN Steps /\ Steps' = Steps
          /\ UNCHANGED <<tool, recipe, given>>
          /\ at \in Nat /\ DOMAIN Steps \subseteq Nat
          /\ \A i \in DOMAIN Steps : i < at' <=> i < at \/ i = at
      BY <1>1, Passed, StepAt, Script DEF call, IsScript, Steps
    <2> SUFFICES ASSUME tool \in Tools, NEW j \in DOMAIN Steps, Steps[j].op = "add", j < at',
                        Steps[j].under # "root", Steps[j].obj \in fresh'
                 PROVE  Steps[j].under \in fresh' /\ parent'[Steps[j].obj] = Steps[j].under
      BY <2>1 DEF HangsOK
    <2> DEFINE obj == Steps[j].obj
               over == Steps[j].under
    <2>2. \A k \in DOMAIN Steps : Steps[k].obj = obj /\ Steps[k].op \in Creating => k = j
      BY HungSteps
    <2>3. PICK i \in DOMAIN Steps : Holds(i, j)
      BY HungSteps
    <2>4. over # obj
      BY <2>1, <2>2, <2>3 DEF Holds, Creating, Adding
    <2>5. \/ fresh' = fresh /\ parent' = parent
          \/ /\ s.op \in Creating /\ Does(s) /\ Counted(s) # count
             /\ fresh' = fresh \cup {s.obj} /\ parent' = Hung(s)
      BY <1>1, FreshAfter
    <2>6. CASE j = at
      <3>1. obj \notin fresh
        BY <2>1, <2>2, <2>6 DEF FreshOK
      <3>2. over \in s.with /\ obj \in Objects(recipe) /\ Does(s)
            /\ Counted(s) # count /\ parent' = Hung(s) /\ s.obj = obj /\ s.under = over
        BY <2>1, <2>5, <2>6, <3>1, HungSteps, ObjectOfStep
      <3>3. parent'[obj] = IF over \in fresh THEN over ELSE "root"
        BY <2>1, <2>6, <3>2 DEF Hung
      <3>4. over \in fresh
        <4>1. over \notin missed /\ Active(s)
          BY <3>2 DEF Does, Lacking
        <4>2. i < at
          BY <2>3, <2>6 DEF Holds
        <4>3. QED  BY <2>1, <2>3, <2>6, <4>1, <4>2 DEF HoldersKnown
      <3>5. QED  BY <2>5, <3>3, <3>4
    <2>7. CASE j < at
      <3>1. s.obj = obj => s.op \notin Creating
        BY <2>1, <2>2, <2>7
      <3>2. obj \in fresh /\ fresh \subseteq fresh'
        BY <2>5, <3>1
      <3>3. parent'[obj] = parent[obj]
        <4>1. CASE parent' = parent
          BY <4>1
        <4>2. CASE s.op \in Creating /\ parent' = Hung(s)
          BY <3>1, <4>2 DEF Hung
        <4>3. QED  BY <2>5, <4>1, <4>2
      <3>4. QED  BY <2>7, <3>2, <3>3 DEF HangsOK
    <2>8. QED  BY <2>1, <2>6, <2>7
  <1>2. ASSUME NEW s \in Elements(Steps), At(s), Stops(s) PROVE HangsOK'
    BY <1>2 DEF Stops, StepEnds, call, world, HangsOK, Steps
  <1>3. CASE Waits
    BY <1>3 DEF Waits, toolvars, call, world, execution, HangsOK, Steps
  <1>4. CASE CallsAgain
    BY <1>4 DEF CallsAgain, FreshExecution, HangsOK
  <1>5. QED  BY <1>1, <1>2, <1>3, <1>4, Cases

\* What was wanting is wanting.
LEMMA SuppliedStep ==
    ASSUME CallOK, CountOK, FreshOK, SuppliedOK, [ToolsNext]_allvars
    PROVE  SuppliedOK'
  <1>1. ASSUME NEW s \in Elements(Steps), At(s), GoesBy(s) PROVE SuppliedOK'
    <2>1. /\ s = Steps[at] /\ at \in DOMAIN Steps /\ Steps' = Steps
          /\ UNCHANGED <<tool, recipe, given>>
          /\ \A i \in DOMAIN Steps : i < at' <=> i < at \/ i = at
      BY <1>1, Passed DEF call
    <2> SUFFICES ASSUME tool \in Tools, NEW j \in DOMAIN Steps, Steps[j].op = "supply", j < at',
                        Steps[j].under # "root", Steps[j].obj \in fresh'
                 PROVE  count'[Steps[j].reuse] = 0
      BY <2>1 DEF SuppliedOK
    <2> DEFINE obj == Steps[j].obj
    <2>2. \A k \in DOMAIN Steps : Steps[k].obj = obj /\ Steps[k].op \in Creating => k = j
      BY HungSteps
    <2>3. Steps[j].reuse \in Objects(recipe) /\ Native(recipe, Steps[j].reuse)
      BY HungSteps, ObjectOfStep DEF Vouched, Elements, Creating, Adding, Steps
    <2>4. count'[Steps[j].reuse] = count[Steps[j].reuse]
      BY <1>1, <2>3, NativeStays
    <2>5. \/ fresh' = fresh
          \/ s.op \in Creating /\ Does(s) /\ Counted(s) # count /\ fresh' = fresh \cup {s.obj}
      BY <1>1, FreshAfter
    <2>6. CASE j = at
      <3>1. obj \notin fresh
        BY <2>1, <2>2, <2>6, StepAt DEF FreshOK, CallOK
      <3>2. Counted(s) # count /\ s.op = "supply"
        BY <2>1, <2>5, <2>6, <3>1
      <3>3. count[s.reuse] = 0
        BY <3>2 DEF Counted
      <3>4. QED  BY <2>1, <2>4, <2>6, <3>3
    <2>7. CASE j < at
      <3>1. s.obj = obj => s.op \notin Creating
        BY <2>1, <2>2, <2>7, StepAt DEF CallOK
      <3>2. obj \in fresh
        BY <2>5, <3>1
      <3>3. QED  BY <2>4, <2>7, <3>2 DEF SuppliedOK
    <2>8. QED  BY <2>1, <2>6, <2>7
  <1>2. ASSUME NEW s \in Elements(Steps), At(s), Stops(s) PROVE SuppliedOK'
    BY <1>2 DEF Stops, StepEnds, call, world, SuppliedOK, Steps
  <1>3. CASE Waits
    BY <1>3 DEF Waits, toolvars, call, world, execution, SuppliedOK, Steps
  <1>4. CASE CallsAgain
    BY <1>4 DEF CallsAgain, FreshExecution, SuppliedOK
  <1>5. QED  BY <1>1, <1>2, <1>3, <1>4, Cases

\* What was found is there, or it has been said that it is not.
LEMMA FoundStep ==
    ASSUME CallOK, CountOK, FoundOK, [ToolsNext]_allvars
    PROVE  FoundOK'
  <1>1. ASSUME NEW s \in Elements(Steps), At(s), GoesBy(s) PROVE FoundOK'
    <2>1. /\ s = Steps[at] /\ at \in DOMAIN Steps /\ Steps' = Steps
          /\ UNCHANGED <<tool, recipe, given>>
          /\ \A i \in DOMAIN Steps : i < at' <=> i < at \/ i = at
      BY <1>1, Passed DEF call
    <2> SUFFICES ASSUME tool \in Tools, NEW i \in DOMAIN Steps, i < at', Vouches(i)
                 PROVE  warned' \/ count'[Steps[i].obj] >= 1
      BY <2>1 DEF FoundOK, Vouches
    <2>2. Steps[i].obj \in Objects(recipe)
      BY DEF Vouches, Objects, Places, Steps
    <2>3. count'[Steps[i].obj] = count[Steps[i].obj]
      BY <1>1, <2>2, NativeStays DEF Vouches
    <2>4. warned => warned'
      BY <1>1 DEF GoesBy, PassesOver, PassesOverLacking, Does, SaveRefused, Tolerates
    <2>5. CASE i = at
      <3>1. ~PassesOver(s) /\ ~PassesOverLacking(s) /\ ~SaveRefused(s)
        BY <2>1, <2>5 DEF Vouches, PassesOver, PassesOverLacking, SaveRefused, Active, Lacking
      <3>2. CASE Does(s)
        BY <2>1, <2>3, <2>5, <3>2 DEF Does, Able, Vouches
      <3>3. CASE Tolerates(s)
        BY <2>1, <2>5, <3>3 DEF Tolerates, Vouches
      <3>4. QED  BY <1>1, <3>1, <3>2, <3>3 DEF GoesBy
    <2>6. CASE i < at
      BY <2>3, <2>4, <2>6 DEF FoundOK
    <2>7. QED  BY <2>1, <2>5, <2>6
  <1>2. ASSUME NEW s \in Elements(Steps), At(s), Stops(s) PROVE FoundOK'
    BY <1>2 DEF Stops, StepEnds, call, world, FoundOK, Vouches, Steps
  <1>3. CASE Waits
    BY <1>3 DEF Waits, toolvars, call, world, execution, FoundOK, Vouches, Steps
  <1>4. CASE CallsAgain
    <2>1. at' = 1 /\ UNCHANGED <<tool, recipe>>
      BY <1>4 DEF CallsAgain, call
    <2>2. \A i \in DOMAIN Steps : ~(i < 1)
      BY Script DEF IsScript, Steps
    <2>3. QED  BY <2>1, <2>2 DEF FoundOK, Steps
  <1>5. QED  BY <1>1, <1>2, <1>3, <1>4, Cases

\* A component that was added hangs where it should, if nothing else was said.
LEMMA Hanging ==
    ASSUME CallOK, FreshOK, HangsOK, SuppliedOK, FoundOK, tool \in Tools, ~warned,
           \A i \in DOMAIN Steps : i < at,
           NEW obj \in fresh, Meant(recipe, obj) # "root"
    PROVE  parent[obj] = Meant(recipe, obj)
  <1> DEFINE S == {t \in Elements(Steps) : t.obj = obj /\ t.under # "root"}
  <1>1. S # {} /\ Meant(recipe, obj) = (CHOOSE t \in S : TRUE).under
    BY DEF Meant, Steps
  <1>2. PICK t \in S : Meant(recipe, obj) = t.under
    BY <1>1
  <1>3. PICK j \in DOMAIN Steps : Steps[j] = t
    BY <1>2 DEF Elements
  <1>4. Steps[j].obj = obj /\ Steps[j].under # "root" /\ Meant(recipe, obj) = Steps[j].under
    BY <1>2, <1>3
  <1>5. Steps[j].op \in Adding /\ j < at
    BY <1>4, HungSteps
  <1>6. CASE Steps[j].op = "add"
    BY <1>4, <1>5, <1>6 DEF HangsOK
  <1>7. CASE Steps[j].op = "supply"
    <2>1. count[Steps[j].reuse] = 0
      BY <1>4, <1>5, <1>7 DEF SuppliedOK
    <2>2. PICK i \in DOMAIN Steps : Vouches(i) /\ Steps[i].obj = Steps[j].reuse
      BY <1>4, <1>7, HungSteps DEF Vouched, Vouches, Steps
    <2>3. count[Steps[j].reuse] >= 1
      BY <2>2 DEF FoundOK
    <2>4. QED  BY <2>1, <2>3
  <1>8. QED  BY <1>5, <1>6, <1>7 DEF Adding

-----------------------------------------------------------------------------
(* The answers, and the objects that a repeated call finds.                *)

\* What "ok" says is true.
LEMMA Wholes ==
    ASSUME HarnessInv, OneEntry, CallOK, EndOK, Told, SavesHold,
           FreshOK, HangsOK, SuppliedOK, FoundOK
    PROVE  OkIsTheWhole
  <1> SUFFICES ASSUME Executed, reply.kind = "ok"
               PROVE  /\ \A s \in Elements(Steps) :
                            s.op = "save" /\ Active(s) => s.obj \notin unsaved \ refused
                      /\ ~warned => \A obj \in fresh : Meant(recipe, obj) # "root" =>
                            parent[obj] = Meant(recipe, obj)
                      /\ ~warned /\ tool \notin Quiet =>
                            undone = {} \/ \E i \in undone : Steps[i].obj \in Features
    BY DEF OkIsTheWhole
  <1>1. tool \in Tools /\ complete /\ emitted = Done
    BY Ok DEF Executed, Answered
  <1>2. at > Len(Steps) /\ DOMAIN Steps = 1..Len(Steps) /\ Len(Steps) \in Nat /\ at \in Nat
    BY <1>1, Script DEF EndOK, IsScript, CallOK, Steps
  <1>3. \A i \in DOMAIN Steps : i < at
    BY <1>2
  <1>4. \A s \in Elements(Steps) : s.op = "save" /\ Active(s) => s.obj \notin unsaved \ refused
    BY <1>1, <1>3 DEF SavesHold, Elements
  <1>5. ~warned => \A obj \in fresh : Meant(recipe, obj) # "root" => parent[obj] = Meant(recipe, obj)
    BY <1>1, <1>3, Hanging
  <1>6. ~warned /\ tool \notin Quiet => undone = {} \/ \E i \in undone : Steps[i].obj \in Features
    BY <1>1 DEF Told
  <1>7. QED  BY <1>4, <1>5, <1>6

\* A repeated call finds one of each, and leaves one.
LEMMA Retries ==
    ASSUME CallOK, CountOK, OneOfEach
    PROVE  RetryAddsNothing
  <1> SUFFICES ASSUME tool \in Tools, faults = 0, tool \notin Appenders
               PROVE  \A obj \in DOMAIN count : count[obj] <= 1
    BY DEF RetryAddsNothing, Executed, Answered
  <1>1. OneEach(recipe)
    BY Script DEF WellWritten
  <1>2. QED  BY <1>1 DEF OneOfEach, CountOK

-----------------------------------------------------------------------------
(* Types.                                                                  *)

\* The objects that the steps are about.
Named == {s.obj : s \in Elements(Steps)} \cup {Owner(s.obj) : s \in Elements(Steps)}

\* The types of the objects.
WorldOK ==
    /\ parent \in [Objects(recipe) -> {"root"} \cup Objects(recipe)]
    /\ fresh \cup missed \cup changed \cup unsaved \subseteq Named
    /\ refused \subseteq {s.obj : s \in {t \in Elements(Steps) : t.op = "save"}}
    /\ undone \subseteq DOMAIN Steps
    /\ warned \in BOOLEAN /\ marked \in BOOLEAN

\* A call begins so.
LEMMA WorldInit == ToolsInit => WorldOK
  <1> SUFFICES ASSUME ToolsInit PROVE WorldOK
    OBVIOUS
  <1>1. CallOK
    BY CallInit
  <1>2. ASSUME NEW obj \in Objects(recipe), Meant(recipe, obj) # "root"
        PROVE  Meant(recipe, obj) \in Objects(recipe)
    <2>0. tool \in Tools
      <3>1. NoTool.steps = <<>> /\ DOMAIN <<>> = {}
        BY DEF NoTool, Recipe
      <3>2. Objects(NoTool) = {}
        BY <3>1 DEF Objects, Places
      <3>3. QED  BY <1>1, <1>2, <3>2 DEF CallOK
    <2> DEFINE S == {t \in Elements(Steps) : t.obj = obj /\ t.under # "root"}
    <2>1. S # {} /\ Meant(recipe, obj) = (CHOOSE t \in S : TRUE).under
      BY <1>2 DEF Meant, Steps
    <2>2. PICK t \in S : Meant(recipe, obj) = t.under
      BY <2>1
    <2>3. PICK j \in DOMAIN Steps : Steps[j] = t
      BY <2>2 DEF Elements
    <2>4. Steps[j].under # "root" /\ Meant(recipe, obj) = Steps[j].under
      BY <2>2, <2>3
    <2>5. PICK i \in DOMAIN Steps : Holds(i, j) /\ Steps[j].op \in Adding
      BY <1>1, <2>0, <2>4, HungSteps
    <2>6. Steps[i] \in Elements(Steps) /\ Steps[i].obj = Steps[j].under /\ Steps[i].op \in Creating
      BY <2>5 DEF Holds, Creating, Elements
    <2>7. QED  BY <2>4, <2>6, ObjectOfStep
  <1>3. parent \in [Objects(recipe) -> {"root"} \cup Objects(recipe)]
    BY <1>2 DEF ToolsInit
  <1>4. QED  BY <1>3 DEF ToolsInit, WorldOK

\* No step of a call disturbs that.
LEMMA WorldStep ==
    ASSUME CallOK, WorldOK, FreshOK, [ToolsNext]_allvars
    PROVE  WorldOK'
  <1>1. ASSUME NEW s \in Elements(Steps), At(s), GoesBy(s) PROVE WorldOK'
    <2>1. s = Steps[at] /\ at \in DOMAIN Steps /\ Steps' = Steps /\ UNCHANGED <<recipe, marked>>
      BY <1>1, Passed DEF call
    <2>2. Named' = Named /\ s.obj \in Named /\ Owner(s.obj) \in Named
      BY <2>1 DEF Named, Owner
    <2>3. parent' \in [Objects(recipe) -> {"root"} \cup Objects(recipe)]
      <3>1. fresh \subseteq Objects(recipe)
        BY ObjectOfStep DEF FreshOK, Elements
      <3>2. Hung(s) \in [Objects(recipe) -> {"root"} \cup Objects(recipe)]
        BY <3>1 DEF Hung, WorldOK
      <3>3. QED  BY <1>1, <3>2, FreshAfter DEF WorldOK
    <2>4. fresh' \cup missed' \cup changed' \cup unsaved' \subseteq Named
      <3>1. CASE Does(s)
        BY <2>2, <3>1 DEF Does, WorldOK
      <3>2. CASE ~Does(s)
        BY <1>1, <2>2, <3>2 DEF GoesBy, PassesOver, PassesOverLacking, SaveRefused, Tolerates, world, WorldOK
      <3>3. QED  BY <3>1, <3>2
    <2>5. refused' = refused \/ (s.op = "save" /\ refused' = refused \cup {s.obj})
      BY <1>1 DEF GoesBy, PassesOver, PassesOverLacking, Does, SaveRefused, Tolerates
    <2>6. undone' \in {undone, undone \cup {at}}
      BY <1>1 DEF GoesBy, PassesOver, PassesOverLacking, Does, SaveRefused, Tolerates
    <2>7. warned' = warned \/ warned' = (warned \/ s.fails = "warns")
      BY <1>1 DEF GoesBy, PassesOver, PassesOverLacking, Does, SaveRefused, Tolerates
    <2>8. warned' \in BOOLEAN
      BY <2>7, Zenon DEF WorldOK
    <2>9. refused' \subseteq {t.obj : t \in {u \in Elements(Steps) : u.op = "save"}}
      BY <2>5 DEF WorldOK
    <2>10. undone' \subseteq DOMAIN Steps
      BY <2>1, <2>6 DEF WorldOK
    <2>11. QED  BY <2>1, <2>2, <2>3, <2>4, <2>8, <2>9, <2>10 DEF WorldOK
  <1>2. ASSUME NEW s \in Elements(Steps), At(s), Stops(s) PROVE WorldOK'
    <2>1. StepEnds(s) /\ Fails(s)
      BY <1>2 DEF Stops
    <2>2. /\ UNCHANGED <<recipe, parent, unsaved, refused, changed, fresh, undone, warned>>
          /\ missed' \subseteq missed \cup {s.obj} /\ Steps' = Steps
      BY <2>1 DEF StepEnds, call, world, Steps
    <2>3. Named' = Named /\ s.obj \in Named
      BY <2>2 DEF Named, Owner
    <2>4. marked' \in BOOLEAN
      BY <1>2, Zenon DEF Stops, WorldOK
    <2>5. QED  BY <2>2, <2>3, <2>4 DEF WorldOK
  <1>3. CASE Waits
    BY <1>3 DEF Waits, toolvars, call, world, execution, WorldOK, Named, Owner, Steps
  <1>4. CASE CallsAgain
    <2>1. /\ UNCHANGED <<recipe, parent, unsaved>>
          /\ refused' = {} /\ changed' = {} /\ fresh' = {} /\ missed' = {}
          /\ undone' = {} /\ warned' = FALSE /\ marked' = FALSE
      BY <1>4 DEF CallsAgain, FreshExecution, call, world
    <2>2. Named' = Named /\ Steps' = Steps
      BY <2>1 DEF Named, Owner, Steps
    <2>3. unsaved \subseteq Named
      BY DEF WorldOK
    <2>4. QED  BY <2>1, <2>2, <2>3 DEF WorldOK
  <1>5. QED  BY <1>1, <1>2, <1>3, <1>4, Cases

-----------------------------------------------------------------------------
(* The invariant.                                                          *)

\* What holds in every state of the call.
ToolsInv ==
    /\ CallOK /\ EndOK /\ Begun /\ MissedOK /\ Told /\ SavesHold
    /\ OneEntry /\ FewOfEach /\ OneOfEach /\ FreshOK /\ HoldersKnown /\ HangsOK
    /\ SuppliedOK /\ FoundOK /\ WorldOK

\* A call begins so.
LEMMA ToolsInvInit == ToolsInit => ToolsInv
  <1> SUFFICES ASSUME ToolsInit PROVE ToolsInv
    OBVIOUS
  <1>1. CallOK /\ WorldOK
    BY CallInit, WorldInit
  <1>2. EndOK
    BY FourResults DEF ToolsInit, Init, EndOK, Stopped
  <1>3. Begun /\ MissedOK /\ Told /\ FreshOK /\ HangsOK /\ SuppliedOK
    BY DEF ToolsInit, Begun, MissedOK, Told, FreshOK, HangsOK, SuppliedOK
  <1>4. \A i \in DOMAIN Steps : ~(i < at)
    BY <1>1, Script DEF ToolsInit, IsScript, Steps
  <1>5. SavesHold /\ HoldersKnown /\ FoundOK
    BY <1>4 DEF SavesHold, HoldersKnown, FoundOK
  <1>6. count \in [Objects(recipe) -> 0..1]
    BY DEF ToolsInit, Editors
  <1>7. CountOK /\ FewOfEach /\ OneOfEach
    BY <1>4, <1>6 DEF CountOK, FewOfEach, OneOfEach, ToolsInit
  <1>8. OneEntry
    BY DEF ToolsInit, Init, OneEntry
  <1>9. QED  BY <1>1, <1>2, <1>3, <1>5, <1>7, <1>8 DEF ToolsInv

\* No step of a call disturbs that.
LEMMA ToolsInvStep ==
    ASSUME ToolsInv, TypeOK, [ToolsNext]_allvars
    PROVE  ToolsInv'
  <1>1. CallOK' /\ EndOK' /\ Begun' /\ MissedOK' /\ Told' /\ SavesHold'
    BY CallStep, EndStep, BegunStep, MissedStep, ToldStep, SavesStep DEF ToolsInv
  <1>2. CountOK /\ DOMAIN parent = Objects(recipe)
    BY DEF ToolsInv, FewOfEach, WorldOK
  <1>3. FewOfEach' /\ OneOfEach' /\ FreshOK' /\ HoldersKnown'
    BY <1>2, FewStep, OneOfEachStep, FreshStep, HoldersStep DEF ToolsInv
  <1>4. HangsOK' /\ SuppliedOK' /\ FoundOK' /\ WorldOK' /\ OneEntry'
    BY <1>2, HangsStep, SuppliedStep, FoundStep, WorldStep, OneEntryStep DEF ToolsInv
  <1>5. QED  BY <1>1, <1>3, <1>4 DEF ToolsInv

\* It holds for ever, together with the invariant of the harness.
LEMMA ToolsInvHolds == ToolsSpec => [](HarnessInv /\ ToolsInv)
  <1>1. ToolsSpec => []HarnessInv
    BY HarnessInvHolds
  <1>2. ToolsInv /\ HarnessInv /\ [ToolsNext]_allvars => ToolsInv'
    BY ToolsInvStep DEF HarnessInv
  <1>3. QED  BY <1>1, <1>2, ToolsInvInit, PTL DEF ToolsSpec

-----------------------------------------------------------------------------
(* The theorems.                                                           *)

\* Whatever else is logged: a tool says "ok" only if the last result its script emitted
\* does, and that there was none if there was none; and, unless there is more output on
\* the line of that result, also when it does and only if there was none
\* (run_python_recipe, tool_registry.cpp:309-387).
THEOREM AnswerIsLastEmit == ToolsSpec => []ReplyIsLastEmit
  <1>1. ASSUME HarnessInv PROVE ReplyIsLastEmit
    <2> SUFFICES ASSUME Replied
                 PROVE  /\ reply.kind = "ok" => emitted.ok = "true"
                        /\ emitted = NoResult => reply.kind = "noResult"
                        /\ emitted # NoResult /\ ~Overrun =>
                               /\ emitted.ok = "true" => reply.kind = "ok"
                               /\ reply.kind # "noResult"
      BY DEF ReplyIsLastEmit
    <2>1. reply = answer(Found)
      BY <1>1 DEF HarnessInv, ReplyShows, Replied
    <2>2. answer(NoResult).kind = "noResult"
      <3>1. answer(NoResult) = [kind |-> "noResult", error |-> "text"]
        BY DEF answer, NoResult
      <3>2. QED  BY <3>1
    <2>3. CASE Found = NoResult
      BY <2>1, <2>2, <2>3 DEF Found
    <2>4. CASE Found # NoResult
      <3>1. Found = emitted
        BY <2>4 DEF Found
      <3>2. (reply.kind = "ok" <=> emitted.ok = "true") /\ reply.kind # "noResult"
        BY <2>1, <2>4, <3>1 DEF answer
      <3>3. QED  BY <2>4, <3>1, <3>2
    <2>5. QED  BY <2>3, <2>4
  <1>2. QED  BY <1>1, HarnessInvHolds, PTL

\* The types of the tools' state, the harness included: of no object are there ever
\* more than a first execution, a second one and its one step that adds can make.
THEOREM ToolsTypeCorrect == ToolsSpec => []ToolsTypeOK
  <1>1. ASSUME HarnessInv, ToolsInv PROVE ToolsTypeOK
    <2>1. count \in [Objects(recipe) -> 0..4]
      <3>1. count \in [Objects(recipe) -> Nat] /\ \A obj \in Objects(recipe) : count[obj] <= 3
        BY <1>1 DEF ToolsInv, FewOfEach, CountOK, CallOK
      <3>2. \A obj \in Objects(recipe) : count[obj] \in 0..4
        BY <3>1
      <3>3. QED  BY <3>1, <3>2
    <2>2. parent \in [DOMAIN count -> {"root"} \cup DOMAIN count]
      <3>1. DOMAIN count = Objects(recipe)
        BY <2>1
      <3>2. QED  BY <1>1, <3>1 DEF ToolsInv, WorldOK
    <2>3. ASSUME NEW obj \in fresh \cup missed \cup changed \cup unsaved
          PROVE  \E i \in DOMAIN Steps : obj \in {Steps[i].obj, Owner(Steps[i].obj)}
      <3>1. obj \in Named
        BY <1>1 DEF ToolsInv, WorldOK
      <3>2. PICK s \in Elements(Steps) : obj = s.obj \/ obj = Owner(s.obj)
        BY <3>1 DEF Named
      <3>3. QED  BY <3>2 DEF Elements
    <2>4. ASSUME NEW obj \in refused
          PROVE  \E i \in DOMAIN Steps : Steps[i].op = "save" /\ Steps[i].obj = obj
      <3>1. PICK s \in Elements(Steps) : s.op = "save" /\ s.obj = obj
        BY <1>1 DEF ToolsInv, WorldOK
      <3>2. QED  BY <3>1 DEF Elements
    <2>5. QED
      BY <1>1, <2>1, <2>2, <2>3, <2>4 DEF ToolsInv, HarnessInv, CallOK, WorldOK, ToolsTypeOK
  <1>2. QED  BY <1>1, ToolsInvHolds, PTL

\* What an answer "ok" says of the changes is true: they are saved, if save_asset did
\* not refuse; if it tells of no difficulty, what was added hangs where it should; and,
\* but for the recipes that do not tell and the engine's Features, all that the options
\* ask for has been done - after every order of failures, in a first or a repeated
\* execution (e.g. ue_create_character_blueprint, tool_registry.cpp:4191-4503).
THEOREM OkSaysTheWhole == ToolsSpec => []OkIsTheWhole
  <1>1. HarnessInv /\ ToolsInv => OkIsTheWhole
    BY Wholes DEF HarnessInv, ToolsInv
  <1>2. QED  BY <1>1, ToolsInvHolds, PTL

\* "unsupported" is said before anything is changed (unsupported_result,
\* tool_registry.cpp:47).
THEOREM UnsupportedIsSaidFirst == ToolsSpec => []UnsupportedChangedNothing
  <1>1. HarnessInv /\ ToolsInv => UnsupportedChangedNothing
    BY Unsupporteds DEF ToolsInv
  <1>2. QED  BY <1>1, ToolsInvHolds, PTL

\* A call that was executed and whose answer was lost, or that failed, leaves one of
\* each when it is executed once more, if no step failed that could be done - but for
\* the recipes that add one each time.
THEOREM RetryIsSafe == ToolsSpec => []RetryAddsNothing
  <1>1. HarnessInv /\ ToolsInv => RetryAddsNothing
    BY Retries DEF ToolsInv, FewOfEach
  <1>2. QED  BY <1>1, ToolsInvHolds, PTL

\* Nothing that an execution leaves behind, however it ended, is in the way of the
\* next: with its reuse option, what it needs and no fault, that one succeeds.
THEOREM LeftoversDoNotBlock == ToolsSpec => []RepeatSucceeds
  <1>1. HarnessInv /\ ToolsInv => RepeatSucceeds
    BY Repeats DEF HarnessInv, ToolsInv
  <1>2. QED  BY <1>1, ToolsInvHolds, PTL

\* A call that is refused for what is missing, or not as it has to be, has changed
\* nothing: the scripts look before they write.
THEOREM RefusalIsClean == ToolsSpec => []RefusalLeavesNothing
  <1>1. HarnessInv /\ ToolsInv => RefusalLeavesNothing
    BY Refusals DEF HarnessInv, ToolsInv
  <1>2. QED  BY <1>1, ToolsInvHolds, PTL
=============================================================================
