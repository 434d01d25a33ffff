--------------------------- MODULE MCRecipeTools ---------------------------
EXTENDS RecipeTools

R(ok, error) == [ok |-> ok, error |-> error]

\* What the recipes emit; the last is ue_pencil_to_umg's when the importer
\* fails without saying why (tool_registry.cpp:7101).
MCResults == {R("true", "absent"), R("true", "text"), R("true", "null"),
              R("false", "text"), R("false", "absent"), R("false", "null")}

MCTools == DOMAIN Recipes
MCImporters == {"ue_pencil_to_umg"}
=============================================================================
