--------------------------- MODULE MCToolHandlers ---------------------------
(* Engines on both sides of every gate: 4.25 (no batch), 4.26 (no UE5      *)
(* subsystems), 5.3 (PIE control but no start), 5.5; with and without      *)
(* Python and the plugin of the legacy libraries.                          *)
EXTENDS ToolHandlers

V(mj, mn) == [major |-> mj, minor |-> mn, patch |-> 0]

MCEngines ==
    {[version |-> V(4, 25), python |-> FALSE, plugin |-> TRUE],
     [version |-> V(4, 26), python |-> TRUE, plugin |-> FALSE],
     [version |-> V(5, 3), python |-> FALSE, plugin |-> FALSE],
     [version |-> V(5, 5), python |-> TRUE, plugin |-> TRUE]}

MCAllTools == Registered
=============================================================================
