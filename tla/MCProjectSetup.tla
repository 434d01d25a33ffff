--------------------------- MODULE MCProjectSetup ---------------------------
(* Projects of every engine line: associated as the launcher does it (4.25,*)
(* 4.26, 4.27, 5.4), by a name without a number, or not at all; and those  *)
(* of engines built from source, which go by a GUID like {72D2...}, of     *)
(* which the first run of digits is what parse_association reads.          *)
EXTENDS ProjectSetup

A(text, engine) == [text |-> text, engine |-> engine]

MCLauncher ==
    {A(<<4, Dot, 25>>, "4.25"), A(<<4, Dot, 26>>, "4.26"), A(<<4, Dot, 27>>, "4.26"),
     A(<<5, Dot, 4>>, "5.x")}
    \cup {A(text, line) : text \in {<<>>, <<Letter>>}, line \in Lines}

MCBuiltFromSource ==
    {A(<<Letter, first, Letter, 2, Letter>>, line) : first \in {0, 3, 4, 5, 72}, line \in Lines}
=============================================================================
