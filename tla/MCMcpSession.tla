---------------------------- MODULE MCMcpSession ----------------------------
(* Two or three editors: a UE 4.25 without /remote/info, on its port, and  *)
(* UE 5.5 with Python, on theirs.  The tools need what both engines have   *)
(* (object.call), what only the newer one has (batch), and a plugin.       *)
EXTENDS McpSession

CONSTANTS ue425, ue55, ue55NoPython, callTool, batchTool, pythonTool

MCProfile ==
    LET V(major, minor, patch) == [major |-> major, minor |-> minor, patch |-> patch]
        ue5 == [info |-> TRUE, routes |-> {"Batch"}, python |-> TRUE,
                version |-> <<5, Dot, 5, Dot, 4, Letter, 405, Letter>>, release |-> V(5, 5, 4)]
    IN  [e \in Engines |->
            IF e = ue425
            THEN [info |-> FALSE, routes |-> {}, python |-> FALSE,
                  version |-> <<4, Dot, 25, Dot, 4, Letter, 144>>, release |-> V(4, 25, 4)]
            ELSE [ue5 EXCEPT !.python = (e = ue55)]]

\* 30010 is tried first and is the port of UE 4.26+, 8080 that of UE 4.25.
MCPort == [e \in Engines |-> IF e = ue425 THEN 2 ELSE 1]

MCRequired ==
    [t \in Tools |-> CASE t = callTool   -> {"ObjectCall"}
                       [] t = batchTool  -> {"Batch"}
                       [] t = pythonTool -> {"PythonScripting"}]
=============================================================================
