---------------------------- MODULE ProjectSetup ----------------------------
(***************************************************************************)
(* setup_unreal_project (src/src/project_setup.cpp): enable the plugins in *)
(* the .uproject, write the RemoteControl settings of the engine line the  *)
(* project is associated with, merge the server into .mcp.json.  One file  *)
(* after the other, each read, completed and written back if that changed  *)
(* something; the first that fails ends the run, with the files before it  *)
(* written.  A dry run does the same without writing.                      *)
(***************************************************************************)
EXTENDS VersionText

CONSTANTS
    Associations,  \* what projects say and run: [text, engine]
    FileFaults,    \* of "unreadable", "fails" (not opened for writing), "short"
                   \* (opened, not all written)
    MaxRuns,       \* bound: runs of the setup
    MaxEdits       \* bound: edits the user makes between runs, and short writes

Lines  == {"4.25", "4.26", "5.x"}   \* engine lines, by their settings file

ASSUME SetupAssumption ==
    /\ \A a \in Associations : a.engine \in Lines /\ a.text \in Seq(Nat)
    /\ FileFaults \subseteq {"unreadable", "fails", "short"}
    /\ MaxRuns \in Nat /\ MaxEdits \in Nat

Json  == {".uproject", ".mcp.json"}
Ini   == {"DefaultEngine.ini", "DefaultWebRemoteControl.ini", "DefaultRemoteControl.ini"}
Files == Json \cup Ini
Items == {"user", "RemoteControl", "EditorScriptingUtilities", "PythonScriptPlugin",
          "settings", "full access", "server"}
Options == [enable_python : BOOLEAN, write_mcp_config : BOOLEAN, dry_run : BOOLEAN]

VARIABLES
    project,     \* the project's association and engine
    content,     \* file -> what is in it: the user's own entries and ours
    broken,      \* the JSON files that do not parse
    options,     \* of the current run
    todo,        \* the files it still has to deal with
    changed,     \* result.changed_files
    ok,          \* result.ok
    running,     \* a run is under way
    before,      \* content when the run began
    disturbed,   \* since then the user has edited a file, or a write fell short
    prior,       \* the run before: its options, its result, and whether it, or
                 \* what it left, was disturbed
    runs, edits  \* so far (bounded)

vars == <<project, content, broken, options, todo, changed, ok, running, before,
          disturbed, prior, runs, edits>>

Counters == <<runs, edits>>
NoOptions == [enable_python |-> FALSE, write_mcp_config |-> FALSE, dry_run |-> FALSE]

TypeOK ==
    /\ project \in Associations
    /\ content \in [Files -> SUBSET Items]
    /\ broken \subseteq Json
    /\ options \in Options
    /\ todo \in Seq(Files)
    /\ changed \subseteq Files
    /\ ok \in BOOLEAN /\ running \in BOOLEAN
    /\ before \in [Files -> SUBSET Items]
    /\ disturbed \in BOOLEAN
    /\ prior \in [options : Options, ok : BOOLEAN, changed : SUBSET Files, disturbed : BOOLEAN]
    /\ runs \in 0..MaxRuns /\ edits \in 0..MaxEdits

Init ==
    /\ project \in Associations
    /\ content = [f \in Files |-> {"user"}]
    /\ broken = {}
    /\ options = NoOptions
    /\ todo = <<>>
    /\ changed = {}
    /\ ok = FALSE /\ running = FALSE
    /\ before = content
    /\ disturbed = FALSE
    /\ prior = [options |-> NoOptions, ok |-> FALSE, changed |-> {}, disturbed |-> FALSE]
    /\ runs = 0 /\ edits = 0

-----------------------------------------------------------------------------
(* Which files, and what goes into them.                                   *)

\* Mutant of inis: 4.26 is taken for a version without the plugin's settings.
inis_until_426(version) ==
    CASE version.known /\ version.major = 4 /\ version.minor <= 26 -> <<"DefaultEngine.ini">>
      [] version.known /\ version.major = 4 /\ version.minor > 26 -> <<"DefaultWebRemoteControl.ini">>
      [] version.known /\ version.major >= 5 -> <<"DefaultRemoteControl.ini">>
      [] OTHER -> <<"DefaultEngine.ini", "DefaultWebRemoteControl.ini", "DefaultRemoteControl.ini">>

inis(version) ==
    CASE version.known /\ version.major = 4 /\ version.minor <= 25 -> <<"DefaultEngine.ini">>
      [] version.known /\ version.major = 4 /\ version.minor > 25 -> <<"DefaultWebRemoteControl.ini">>
      [] version.known /\ version.major >= 5 -> <<"DefaultRemoteControl.ini">>
      [] OTHER -> <<"DefaultEngine.ini", "DefaultWebRemoteControl.ini", "DefaultRemoteControl.ini">>

\* required_plugins, remote_control_settings_*, the mcpServers entry.
wanted(f) ==
    CASE f = ".uproject" ->
            {"RemoteControl", "EditorScriptingUtilities"}
            \cup (IF options.enable_python THEN {"PythonScriptPlugin"} ELSE {})
      [] f = "DefaultRemoteControl.ini" ->
            {"settings"} \cup (IF options.enable_python THEN {"full access"} ELSE {})
      [] f = ".mcp.json" -> {"server"}
      [] OTHER -> {"settings"}

-----------------------------------------------------------------------------
\* A new run: nothing done yet.
NewRun(o) ==
    /\ ~running
    /\ runs < MaxRuns /\ runs' = runs + 1
    /\ options' = o
    /\ ok' = FALSE
    /\ changed' = {}
    /\ before' = content
    /\ disturbed' = FALSE
    /\ prior' = [options |-> options, ok |-> ok, changed |-> changed, disturbed |-> disturbed]
    /\ UNCHANGED <<project, content, broken, edits>>

\* find_uproject does not find exactly one project file, or it cannot be read,
\* or it does not parse: nothing is done.
NoProject(o) ==
    /\ NewRun(o)
    /\ UNCHANGED <<todo, running>>

\* The .uproject is there and parses; it is dealt with first.
BeginRun(o) ==
    /\ NewRun(o)
    /\ ".uproject" \notin broken
    /\ running' = TRUE
    /\ todo' = <<".uproject">> \o inis(parse_association(project.text))
               \o (IF o.write_mcp_config THEN <<".mcp.json">> ELSE <<>>)

\* return result, with its error
Fails ==
    /\ running' = FALSE
    /\ todo' = <<>>
    /\ UNCHANGED <<content, broken, changed>>

\* ensure_plugin, upsert_ini_file and merge_mcp_json: nothing to change.
FileIsUpToDate ==
    /\ running /\ todo # <<>>
    /\ Head(todo) \notin broken
    /\ wanted(Head(todo)) \subseteq content[Head(todo)]
    /\ todo' = Tail(todo)
    /\ UNCHANGED <<project, content, broken, options, changed, ok, running, before, disturbed, prior, Counters>>

\* Mutant of ChangeFile: a dry run lists only what it has written.
ChangeFileListed ==
    /\ running /\ todo # <<>>
    /\ Head(todo) \notin broken
    /\ LET f == Head(todo)
       IN  /\ ~(wanted(f) \subseteq content[f])
           /\ IF options.dry_run
              THEN UNCHANGED <<content, changed>>
              ELSE /\ content' = [content EXCEPT ![f] = @ \cup wanted(f)]
                   /\ changed' = changed \cup {f}
    /\ todo' = Tail(todo)
    /\ UNCHANGED <<project, broken, options, ok, running, before, disturbed, prior, Counters>>

\* Mutant of ChangeFile: a dry run writes, too.
ChangeFileWet ==
    /\ running /\ todo # <<>>
    /\ Head(todo) \notin broken
    /\ LET f == Head(todo)
       IN  /\ ~(wanted(f) \subseteq content[f])
           /\ content' = [content EXCEPT ![f] = @ \cup wanted(f)]
           /\ changed' = changed \cup {f}
    /\ todo' = Tail(todo)
    /\ UNCHANGED <<project, broken, options, ok, running, before, disturbed, prior, Counters>>

\* Mutant of ChangeFile: every file is written back.
ChangeFileAlways ==
    /\ running /\ todo # <<>>
    /\ Head(todo) \notin broken
    /\ LET f == Head(todo)
       IN  /\ content' = IF options.dry_run THEN content
                         ELSE [content EXCEPT ![f] = @ \cup wanted(f)]
           /\ changed' = changed \cup {f}
    /\ todo' = Tail(todo)
    /\ UNCHANGED <<project, broken, options, ok, running, before, disturbed, prior, Counters>>

\* Something to change: written back, unless this is a dry run.
ChangeFile ==
    /\ running /\ todo # <<>>
    /\ Head(todo) \notin broken
    /\ LET f == Head(todo)
       IN  /\ ~(wanted(f) \subseteq content[f])
           /\ content' = IF options.dry_run THEN content
                         ELSE [content EXCEPT ![f] = @ \cup wanted(f)]
           /\ changed' = changed \cup {f}
    /\ todo' = Tail(todo)
    /\ UNCHANGED <<project, broken, options, ok, running, before, disturbed, prior, Counters>>

\* A file that is there cannot be read, in a dry run either.  (If that is the
\* .uproject the run has not begun.)
ReadFails ==
    /\ "unreadable" \in FileFaults
    /\ running /\ todo # <<>> /\ Head(todo) # ".uproject"
    /\ Fails
    /\ UNCHANGED <<project, options, ok, before, disturbed, prior, Counters>>

\* The directory cannot be made or the file not be opened for writing.
WriteFails ==
    /\ "fails" \in FileFaults
    /\ running /\ todo # <<>> /\ ~options.dry_run
    /\ Head(todo) \notin broken
    /\ ~(wanted(Head(todo)) \subseteq content[Head(todo)])
    /\ Fails
    /\ UNCHANGED <<project, options, ok, before, disturbed, prior, Counters>>

\* The file is emptied and its new text does not get to the disk, which
\* write_text_file does not look at.  A .uproject without a text does not parse;
\* a .mcp.json without one is taken for {}, and only with half of one broken.
WriteFallsShort ==
    /\ "short" \in FileFaults
    /\ running /\ todo # <<>> /\ ~options.dry_run
    /\ Head(todo) \notin broken
    /\ LET f == Head(todo)
       IN  /\ ~(wanted(f) \subseteq content[f])
           /\ content' = [content EXCEPT ![f] = {}]
           /\ \/ f \in Json /\ broken' = broken \cup {f}
              \/ f # ".uproject" /\ UNCHANGED broken
           /\ changed' = changed \cup {f}
    /\ todo' = Tail(todo)
    /\ disturbed' = TRUE
    /\ edits < MaxEdits /\ edits' = edits + 1
    /\ UNCHANGED <<project, options, ok, running, before, prior, runs>>

\* .mcp.json does not parse, or its root is no object.
MergeFails ==
    /\ running /\ todo # <<>>
    /\ Head(todo) \in broken
    /\ Fails
    /\ UNCHANGED <<project, options, ok, before, disturbed, prior, Counters>>

EndRun ==
    /\ running /\ todo = <<>>
    /\ running' = FALSE
    /\ ok' = TRUE
    /\ UNCHANGED <<project, content, broken, options, todo, changed, before, disturbed, prior, Counters>>

\* Between runs the user takes out what was there, or breaks a file.
UserEdits ==
    /\ ~running
    /\ edits < MaxEdits /\ edits' = edits + 1
    /\ \/ \E f \in Files, item \in Items :
            /\ item \in content[f]
            /\ content' = [content EXCEPT ![f] = @ \ {item}]
            /\ UNCHANGED broken
       \/ \E f \in Json :
            /\ broken' = IF f \in broken THEN broken \ {f} ELSE broken \cup {f}
            /\ UNCHANGED content
    /\ disturbed' = TRUE
    /\ UNCHANGED <<project, options, todo, changed, ok, running, before, prior, runs>>

Run == \/ FileIsUpToDate \/ ChangeFile \/ ReadFails \/ WriteFails \/ WriteFallsShort
       \/ MergeFails \/ EndRun

Next == (\E o \in Options : NoProject(o) \/ BeginRun(o)) \/ Run \/ UserEdits

Spec == Init /\ [][Next]_vars

-----------------------------------------------------------------------------
(* Properties.                                                             *)

ConfigOf(engine) ==
    CASE engine = "4.25" -> "DefaultEngine.ini"
      [] engine = "4.26" -> "DefaultWebRemoteControl.ini"
      [] engine = "5.x"  -> "DefaultRemoteControl.ini"

Ended == ~running /\ ok /\ ~disturbed

\* README.md:82-95: a run that ends well has enabled the plugins and written
\* "the correct RemoteControl config file for the engine line", full-access
\* profile included - for the engine that opens the project, and whatever an
\* earlier run has left half written.  Of an association that does not name the
\* engine line the code says that it "wrote compatible settings for UE 4.25,
\* 4.26 and 5.x" (project_setup.cpp:513).  (A write of its own that falls short
\* a run does not notice.)
OkMeansConfigured ==
    Ended /\ ~options.dry_run =>
        /\ {"RemoteControl", "EditorScriptingUtilities"} \subseteq content[".uproject"]
        /\ "settings" \in content[ConfigOf(project.engine)]
        /\ options.enable_python =>
              /\ "PythonScriptPlugin" \in content[".uproject"]
              /\ project.engine = "5.x" => "full access" \in content["DefaultRemoteControl.ini"]
        /\ options.write_mcp_config => "server" \in content[".mcp.json"]

\* "changedFiles" lists the files that are different after the run, also when
\* the run failed half way; after a dry run no file is.
ReportIsExact ==
    ~disturbed =>
        {f \in Files : content[f] # before[f]} = IF options.dry_run THEN {} ELSE changed

SameRequest == [prior.options EXCEPT !.dry_run = options.dry_run] = options

\* A dry run announces exactly what the run that follows it changes.
DryRunPredicts ==
    Ended /\ prior.ok /\ prior.options.dry_run /\ ~prior.disturbed /\ SameRequest
        => changed = prior.changed

\* A second run finds nothing to do (tests/test_main.cpp:493-497).
SecondRunChangesNothing ==
    Ended /\ prior.ok /\ ~prior.options.dry_run /\ ~prior.disturbed /\ SameRequest
        => changed = {}
=============================================================================
