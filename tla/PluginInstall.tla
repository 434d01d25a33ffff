--------------------------- MODULE PluginInstall ---------------------------
(***************************************************************************)
(* The Python recipes that install a converter plugin into the project     *)
(* (tool_registry.cpp, register_pencil2umg_tools and                       *)
(* register_figma2umg_tools).  Both previews and installs have the same    *)
(* control: read what is there, ask GitHub for the newest release, answer  *)
(* "none" or "needsConfirmation" or replace the plugin folder and enable   *)
(* the plugin in the .uproject.  They differ in what identifies what is    *)
(* installed: the VersionName of the .uplugin, or the commit in a marker   *)
(* file that the recipe itself drops beside it (Marks).                    *)
(*                                                                         *)
(* A recipe runs on the game thread of the editor: no two interleave.      *)
(* Releases appear, the editor dies and files resist while it runs, and    *)
(* RcClient sends it again when no answer came within its read timeout     *)
(* (15 s; the download alone is given 120 or 180 s).                       *)
(***************************************************************************)
EXTENDS Naturals

CONSTANTS
    Plugins,     \* the converter plugins that are installed
    MayForce,    \* force=true is used
    FaultKinds,  \* the Faults that happen
    MaxRelease,  \* bound: releases published
    MaxFaults    \* bound: faults that happen

\* GitHub fails, files of the old folder resist, a copy stops, the marker cannot
\* be written, the .uproject cannot be opened, the disk is full when it is
\* written, the editor dies, the client's read timeout passes.
Faults == {"network", "remove", "copy", "mark", "uproject", "disk", "crash", "timeout"}

ASSUME InstallAssumption ==
    /\ Plugins \subseteq {"Pencil2UMG", "Figma2UMG"} /\ MayForce \in BOOLEAN
    /\ FaultKinds \subseteq Faults
    /\ MaxRelease \in Nat \ {0}
    /\ MaxFaults \in Nat

\* Releases are numbered from 1.  An .uplugin that does not parse still counts
\* as an installed version, "(unreadable)".
Absent     == 0
Unreadable == MaxRelease + 1
Releases   == 1..MaxRelease

\* A plugin folder: what its .uplugin and its marker say, and how much of the
\* rest of the plugin (binaries, sources) is there.
Folders ==
    [dir : BOOLEAN, uplugin : 0..Unreadable, marker : 0..MaxRelease,
     rest : {"none", "part", "whole"}]

Empty == [dir |-> FALSE, uplugin |-> Absent, marker |-> Absent, rest |-> "none"]
Copied(r) == [dir |-> TRUE, uplugin |-> r, marker |-> Absent, rest |-> "whole"]

\* rmtree(ignore_errors=True) that could not delete everything, copytree that
\* stopped on the way: some files are there, in no particular order.
Leftovers(f) ==
    [dir : {TRUE}, uplugin : {Absent, f.uplugin}, marker : {Absent, f.marker}, rest : {"part"}]
Partial(r) ==
    [dir : {TRUE}, uplugin : {Absent, Unreadable, r}, marker : {Absent}, rest : {"part"}]

VARIABLES
    plugin,      \* which of the two it is about
    latest,      \* the newest release on GitHub
    folder,      \* Plugins/<plugin> of the project
    uproject,    \* the plugin's entry in the .uproject
    up,          \* the editor runs
    loaded,      \* the release whose module the editor has loaded
    pc,          \* where the recipe is
    confirm, force, \* arguments of the call
    picked,      \* the release the recipe decided to install
    waiting,     \* the attempt the client waits for: 1, 2 (the retry), 0 gave up
    queued,      \* the retry waits for the game thread
    reply,       \* what the last call came to
    agreed,      \* the release whose preview the user said yes to
    faults       \* faults so far (bounded)

project == <<folder, uproject>>
call == <<confirm, force, picked, waiting, queued, reply>>
vars == <<plugin, latest, project, up, loaded, pc, call, agreed, faults>>

Answer(what) == [what |-> what, release |-> Absent, enabled |-> FALSE]

TypeOK ==
    /\ plugin \in Plugins
    /\ latest \in Releases
    /\ folder \in Folders
    /\ uproject \in {"without", "enabled", "broken"}
    /\ up \in BOOLEAN
    /\ loaded \in 0..MaxRelease
    /\ pc \in {"idle", "start", "download", "remove", "copy", "mark", "enable", "dump"}
    /\ confirm \in BOOLEAN /\ force \in BOOLEAN
    /\ picked \in 0..MaxRelease
    /\ waiting \in 0..2 /\ queued \in BOOLEAN
    /\ reply \in [what : {"nothing", "lost", "error", "upToDate", "needsConfirmation", "installed"},
                  release : 0..MaxRelease, enabled : BOOLEAN]
    /\ agreed \in 0..MaxRelease
    /\ faults \in 0..MaxFaults

Init ==
    /\ plugin \in Plugins
    /\ latest = 1
    /\ folder = Empty
    /\ uproject = "without"
    /\ up = TRUE
    /\ loaded = Absent
    /\ pc = "idle"
    /\ confirm = FALSE /\ force = FALSE
    /\ picked = Absent
    /\ waiting = 1 /\ queued = FALSE
    /\ reply = Answer("nothing")
    /\ agreed = Absent
    /\ faults = 0

Fault(kind) == kind \in FaultKinds /\ faults < MaxFaults /\ faults' = faults + 1

-----------------------------------------------------------------------------
(* What the recipes make of the folder.                                    *)

\* Figma2UMG's recipe records the commit, Pencil2UMG's goes by the version.
Marks == plugin = "Figma2UMG"

installed_version == folder.uplugin
installed_commit  == folder.marker
is_update == installed_version # Absent

\* Mutant of update_available: a folder without a marker is taken as it is.
update_available_marked(l) ==
    IF Marks THEN installed_commit # Absent /\ l # installed_commit
             ELSE installed_version # l

\* What the status tool says when it reaches GitHub.
update_available(l) ==
    IF Marks THEN \/ installed_commit # Absent /\ l # installed_commit
                  \/ is_update /\ installed_commit = Absent
             ELSE installed_version # l

up_to_date(l) ==
    is_update /\ (IF Marks THEN installed_commit = l ELSE installed_version = l)

-----------------------------------------------------------------------------
(* The recipe.                                                             *)

\* The recipe's _emit.  A retry that waits runs next, and it is its answer the
\* client gets; a client that gave up has got none.
Emit(r) ==
    /\ pc' = IF queued THEN "start" ELSE "idle"
    /\ queued' = FALSE
    /\ reply' = IF queued THEN reply ELSE IF waiting = 0 THEN Answer("lost") ELSE r
    /\ UNCHANGED <<confirm, force, picked, waiting>>

\* The agent passes confirm=true only when the user has just agreed to a preview.
CallInstall(c, f) ==
    /\ up /\ pc = "idle"
    /\ c => reply.what = "needsConfirmation" /\ agreed = reply.release
    /\ f => MayForce
    /\ pc' = "start"
    /\ confirm' = c /\ force' = f
    /\ picked' = Absent
    /\ waiting' = 1 /\ queued' = FALSE
    /\ reply' = Answer("nothing")
    /\ UNCHANGED <<plugin, latest, project, up, loaded, agreed, faults>>

\* GitHub does not answer (urlopen raises) or the release is of no use.
FetchFails ==
    /\ pc = "start"
    /\ Fault("network")
    /\ Emit(Answer("error"))
    /\ UNCHANGED <<plugin, latest, project, up, loaded, agreed>>

\* Mutant of Decide: force installs without asking.
DecideForced ==
    /\ pc = "start"
    /\ IF up_to_date(latest) /\ ~force
       THEN Emit(Answer("upToDate"))
       ELSE IF ~confirm /\ ~force
            THEN Emit([Answer("needsConfirmation") EXCEPT !.release = latest])
            ELSE /\ pc' = "download"
                 /\ picked' = latest
                 /\ UNCHANGED <<confirm, force, waiting, queued, reply>>
    /\ UNCHANGED <<plugin, latest, project, up, loaded, agreed, faults>>

Decide ==
    /\ pc = "start"
    /\ IF up_to_date(latest) /\ ~force
       THEN Emit(Answer("upToDate"))
       ELSE IF ~confirm
            THEN Emit([Answer("needsConfirmation") EXCEPT !.release = latest])
            ELSE /\ pc' = "download"
                 /\ picked' = latest
                 /\ UNCHANGED <<confirm, force, waiting, queued, reply>>
    /\ UNCHANGED <<plugin, latest, project, up, loaded, agreed, faults>>

\* The zip of the release that was picked, or an exception, or no .uplugin in it.
Download ==
    /\ pc = "download"
    /\ \/ /\ pc' = "remove"
          /\ UNCHANGED <<call, faults>>
       \/ /\ Fault("network")
          /\ Emit(Answer("error"))
    /\ UNCHANGED <<plugin, latest, project, up, loaded, agreed>>

RemoveOld ==
    /\ pc = "remove"
    /\ pc' = "copy"
    /\ \/ folder' = Empty /\ UNCHANGED faults
       \/ folder.dir /\ Fault("remove") /\ folder' \in Leftovers(folder)
    /\ UNCHANGED <<plugin, latest, uproject, up, loaded, call, agreed>>

\* Mutant of CopyTree: dirs_exist_ok=True, over what could not be removed.
CopyTreeOver ==
    /\ pc = "copy"
    /\ \/ /\ folder' = [folder EXCEPT !.dir = TRUE, !.uplugin = picked,
                                      !.rest = IF folder.dir THEN "part" ELSE "whole"]
          /\ pc' = IF Marks THEN "mark" ELSE "enable"
          /\ UNCHANGED <<call, faults>>
       \/ /\ Fault("copy")
          /\ folder' \in Partial(picked)
          /\ Emit(Answer("error"))
    /\ UNCHANGED <<plugin, latest, uproject, up, loaded, agreed>>

\* copytree insists on creating the folder; it raises if some file fails.
CopyTree ==
    /\ pc = "copy"
    /\ \/ /\ folder.dir
          /\ Emit(Answer("error"))
          /\ UNCHANGED <<folder, faults>>
       \/ /\ ~folder.dir
          /\ folder' = Copied(picked)
          /\ pc' = IF Marks THEN "mark" ELSE "enable"
          /\ UNCHANGED <<call, faults>>
       \/ /\ ~folder.dir
          /\ Fault("copy")
          /\ folder' \in Partial(picked)
          /\ Emit(Answer("error"))
    /\ UNCHANGED <<plugin, latest, uproject, up, loaded, agreed>>

\* Figma2UMG only; a marker that cannot be written is passed over.
WriteMarker ==
    /\ pc = "mark"
    /\ pc' = "enable"
    /\ \/ folder' = [folder EXCEPT !.marker = picked] /\ UNCHANGED faults
       \/ Fault("mark") /\ UNCHANGED folder
    /\ UNCHANGED <<plugin, latest, uproject, up, loaded, call, agreed>>

Installed(enabled) == [what |-> "installed", release |-> picked, enabled |-> enabled]

\* Read the .uproject and open it for writing, which empties it; nothing that
\* goes wrong with it turns the install into an error.
OpenUproject ==
    /\ pc = "enable"
    /\ \/ /\ uproject # "broken"
          /\ uproject' = "broken"
          /\ pc' = "dump"
          /\ UNCHANGED <<call, faults>>
       \/ /\ uproject = "broken"
          /\ Emit(Installed(FALSE))
          /\ UNCHANGED <<uproject, faults>>
       \/ /\ Fault("uproject")
          /\ Emit(Installed(FALSE))
          /\ UNCHANGED uproject
    /\ UNCHANGED <<plugin, latest, folder, up, loaded, agreed>>

DumpUproject ==
    /\ pc = "dump"
    /\ \/ /\ uproject' = "enabled"
          /\ Emit(Installed(TRUE))
          /\ UNCHANGED faults
       \/ /\ Fault("disk")
          /\ Emit(Installed(FALSE))
          /\ UNCHANGED uproject
    /\ UNCHANGED <<plugin, latest, folder, up, loaded, agreed>>

-----------------------------------------------------------------------------
(* What happens around it.                                                 *)

\* The read timeout of RcClient: one retry, then the call fails.
ClientTimesOut ==
    /\ "timeout" \in FaultKinds
    /\ pc # "idle" /\ waiting # 0
    /\ waiting' = IF waiting = 1 THEN 2 ELSE 0
    /\ queued' = (queued \/ waiting = 1)
    /\ UNCHANGED <<plugin, latest, project, up, loaded, pc, confirm, force, picked, reply,
                   agreed, faults>>

Publish ==
    /\ latest < MaxRelease
    /\ latest' = latest + 1
    /\ UNCHANGED <<plugin, project, up, loaded, pc, call, agreed, faults>>

\* The user says yes or no to the preview that was shown.
Agree ==
    /\ pc = "idle" /\ reply.what = "needsConfirmation"
    /\ agreed' = reply.release
    /\ UNCHANGED <<plugin, latest, project, up, loaded, pc, call, faults>>

Crash ==
    /\ up
    /\ Fault("crash")
    /\ up' = FALSE
    /\ loaded' = Absent
    /\ pc' = "idle"
    /\ queued' = FALSE
    /\ reply' = IF pc = "idle" THEN reply ELSE Answer("lost")
    /\ UNCHANGED <<plugin, latest, project, confirm, force, picked, waiting, agreed>>

Quit ==
    /\ up /\ pc = "idle"
    /\ up' = FALSE
    /\ loaded' = Absent
    /\ UNCHANGED <<plugin, latest, project, pc, call, agreed, faults>>

\* What `loaded' is to the recipes: hasattr(unreal, ...) after a restart.
Loads(f, u) ==
    IF u = "enabled" /\ f.rest = "whole" /\ f.uplugin \in Releases THEN f.uplugin ELSE Absent

Start ==
    /\ ~up /\ uproject # "broken"
    /\ up' = TRUE
    /\ loaded' = Loads(folder, uproject)
    /\ UNCHANGED <<plugin, latest, project, pc, call, agreed, faults>>

\* The user puts back a .uproject that no longer parses.
RestoreUproject ==
    /\ pc = "idle" /\ uproject = "broken"
    /\ uproject' = "without"
    /\ UNCHANGED <<plugin, latest, folder, up, loaded, pc, call, agreed, faults>>

Recipe == \/ FetchFails \/ Decide \/ Download \/ RemoveOld \/ CopyTree
          \/ WriteMarker \/ OpenUproject \/ DumpUproject

Next ==
    \/ \E c, f \in BOOLEAN : CallInstall(c, f)
    \/ Recipe
    \/ ClientTimesOut \/ Publish \/ Agree \/ Crash \/ Quit \/ Start
    \/ RestoreUproject

Spec == Init /\ [][Next]_vars

-----------------------------------------------------------------------------
(* Properties.                                                             *)

\* README.md:456-457, 488: "The install never writes anything without an explicit
\* confirm=true" - not in a retry, not with force, not on a way out either.
NothingWithoutConfirm == [][project' # project => (confirm /\ pc # "idle") \/ RestoreUproject]_vars

\* An install that says so has put the whole plugin there, of the release it
\* names, and if it says "uprojectEnabled" the project enables it: whatever
\* failed on the way, and whichever of the two executions of a retried call
\* the answer is from.
InstalledMeansWhole ==
    reply.what = "installed" =>
        /\ folder.dir /\ folder.rest = "whole" /\ folder.uplugin = reply.release
        /\ reply.enabled => uproject = "enabled"

\* A plugin that is not all there does not pass for up to date: the status
\* tool says it is missing or that there is an update, so that an install
\* follows.
BrokenIsNoticed ==
    pc = "idle" /\ folder.dir /\ folder.rest # "whole" => ~is_update \/ update_available(latest)
=============================================================================
