------------------------ MODULE PluginInstallProofs ------------------------
(***************************************************************************)
(* For any plugins, faults and bounds: what PluginInstall promises, proved *)
(* by an invariant that says what the folder holds at each step of the     *)
(* recipe.                                                                 *)
(***************************************************************************)
EXTENDS PluginInstall, TLAPS

Places == {"idle", "start", "download", "remove", "copy", "mark", "enable", "dump"}

Replies == [what : {"nothing", "lost", "error", "upToDate", "needsConfirmation", "installed"},
            release : 0..MaxRelease, enabled : BOOLEAN]

-----------------------------------------------------------------------------
(* The inductive invariant.                                                *)

\* While a recipe runs the client has no answer, nor has the retry one left
\* over; only a confirmed call gets to the steps that write; and from the copy
\* on, the folder is the whole release that was picked.
RunInv ==
    /\ pc = "idle" => ~queued
    /\ pc # "idle" => reply = Answer("nothing")
    /\ pc \in Places \ {"idle", "start"} => confirm /\ picked \in Releases
    /\ pc \in {"mark", "enable", "dump"} =>
          folder.dir /\ folder.rest = "whole" /\ folder.uplugin = picked

IInv == TypeOK /\ RunInv /\ InstalledMeansWhole

\* What the recipes answer is one of the replies.
LEMMA ReplyTypes ==
    /\ \A what \in {"nothing", "lost", "error", "upToDate", "needsConfirmation"} :
          Answer(what) \in Replies
    /\ \A n \in 0..MaxRelease : [Answer("needsConfirmation") EXCEPT !.release = n] \in Replies
    /\ \A n \in 0..MaxRelease, b \in BOOLEAN :
          [what |-> "installed", release |-> n, enabled |-> b] \in Replies
  <1>1. \A what \in {"nothing", "lost", "error", "upToDate", "needsConfirmation"} :
           [what |-> what, release |-> 0, enabled |-> FALSE] \in Replies
    BY InstallAssumption DEF Replies
  <1>2. Answer("needsConfirmation") \in Replies
    BY <1>1 DEF Answer, Absent
  <1>3. \A n \in 0..MaxRelease : [Answer("needsConfirmation") EXCEPT !.release = n] \in Replies
    BY <1>2 DEF Replies
  <1>4. \A n \in 0..MaxRelease, b \in BOOLEAN :
           [what |-> "installed", release |-> n, enabled |-> b] \in Replies
    BY DEF Replies
  <1>5. QED  BY <1>1, <1>3, <1>4 DEF Answer, Absent

\* What the recipe's _emit comes to: the retry starts, with no answer given, or
\* the game thread is idle and the client has the answer or has given up.
LEMMA EmitEnds ==
    ASSUME IInv, pc # "idle", NEW r \in Replies, Emit(r)
    PROVE  /\ pc' \in {"idle", "start"}
           /\ ~queued' /\ queued' \in BOOLEAN
           /\ pc' = "start" => reply' = Answer("nothing")
           /\ pc' = "idle" => reply' = r \/ reply' = Answer("lost")
           /\ reply' \in Replies
           /\ <<confirm, force, picked, waiting>>' = <<confirm, force, picked, waiting>>
  <1>1. reply = Answer("nothing") /\ reply \in Replies /\ queued \in BOOLEAN
    BY DEF IInv, RunInv, TypeOK, Replies
  <1>2. Answer("lost") \in Replies
    BY ReplyTypes
  <1>3. CASE queued
    BY <1>1, <1>3 DEF Emit
  <1>4. CASE ~queued
    BY <1>1, <1>2, <1>4 DEF Emit
  <1>5. QED  BY <1>3, <1>4

\* What an answer other than "installed" ends, leaves the invariant in force.
LEMMA EmitKeeps ==
    ASSUME IInv, pc # "idle", NEW r \in Replies, Emit(r), r.what # "installed",
           latest' \in Releases, folder' \in Folders, faults' \in 0..MaxFaults,
           UNCHANGED <<plugin, uproject, up, loaded, agreed>>
    PROVE  IInv'
  <1>1. /\ pc' \in {"idle", "start"}
        /\ ~queued' /\ queued' \in BOOLEAN
        /\ pc' = "start" => reply' = Answer("nothing")
        /\ pc' = "idle" => reply' = r \/ reply' = Answer("lost")
        /\ reply' \in Replies
        /\ <<confirm, force, picked, waiting>>' = <<confirm, force, picked, waiting>>
    BY EmitEnds
  <1>2. TypeOK'
    BY <1>1 DEF IInv, TypeOK, Replies
  <1>3. RunInv'
    BY <1>1 DEF RunInv, Places
  <1>4. reply'.what # "installed"
    BY <1>1 DEF Answer
  <1>5. InstalledMeansWhole'
    BY <1>4 DEF InstalledMeansWhole
  <1>6. QED  BY <1>2, <1>3, <1>5 DEF IInv

\* The answer "installed" is given of a folder that is whole.
LEMMA EmitInstalled ==
    ASSUME IInv, pc \in {"enable", "dump"}, NEW b \in BOOLEAN, Emit(Installed(b)),
           uproject' \in {"without", "enabled", "broken"}, b => uproject' = "enabled",
           faults' \in 0..MaxFaults,
           UNCHANGED <<plugin, latest, folder, up, loaded, agreed>>
    PROVE  IInv'
  <1>0. pc # "idle" /\ picked \in 0..MaxRelease
    BY DEF IInv, TypeOK
  <1>1. Installed(b) \in Replies
    BY <1>0, ReplyTypes DEF Installed
  <1>2. /\ pc' \in {"idle", "start"}
        /\ ~queued' /\ queued' \in BOOLEAN
        /\ pc' = "start" => reply' = Answer("nothing")
        /\ pc' = "idle" => reply' = Installed(b) \/ reply' = Answer("lost")
        /\ reply' \in Replies
        /\ <<confirm, force, picked, waiting>>' = <<confirm, force, picked, waiting>>
    BY <1>0, <1>1, EmitEnds
  <1>3. TypeOK'
    BY <1>2 DEF IInv, TypeOK, Replies
  <1>4. RunInv'
    BY <1>2 DEF RunInv, Places
  <1>5. folder'.dir /\ folder'.rest = "whole" /\ folder'.uplugin = picked
    BY DEF IInv, RunInv
  <1>6. reply'.what = "installed" => reply' = Installed(b)
    BY <1>2 DEF Answer
  <1>7. InstalledMeansWhole'
    BY <1>5, <1>6 DEF InstalledMeansWhole, Installed
  <1>8. QED  BY <1>3, <1>4, <1>7 DEF IInv

-----------------------------------------------------------------------------
(* Its proof.                                                              *)

\* It holds before the first call.
LEMMA InvInit == Init => IInv
  <1> SUFFICES ASSUME Init PROVE IInv
    OBVIOUS
  <1>1. latest \in Releases
    BY InstallAssumption DEF Init, Releases
  <1>2. folder \in Folders
    BY InstallAssumption DEF Init, Folders, Empty, Absent, Unreadable
  <1>3. reply \in Replies
    BY ReplyTypes DEF Init
  <1>4. loaded \in 0..MaxRelease /\ picked \in 0..MaxRelease /\ agreed \in 0..MaxRelease
    BY InstallAssumption DEF Init, Absent
  <1>5. TypeOK
    <2>1. plugin \in Plugins /\ uproject = "without" /\ up = TRUE /\ pc = "idle"
          /\ confirm = FALSE /\ force = FALSE /\ waiting = 1 /\ queued = FALSE /\ faults = 0
      BY DEF Init
    <2>2. faults \in 0..MaxFaults
      BY <2>1, InstallAssumption
    <2>3. /\ pc \in {"idle", "start", "download", "remove", "copy", "mark", "enable", "dump"}
          /\ uproject \in {"without", "enabled", "broken"} /\ waiting \in 0..2
      BY <2>1
    <2>4. up \in BOOLEAN /\ confirm \in BOOLEAN /\ force \in BOOLEAN /\ queued \in BOOLEAN
      BY <2>1
    <2>5. QED  BY <1>1, <1>2, <1>3, <1>4, <2>1, <2>2, <2>3, <2>4, Zenon DEF TypeOK, Replies
  <1>6. RunInv /\ InstalledMeansWhole
    BY DEF Init, RunInv, InstalledMeansWhole, Places, Answer
  <1>7. QED  BY <1>5, <1>6 DEF IInv

\* What a step leaves of the folder is a folder.
LEMMA FolderTypes ==
    /\ Empty \in Folders
    /\ \A n \in Releases : Copied(n) \in Folders /\ Partial(n) \subseteq Folders
    /\ \A f \in Folders : Leftovers(f) \subseteq Folders
  <1>1. Empty \in Folders
    BY InstallAssumption DEF Empty, Folders, Absent, Unreadable
  <1>2. ASSUME NEW n \in Releases PROVE Copied(n) \in Folders
    BY InstallAssumption DEF Copied, Folders, Releases, Absent, Unreadable
  <1>3. ASSUME NEW n \in Releases PROVE Partial(n) \subseteq Folders
    <2>1. {Absent, Unreadable, n} \subseteq 0..Unreadable /\ Absent \in 0..MaxRelease
      BY InstallAssumption DEF Releases, Absent, Unreadable
    <2>2. QED  BY <2>1 DEF Partial, Folders
  <1>4. ASSUME NEW f \in Folders PROVE Leftovers(f) \subseteq Folders
    <2>1. {Absent, f.uplugin} \subseteq 0..Unreadable /\ {Absent, f.marker} \subseteq 0..MaxRelease
      BY InstallAssumption DEF Folders, Absent, Unreadable
    <2>2. QED  BY <2>1 DEF Leftovers, Folders
  <1>5. QED  BY <1>1, <1>2, <1>3, <1>4

\* A fault that is drawn stays within its bound.
LEMMA FaultTypes ==
    ASSUME TypeOK, NEW kind, Fault(kind)
    PROVE  faults' \in 0..MaxFaults
  BY InstallAssumption DEF TypeOK, Fault

\* The call begins with nothing agreed to be written.
LEMMA CallKeeps == ASSUME IInv, NEW c \in BOOLEAN, NEW f \in BOOLEAN, CallInstall(c, f)
                   PROVE  IInv'
  <1>1. reply' \in Replies /\ reply' = Answer("nothing")
    BY ReplyTypes DEF CallInstall
  <1>2. TypeOK'
    <2>1. /\ UNCHANGED <<plugin, latest, folder, uproject, up, loaded, agreed, faults>>
          /\ pc' = "start" /\ confirm' = c /\ force' = f /\ waiting' = 1 /\ queued' = FALSE
          /\ picked' = Absent
      BY DEF CallInstall, project
    <2>2. picked' \in 0..MaxRelease
      BY <2>1, InstallAssumption DEF Absent
    <2>3. /\ pc' \in {"idle", "start", "download", "remove", "copy", "mark", "enable", "dump"}
          /\ waiting' \in 0..2
      BY <2>1
    <2>4. confirm' \in BOOLEAN /\ force' \in BOOLEAN /\ queued' \in BOOLEAN
      BY <2>1
    <2>5. QED  BY <1>1, <2>1, <2>2, <2>3, <2>4, Zenon DEF IInv, TypeOK, Replies
  <1>3. RunInv' /\ InstalledMeansWhole'
    BY <1>1 DEF RunInv, InstalledMeansWhole, CallInstall, Places, Answer
  <1>4. QED  BY <1>2, <1>3 DEF IInv

LEMMA FetchFailsKeeps == ASSUME IInv, FetchFails PROVE IInv'
  <1>1. faults' \in 0..MaxFaults
    BY FaultTypes DEF IInv, FetchFails
  <1>2. Answer("error") \in Replies /\ Answer("error").what # "installed"
    BY ReplyTypes DEF Answer
  <1>3. latest' \in Releases /\ folder' \in Folders
    BY DEF IInv, TypeOK, FetchFails, project
  <1>4. QED  BY <1>1, <1>2, <1>3, EmitKeeps DEF FetchFails, project

LEMMA DecideKeeps == ASSUME IInv, Decide PROVE IInv'
  <1>1. /\ latest' \in Releases /\ folder' \in Folders /\ faults' \in 0..MaxFaults
        /\ pc = "start" /\ latest \in 0..MaxRelease
        /\ UNCHANGED <<plugin, latest, folder, uproject, up, loaded, agreed, faults>>
    BY DEF IInv, TypeOK, Decide, project, Releases
  <1>2. CASE Emit(Answer("upToDate"))
    <2>1. Answer("upToDate") \in Replies /\ Answer("upToDate").what # "installed"
      BY ReplyTypes DEF Answer
    <2>2. QED  BY <1>1, <1>2, <2>1, EmitKeeps
  <1>3. CASE Emit([Answer("needsConfirmation") EXCEPT !.release = latest])
    <2> DEFINE r == [Answer("needsConfirmation") EXCEPT !.release = latest]
    <2>1. r \in Replies /\ r.what # "installed"
      BY <1>1, ReplyTypes DEF Answer
    <2> HIDE DEF r
    <2>2. QED  BY <1>1, <1>3, <2>1, EmitKeeps DEF r
  <1>4. CASE /\ confirm
             /\ pc' = "download"
             /\ picked' = latest
             /\ UNCHANGED <<confirm, force, waiting, queued, reply>>
    <2>1. TypeOK'
      BY <1>1, <1>4 DEF IInv, TypeOK
    <2>2. RunInv' /\ InstalledMeansWhole'
      BY <1>1, <1>4 DEF IInv, RunInv, InstalledMeansWhole, Places, Answer
    <2>3. QED  BY <2>1, <2>2 DEF IInv
  <1>5. QED  BY <1>2, <1>3, <1>4 DEF Decide

LEMMA DownloadKeeps == ASSUME IInv, Download PROVE IInv'
  <1>1. /\ UNCHANGED <<plugin, latest, folder, uproject, up, loaded, agreed>>
        /\ pc = "download"
        /\ latest' \in Releases /\ folder' \in Folders
    BY DEF IInv, TypeOK, Download, project
  <1>2. CASE pc' = "remove" /\ UNCHANGED <<call, faults>>
    <2>1. TypeOK'
      BY <1>1, <1>2 DEF IInv, TypeOK, call
    <2>2. RunInv' /\ InstalledMeansWhole'
      BY <1>1, <1>2 DEF IInv, RunInv, InstalledMeansWhole, Places, call, Answer
    <2>3. QED  BY <2>1, <2>2 DEF IInv
  <1>3. CASE Fault("network") /\ Emit(Answer("error"))
    <2>1. Answer("error") \in Replies /\ Answer("error").what # "installed"
      BY ReplyTypes DEF Answer
    <2>2. faults' \in 0..MaxFaults
      BY <1>3, FaultTypes DEF IInv
    <2>3. QED  BY <1>1, <1>3, <2>1, <2>2, EmitKeeps
  <1>4. QED  BY <1>2, <1>3 DEF Download

LEMMA RemoveOldKeeps == ASSUME IInv, RemoveOld PROVE IInv'
  <1>1. folder' \in Folders
    BY FolderTypes DEF IInv, TypeOK, RemoveOld
  <1>2. faults' \in 0..MaxFaults
    BY FaultTypes DEF IInv, TypeOK, RemoveOld
  <1>3. TypeOK'
    BY <1>1, <1>2 DEF IInv, TypeOK, RemoveOld, call
  <1>4. RunInv' /\ InstalledMeansWhole'
    BY DEF IInv, RunInv, InstalledMeansWhole, RemoveOld, Places, call, Answer
  <1>5. QED  BY <1>3, <1>4 DEF IInv

LEMMA CopyTreeKeeps == ASSUME IInv, CopyTree PROVE IInv'
  <1>1. /\ UNCHANGED <<plugin, latest, uproject, up, loaded, agreed>>
        /\ pc = "copy" /\ picked \in Releases /\ latest' \in Releases
        /\ folder \in Folders /\ faults \in 0..MaxFaults
    BY DEF IInv, TypeOK, RunInv, CopyTree, Places
  <1>2. Answer("error") \in Replies /\ Answer("error").what # "installed"
    BY ReplyTypes DEF Answer
  <1>3. CASE Emit(Answer("error")) /\ UNCHANGED <<folder, faults>>
    BY <1>1, <1>2, <1>3, EmitKeeps
  <1>4. CASE /\ folder' = Copied(picked)
             /\ pc' = IF Marks THEN "mark" ELSE "enable"
             /\ UNCHANGED <<call, faults>>
    <2>1. folder' \in Folders
      BY <1>1, <1>4, FolderTypes
    <2>2. pc' \in {"mark", "enable"}
      BY <1>4
    <2>3. TypeOK'
      BY <1>1, <1>4, <2>1, <2>2 DEF IInv, TypeOK, call
    <2>4. folder'.dir /\ folder'.rest = "whole" /\ folder'.uplugin = picked
      BY <1>4 DEF Copied
    <2>5. RunInv' /\ InstalledMeansWhole'
      BY <1>1, <1>4, <2>2, <2>4 DEF IInv, RunInv, InstalledMeansWhole, Places, call, Answer
    <2>6. QED  BY <2>3, <2>5 DEF IInv
  <1>5. CASE /\ Fault("copy")
             /\ folder' \in Partial(picked)
             /\ Emit(Answer("error"))
    <2>1. folder' \in Folders
      BY <1>1, <1>5, FolderTypes
    <2>2. faults' \in 0..MaxFaults
      BY <1>5, FaultTypes DEF IInv
    <2>3. QED  BY <1>1, <1>2, <1>5, <2>1, <2>2, EmitKeeps
  <1>6. QED  BY <1>3, <1>4, <1>5 DEF CopyTree

LEMMA WriteMarkerKeeps == ASSUME IInv, WriteMarker PROVE IInv'
  <1>1. /\ UNCHANGED <<plugin, latest, uproject, up, loaded, call, agreed>>
        /\ pc = "mark" /\ pc' = "enable" /\ picked \in Releases /\ folder \in Folders
        /\ folder.dir /\ folder.rest = "whole" /\ folder.uplugin = picked
    BY DEF IInv, TypeOK, RunInv, WriteMarker, Places
  <1>2. faults' \in 0..MaxFaults
    BY FaultTypes DEF IInv, TypeOK, WriteMarker
  <1>3. /\ folder' \in Folders
        /\ folder'.dir /\ folder'.rest = "whole" /\ folder'.uplugin = picked
    BY <1>1 DEF WriteMarker, Folders, Releases
  <1>4. TypeOK'
    BY <1>1, <1>2, <1>3 DEF IInv, TypeOK, call
  <1>5. RunInv' /\ InstalledMeansWhole'
    BY <1>1, <1>3 DEF IInv, RunInv, InstalledMeansWhole, Places, call, Answer
  <1>6. QED  BY <1>4, <1>5 DEF IInv

LEMMA OpenUprojectKeeps == ASSUME IInv, OpenUproject PROVE IInv'
  <1>1. /\ UNCHANGED <<plugin, latest, folder, up, loaded, agreed>>
        /\ pc = "enable"
        /\ uproject \in {"without", "enabled", "broken"} /\ faults \in 0..MaxFaults
    BY DEF IInv, TypeOK, OpenUproject
  <1>2. CASE uproject' = "broken" /\ pc' = "dump" /\ UNCHANGED <<call, faults>>
    <2>1. TypeOK'
      BY <1>1, <1>2 DEF IInv, TypeOK, call
    <2>2. RunInv' /\ InstalledMeansWhole'
      BY <1>1, <1>2 DEF IInv, RunInv, InstalledMeansWhole, Places, call, Answer
    <2>3. QED  BY <2>1, <2>2 DEF IInv
  <1>3. CASE Emit(Installed(FALSE)) /\ UNCHANGED uproject /\ faults' \in 0..MaxFaults
    BY <1>1, <1>3, EmitInstalled
  <1>4. ASSUME Fault("uproject") PROVE faults' \in 0..MaxFaults
    BY <1>4, FaultTypes DEF IInv
  <1>5. QED  BY <1>1, <1>2, <1>3, <1>4 DEF OpenUproject

LEMMA DumpUprojectKeeps == ASSUME IInv, DumpUproject PROVE IInv'
  <1>1. /\ UNCHANGED <<plugin, latest, folder, up, loaded, agreed>>
        /\ pc = "dump"
        /\ uproject \in {"without", "enabled", "broken"} /\ faults \in 0..MaxFaults
    BY DEF IInv, TypeOK, DumpUproject
  <1>2. CASE uproject' = "enabled" /\ Emit(Installed(TRUE)) /\ UNCHANGED faults
    BY <1>1, <1>2, EmitInstalled
  <1>3. CASE Fault("disk") /\ Emit(Installed(FALSE)) /\ UNCHANGED uproject
    <2>1. faults' \in 0..MaxFaults
      BY <1>3, FaultTypes DEF IInv
    <2>2. QED  BY <1>1, <1>3, <2>1, EmitInstalled
  <1>4. QED  BY <1>2, <1>3 DEF DumpUproject

LEMMA TimeoutKeeps == ASSUME IInv, ClientTimesOut PROVE IInv'
  <1>1. TypeOK'
    BY DEF IInv, TypeOK, ClientTimesOut, project
  <1>2. RunInv' /\ InstalledMeansWhole'
    BY DEF IInv, RunInv, InstalledMeansWhole, ClientTimesOut, project, Places
  <1>3. QED  BY <1>1, <1>2 DEF IInv

LEMMA CrashKeeps == ASSUME IInv, Crash PROVE IInv'
  <1>1. faults' \in 0..MaxFaults
    BY FaultTypes DEF IInv, Crash
  <1>2. reply' \in Replies /\ (reply' = reply \/ reply' = Answer("lost"))
    BY ReplyTypes DEF IInv, TypeOK, Crash, Replies
  <1>3. TypeOK'
    <2>1. /\ UNCHANGED <<plugin, latest, folder, uproject, confirm, force, picked, waiting, agreed>>
          /\ up' = FALSE /\ pc' = "idle" /\ queued' = FALSE /\ loaded' = Absent
      BY DEF Crash, project
    <2>2. loaded' \in 0..MaxRelease
      BY <2>1, InstallAssumption DEF Absent
    <2>3. QED  BY <1>1, <1>2, <2>1, <2>2 DEF IInv, TypeOK, Replies
  <1>4. RunInv' /\ InstalledMeansWhole'
    BY <1>2 DEF IInv, RunInv, InstalledMeansWhole, Crash, project, Places, Answer
  <1>5. QED  BY <1>3, <1>4 DEF IInv

\* What happens around the recipe: releases, the user, the editor's life.
LEMMA AroundKeeps == ASSUME IInv, Publish \/ Agree \/ Quit \/ Start \/ RestoreUproject
                     PROVE  IInv'
  <1>1. UNCHANGED <<plugin, folder, pc, call, faults>>
    BY DEF Publish, Agree, Quit, Start, RestoreUproject, project
  <1>2. latest' \in Releases
    BY InstallAssumption DEF IInv, TypeOK, Publish, Agree, Quit, Start, RestoreUproject, Releases
  <1>3. loaded' \in 0..MaxRelease
    BY InstallAssumption
       DEF IInv, TypeOK, Publish, Agree, Quit, Start, RestoreUproject, Loads, Absent, Releases
  <1>4. uproject' \in {"without", "enabled", "broken"} /\ up' \in BOOLEAN
    BY DEF IInv, TypeOK, Publish, Agree, Quit, Start, RestoreUproject, project
  <1>5. agreed' \in 0..MaxRelease
    BY DEF IInv, TypeOK, Publish, Agree, Quit, Start, RestoreUproject
  <1>6. TypeOK'
    BY <1>1, <1>2, <1>3, <1>4, <1>5 DEF IInv, TypeOK, call
  <1>7. RunInv'
    BY <1>1 DEF IInv, RunInv, call
  <1>8. uproject' = uproject \/ uproject = "broken"
    BY DEF Publish, Agree, Quit, Start, RestoreUproject, project
  <1>9. InstalledMeansWhole'
    BY <1>1, <1>8 DEF IInv, InstalledMeansWhole, call
  <1>10. QED  BY <1>6, <1>7, <1>9 DEF IInv

\* Every step keeps it.
LEMMA InvNext == IInv /\ [Next]_vars => IInv'
  <1> SUFFICES ASSUME IInv, [Next]_vars PROVE IInv'
    OBVIOUS
  <1>1. CASE \E c, f \in BOOLEAN : CallInstall(c, f)
    BY <1>1, CallKeeps
  <1>2. CASE Recipe
    BY <1>2, FetchFailsKeeps, DecideKeeps, DownloadKeeps, RemoveOldKeeps, CopyTreeKeeps,
       WriteMarkerKeeps, OpenUprojectKeeps, DumpUprojectKeeps DEF Recipe
  <1>3. CASE ClientTimesOut
    BY <1>3, TimeoutKeeps
  <1>4. CASE Crash
    BY <1>4, CrashKeeps
  <1>5. CASE Publish \/ Agree \/ Quit \/ Start \/ RestoreUproject
    BY <1>5, AroundKeeps
  <1>6. CASE UNCHANGED vars
    BY <1>6 DEF vars, project, call, IInv, TypeOK, RunInv, InstalledMeansWhole
  <1>7. QED  BY <1>1, <1>2, <1>3, <1>4, <1>5, <1>6 DEF Next

\* It holds for ever.
LEMMA Invariance == Spec => []IInv
  BY InvInit, InvNext, PTL DEF Spec

-----------------------------------------------------------------------------
(* The theorems.                                                           *)

\* The variables keep their types, whatever fails.
THEOREM InstallTypeCorrect == Spec => []TypeOK
  <1>1. IInv => TypeOK
    BY DEF IInv
  <1>2. QED  BY <1>1, Invariance, PTL

\* An install that says so is whole, for any plugin, any faults and any number
\* of releases, the retry included (tool_registry.cpp:6936-7054, 7206-7348).
THEOREM InstalledIsWhole == Spec => []InstalledMeansWhole
  <1>1. IInv => InstalledMeansWhole
    BY DEF IInv
  <1>2. QED  BY <1>1, Invariance, PTL

\* No step touches folder or .uproject unless a recipe runs whose call was
\* confirmed - but for the user who repairs the .uproject.
THEOREM NothingIsWrittenUnasked == Spec => NothingWithoutConfirm
  <1>1. IInv /\ [Next]_vars =>
          [project' # project => (confirm /\ pc # "idle") \/ RestoreUproject]_vars
    <2> SUFFICES ASSUME IInv, Next, project' # project
                 PROVE  (confirm /\ pc # "idle") \/ RestoreUproject
      OBVIOUS
    <2>1. CASE RemoveOld \/ CopyTree \/ WriteMarker \/ OpenUproject \/ DumpUproject
      BY <2>1 DEF IInv, RunInv, Places, RemoveOld, CopyTree, WriteMarker, OpenUproject, DumpUproject
    <2>2. CASE RestoreUproject
      BY <2>2
    <2>3. ASSUME NEW c, NEW f, CallInstall(c, f) PROVE FALSE
      BY <2>3 DEF CallInstall
    <2>4. ASSUME FetchFails \/ Decide \/ Download PROVE FALSE
      BY <2>4 DEF FetchFails, Decide, Download
    <2>5. ASSUME ClientTimesOut \/ Publish \/ Agree \/ Crash \/ Quit \/ Start PROVE FALSE
      BY <2>5 DEF ClientTimesOut, Publish, Agree, Crash, Quit, Start
    <2>6. QED  BY <2>1, <2>2, <2>3, <2>4, <2>5 DEF Next, Recipe
  <1>2. QED  BY <1>1, Invariance, PTL DEF Spec, NothingWithoutConfirm

-----------------------------------------------------------------------------
(* The commit marker.                                                      *)

\* The folder is not taken for release n by a recipe that goes by the marker.
Stale(n) == folder.uplugin = Absent \/ folder.marker = Absent \/ folder.marker < n

\* The marker is no later than the newest release; a recipe gets to the removal
\* only if the folder is not of the release it picked, and what the removal
\* leaves is not either.
MarkerInv ==
    /\ plugin = "Figma2UMG" /\ ~force
    /\ folder.marker <= latest /\ picked <= latest
    /\ folder.rest # "whole" => Stale(latest)
    /\ pc \in {"download", "remove"} => Stale(picked)

\* The marker's part: every step keeps it.
LEMMA MarkerNext ==
    ASSUME ~MayForce, IInv, MarkerInv, [Next]_vars
    PROVE  MarkerInv'
  <1>0. /\ latest \in Nat /\ picked \in Nat /\ folder \in Folders /\ folder.marker \in Nat
        /\ folder.uplugin \in Nat
    BY InstallAssumption DEF IInv, TypeOK, Folders, Unreadable, Releases
  <1>1. CASE \E c, f \in BOOLEAN : CallInstall(c, f)
    BY <1>0, <1>1 DEF MarkerInv, Stale, CallInstall, project, Absent
  <1>2. CASE FetchFails
    BY <1>2 DEF MarkerInv, Stale, FetchFails, Emit, project
  <1>3. CASE Decide
    <2>1. /\ UNCHANGED <<plugin, latest, folder, force>>
          /\ \/ pc' \in {"idle", "start"} /\ picked' = picked
             \/ pc' = "download" /\ picked' = latest /\ ~up_to_date(latest)
      BY <1>3 DEF MarkerInv, Decide, Emit, project
    <2>2. ASSUME ~up_to_date(latest) PROVE Stale(latest)
      BY <1>0, <2>2 DEF MarkerInv, Stale, up_to_date, Marks, is_update, installed_version,
         installed_commit
    <2>3. QED  BY <1>0, <2>1, <2>2 DEF MarkerInv, Stale
  <1>4. CASE Download
    BY <1>4 DEF MarkerInv, Stale, Download, Emit, project, call
  <1>5. CASE RemoveOld
    <2>1. /\ UNCHANGED <<plugin, latest, force, picked>>
          /\ pc = "remove" /\ pc' = "copy"
          /\ folder' = Empty \/ folder' \in Leftovers(folder)
      BY <1>5 DEF RemoveOld, call
    <2>2. CASE folder' = Empty
      BY <1>0, <2>1, <2>2 DEF MarkerInv, Stale, Empty, Absent
    <2>3. CASE folder' \in Leftovers(folder)
      <3>1. /\ folder'.uplugin \in {Absent, folder.uplugin}
            /\ folder'.marker \in {Absent, folder.marker}
        BY <2>3 DEF Leftovers
      <3>2. Stale(picked) /\ picked <= latest
        BY <2>1 DEF MarkerInv
      <3>3. folder'.uplugin = Absent \/ folder'.marker = Absent \/ folder'.marker < latest
        BY <1>0, <3>1, <3>2 DEF Stale
      <3>4. QED  BY <1>0, <2>1, <3>1, <3>3 DEF MarkerInv, Stale, Absent
    <2>4. QED  BY <2>1, <2>2, <2>3
  <1>6. CASE CopyTree
    <2>1. /\ UNCHANGED <<plugin, latest, force, picked>>
          /\ pc' \notin {"download", "remove"}
          /\ folder' = folder \/ folder' = Copied(picked) \/ folder' \in Partial(picked)
      BY <1>6 DEF CopyTree, Emit, call
    <2>2. folder' = folder \/ folder'.marker = Absent
      <3>1. \A n : \A f \in Partial(n) : f.marker = Absent
        BY DEF Partial
      <3>2. Copied(picked).marker = Absent
        BY DEF Copied
      <3>3. QED  BY <2>1, <3>1, <3>2, Zenon
    <2>3. QED  BY <1>0, <2>1, <2>2 DEF MarkerInv, Stale, Absent
  <1>7. CASE WriteMarker
    <2>1. /\ UNCHANGED <<plugin, latest, force, picked>> /\ pc' = "enable"
          /\ folder' = folder \/ folder' = [folder EXCEPT !.marker = picked]
          /\ folder.rest = "whole"
      BY <1>7 DEF WriteMarker, call, IInv, RunInv
    <2>2. folder' = folder \/ (folder'.marker = picked /\ folder'.rest = "whole")
      BY <1>0, <2>1 DEF Folders
    <2>3. QED  BY <1>0, <2>1, <2>2 DEF MarkerInv, Stale
  <1>8. CASE OpenUproject \/ DumpUproject
    <2>1. /\ UNCHANGED <<plugin, latest, folder, force, picked>>
          /\ pc' \notin {"download", "remove"}
      BY <1>8 DEF OpenUproject, DumpUproject, Emit, call
    <2>2. QED  BY <2>1 DEF MarkerInv, Stale
  <1>9. CASE ClientTimesOut \/ Publish \/ Agree \/ Crash \/ Quit \/ Start \/ RestoreUproject
    <2>1. /\ UNCHANGED <<plugin, folder, force, picked>>
          /\ latest' \in Nat /\ latest' >= latest
          /\ pc' = pc \/ pc' = "idle"
      BY <1>0, <1>9
         DEF ClientTimesOut, Publish, Agree, Crash, Quit, Start, RestoreUproject, project, call
    <2>2. QED  BY <1>0, <2>1 DEF MarkerInv, Stale
  <1>10. CASE UNCHANGED vars
    BY <1>10 DEF vars, project, call, MarkerInv, Stale
  <1>11. QED
    BY <1>1, <1>2, <1>3, <1>4, <1>5, <1>6, <1>7, <1>8, <1>9, <1>10 DEF Next, Recipe

\* With the commit marker, and as long as nobody forces an install, a plugin
\* that is not all there never passes for up to date: for any faults, however
\* many, and any number of releases (tool_registry.cpp:7152-7204).
THEOREM BrokenFigmaIsNoticed ==
    ASSUME ~MayForce, Plugins = {"Figma2UMG"}
    PROVE  Spec => []BrokenIsNoticed
  <1>1. Init => MarkerInv
    BY InstallAssumption DEF Init, MarkerInv, Stale, Empty, Absent
  <1>2. IInv /\ MarkerInv /\ [Next]_vars => MarkerInv'
    BY MarkerNext
  <1>3. IInv /\ MarkerInv => BrokenIsNoticed
    <2> SUFFICES ASSUME IInv, MarkerInv, folder.rest # "whole", is_update
                 PROVE  update_available(latest)
      BY DEF BrokenIsNoticed
    <2>1. latest \in Nat /\ folder.marker \in Nat
      BY InstallAssumption DEF IInv, TypeOK, Folders, Releases
    <2>2. QED  BY <2>1 DEF MarkerInv, Stale, update_available, is_update, Marks,
                    installed_version, installed_commit
  <1>4. QED  BY <1>1, <1>2, <1>3, Invariance, PTL DEF Spec
=============================================================================
