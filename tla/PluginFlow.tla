----------------------------- MODULE PluginFlow -----------------------------
(***************************************************************************)
(* The flow that README.md prescribes for both converter plugins (454-458  *)
(* and 484-488), played by an agent against PluginInstall: ask the status; *)
(* if the plugin is not installed or an update exists, preview it, have    *)
(* the user agree and install it; restart the editor; convert.  What goes  *)
(* wrong sends the agent back to the status, after a restart.              *)
(***************************************************************************)
EXTENDS PluginInstall

VARIABLE stage   \* of the agent

flowVars == <<vars, stage>>

FlowInit == Init /\ stage = "status"

\* The status tool changes nothing.
Status ==
    /\ stage = "status" /\ up /\ pc = "idle"
    /\ stage' = IF ~is_update \/ update_available(latest) THEN "preview" ELSE "restart"
    /\ UNCHANGED vars

Preview ==
    /\ stage = "preview"
    /\ CallInstall(FALSE, FALSE)
    /\ stage' = "previewing"

\* Whatever is not a preview - an error, or nothing to do after all.
Previewed ==
    /\ stage = "previewing" /\ pc = "idle" /\ reply.what # "needsConfirmation"
    /\ stage' = "restart"
    /\ UNCHANGED vars

UserAgrees ==
    /\ stage = "previewing"
    /\ Agree
    /\ stage' = "install"

Install ==
    /\ stage = "install"
    /\ CallInstall(TRUE, FALSE)
    /\ stage' = "installing"

InstallReturns ==
    /\ stage = "installing" /\ pc = "idle"
    /\ stage' = "restart"
    /\ UNCHANGED vars

CloseEditor ==
    /\ stage = "restart"
    /\ Quit
    /\ stage' = "starting"

StartEditor ==
    /\ stage = "starting"
    /\ Start
    /\ stage' = "convert"

\* The conversion tools: a plugin that is not loaded is one to install
\* (needsInstall) or to restart for (needsRestart, needsCompile); a loaded one
\* converts (Pencil) or gets its settings filled in (Figma).
Convert ==
    /\ stage = "convert" /\ up
    /\ stage' = IF loaded # Absent /\ (Marks => is_update) THEN "converted"
                ELSE IF is_update THEN "restart again" ELSE "status"
    /\ UNCHANGED vars

\* needsRestart was the answer: restart, and ask for the status.
RestartAgain ==
    /\ stage = "restart again"
    /\ Quit
    /\ stage' = "start again"

StartAgain ==
    /\ stage = "start again"
    /\ Start
    /\ stage' = "status"

Converted == stage = "converted" /\ UNCHANGED flowVars

Agent ==
    \/ Status \/ Preview \/ Previewed \/ UserAgrees \/ Install \/ InstallReturns
    \/ CloseEditor \/ StartEditor
    \/ Convert \/ RestartAgain \/ StartAgain \/ Converted

\* Only an install takes longer than the read timeout, for its download.
Around ==
    /\ Recipe \/ (confirm /\ ClientTimesOut) \/ Publish
    /\ UNCHANGED stage

FlowNext == Agent \/ Around

\* The recipe runs on, and so does the agent.
FlowSpec ==
    /\ FlowInit /\ [][FlowNext]_flowVars
    /\ WF_flowVars(Agent)
    /\ WF_flowVars(Recipe /\ UNCHANGED stage)

\* The agent gets its conversion: when files and network stop failing and no
\* more releases appear, the answers of the tools lead it there.  For Pencil,
\* tool_registry.cpp:6861-6864 says so: the conversion tool's "needsInstall /
\* needsRestart payload" lets "the agent ... route to the install tool (and
\* then ask the editor to be restarted) before retrying".
FlowConverges == <>(stage = "converted")
=============================================================================
