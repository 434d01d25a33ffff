# ue-mcp-for-all-versions: specifications

TLA+ models of the MCP server that drives Unreal editors over RemoteControl,
the TLC runs that check them, and TLAPS proofs about each of the concurrent or failing parts. Line numbers are
those of the repository's sources: `rc_client.cpp` is `src/rc_client.cpp` there,
`rc_client.hpp` is `include/ue_mcp_for_all_versions/rc_client.hpp`, and so on.

## 1. The system

One process per MCP client, single-threaded. It reads JSON-RPC lines on stdin,
serves `tools/call` by sending HTTP requests to a RemoteControl server inside an
Unreal editor, and answers on stdout. The editor is another process that comes,
goes and hangs as it likes; of everything else only the two work on shared state:
files of the Unreal project (`--setup-project`, the plugin installers).

| Component | Source | State it keeps | Operations | Talks to |
|---|---|---|---|---|
| JSON-RPC loop | `mcp_server.cpp` | the current line and its answers | `run`, `handle_message`, `handle_tools_call` | MCP client, registry, tool registry |
| Tool registry | `tool_registry.cpp` | the list of tools, nothing per call | `invoke` and ~150 handlers | capability registry, HTTP client |
| Capability registry | `capability_registry.cpp` | `probed_`, `probed_generation_`, version, routes, capabilities | `probe`, `ensure_probed`, `has` | HTTP client |
| HTTP client | `rc_client.cpp` | `connected_`, the `httplib::Client`, port, `generation_`, `attempted_once_`, `last_attempt_` | `connect`, `ensure_connected`, `request`, `request_raw` | the editor |
| Recipe harness | `tool_registry.cpp:258-380` | none | build the script, find the result in the log, make the answer | the editor's Python |
| Recipes | `tool_registry.cpp:393-473, 1750-3041, 3633-3967, 4068-6840, 7435-8649` | none of their own: assets, components, actors, PIE in the editor | 50 tools that look up, create, change, compile and save | the editor's Python |
| Plugin installers | `tool_registry.cpp:6845-7423` | the plugin folder, the marker, the `.uproject` | status, install, convert | GitHub, the project |
| Project setup | `project_setup.cpp` | the project's files | `setup_unreal_project` | the project |
| Command line | `main.cpp` | options | connect, probe, serve | all |

What is hard here:

* **A retry over a connection nobody owns.** A lost answer says nothing about
  whether the request was executed; the client sends it once more; httplib
  reopens sockets behind the client's back, so the same connection may lead to
  another editor.
* **Cached knowledge.** Capabilities are asked of one editor and used for the
  next call, keyed by a generation that only counts the client's own connects.
* **Partial failure.** Handlers make several requests, installers and the setup
  change several files; each step may be the one that fails, and the answer has
  to be true of what is there.
* **Repetition.** A recipe runs to its end in the editor although nobody waits any
  longer, and is run again: it meets what it made itself, or half of it.
* **Text.** Versions, engine associations, `.ini` files, log output and base64
  are parsed by hand.

What makes each part correct is stated as the properties below; `PROJECT.json`
lists the hazards by line, with the properties that cover them.

## 2. The modules

```
RemoteCall  <-- refines --  RcClient
                               |
                               | one request = one action
                               v
CapabilityInference <-- McpSession        McpServer (loop)
   |    ^
   |    +------ ToolHandlers              PythonRecipe <-- RecipeTools --> RecipePrograms
   v
VersionText <-- ProjectSetup --> IniUpsert (one file)
PluginInstall <-- PluginFlow
```

* **RemoteCall** is what `request()` promises a handler: an execution count and
  an outcome per request, with no connection or retry in sight. **RcClient** is
  `rc_client.cpp` step by step: `pc` is the place in `ensure_connected` /
  `connect` / `request`; `inbox` and `wire` are the requests and replies under
  way, each tied to the socket it came on; `try` is the attempt. `throttled`
  stands for `steady_clock::now() - last_attempt_ < reconnect_throttle` and falls
  by an action of its own. Servers per port are down, up or hung. RcClient
  implements RemoteCall under the identity mapping on `outcome` and `executed`
  (`ImplementsRemoteCall`). `request_raw` has the same control as `request`.
* **VersionText** holds the two parsers of versions, over texts cut into numbers,
  dots and other characters: `parse_version` of what an editor reports and
  `parse_association` of a project's engine. **CapabilityInference** has `at_least`
  and `infer_from_version`.
* **McpSession** composes client, registry and server: a request is one action
  (`AnsweredBy`, `Unanswered`: every way `request()` can end, with the
  connection it leaves behind), the probe three of them, and editors start and
  stop between any two. `seen` records who answered which question over which
  generation - ghost knowledge; `Capable` is what the code has in `caps_`. An editor
  reports a text (`Profile[e].version`) and is of a release; `Supports` is what the
  release supports, `Capable` what was read out of the text.
* **McpServer** is `run`/`handle_message`: lines, batches, notifications,
  exceptions inside and outside the try block.
* **ToolHandlers** writes every handler that is not a Python recipe as the
  *program* of requests it runs (step, API, change, needed arguments), and four
  policies for what becomes of an answer: a chain that returns at the first
  failure, "ignore", "gather" (one request per optional argument) and "console"
  (with the world-context retry). `done` is what the editor really executed.
* **PythonRecipe** is the harness: log entries, the sentinel, JSON to the end of
  the line, `json::value`'s exceptions.
* **RecipePrograms** writes each recipe as the sequence of its effects: what it
  looks up or asks for (`Find`, `Check`), creates (`New`, `Make`, `Ensure`,
  `Replace`, `Add`), changes, compiles and saves, and what becomes of a step that
  fails (an error, "unsupported", a warning, nothing said, no answer at all, an
  answer without a text). The many ways in which a script tries to get at one
  effect are one step; where a step may fail in several ways it fails in the one
  that tells the caller least. `Supply` adds one more unless the script finds one in a
  place where its own additions are not (boom and camera are looked for on the class
  default object, 4908; a fog by the name the call gives, 8207). `Compiler` is
  the question whether the engine has `BlueprintEditorLibrary`: most scripts go on
  without a word where it has not (4285, 4893, 6451).
  **RecipeTools** runs them inside PythonRecipe: `count` is how
  many there are of each object, `parent` what components hang under, `unsaved`
  what was changed and not saved; `fresh`, `missed`, `undone`, `warned` and
  `marked` are what one execution made, did without, left out and said of it. Every
  call to the editor may raise; that a thing looked for is not there is a
  condition and not a fault. Any answer but "ok" may be followed by the same call
  once more, and the answer of an execution may be lost (`AnswerLost`).
* **PluginInstall** is the status, preview and install recipes of both converter
  plugins (`plugin`; `Marks` is Figma2UMG's commit marker), with every fault that an
  exception handler or `ignore_errors` in the recipe expects, crashes of the
  editor and the client's read timeout and retry. **PluginFlow** lets an agent
  play the flow the repository's README prescribes.
* **ProjectSetup** is a run over the files, each of which may not be readable, not
  be opened for writing, or be written short; **IniUpsert** is what happens inside
  one `.ini` file: each setting in turn goes over the lines, with an action for
  each kind of line (`VisitHeader`, `VisitKey`, `VisitOther`) and one for the end of
  the file, and the setup runs twice. ProjectSetup takes from it that a file holds
  a setting or not (proved: `LackingIsWritten`).

`MC*` modules give values to the constants, `*Proofs` modules prove theorems (section
4); **RecipeScripts** states the disciplines of the scripts that the proofs rest on.
Operators named "Mutant of ..." are not part
of a model; they are the plausible mistakes with which each property is shown to
be able to fail.

## 3. The runs

Passing runs (states are distinct states):

| Run | States | Bounds | Shows |
|---|---|---|---|
| RcClient | 640k | 3 requests (1 bad verb), 2 ports, 2 server changes | `AtMostTwice`, `HonestOutcome`, `ReplyMatches`, `LinkCoherent`, `GenerationCounts`, refinement of RemoteCall with its fairness, `EveryCallReturns`, `Reconnects` |
| McpSession | 119k | 2 editors on 2 ports, 3 tools, 2 losses | `OneEnginePerProbe`, `CapabilitiesCurrent` |
| McpServer | 52k | 2 lines, batches of 2, every kind of message | `AnswersEveryRequestOnce`, `ServesUntilEof` |
| ToolHandlers | 16k | all tools, 4 engines, 2 losses per call | `ErrorIsNotDone`, `NeverRepeated`, `OkIsDoneIfCandid`, `RefusalChangesNothing` |
| PluginInstall | 131k | both plugins, 3 releases, 2 faults of 8 kinds | `InstalledMeansWhole`, `NothingWithoutConfirm` |
| FigmaFlow | 3k | 2 releases, 2 faults of 5 kinds | `BrokenIsNoticed`, `FlowConverges` |
| ProjectSetup | 562k | 2 runs, 10 projects, 3 kinds of file faults, 1 edit or short write | `OkMeansConfigured`, `ReportIsExact`, `SecondRunChangesNothing`, `DryRunPredicts` |
| IniUpsert | 170k | every file of 4 lines of 8 kinds, 2 settings, 2 passes | `SettingsTakeEffect`, `OthersKept`, `SecondPassChangesNothing` |
| RecipeTools | 1.0M | 50 recipes and an importer, every editor with 0 or 1 of each object, 2 faults, 2 calls, 3 log entries that end their line or not | `ReplyIsLastEmit`, `OkIsTheWhole`, `UnsupportedChangedNothing`, `RetryAddsNothing`, `RepeatSucceeds`, `RefusalLeavesNothing` |

Why the bounds are enough: a request has two attempts, so two requests suffice
for a reply to be mistaken and two ports for a wrong one to be reached; each server
begins up or down, so that the second change is the first that can meet
what the client made of another one (the theorems about RcClient hold for any
number of changes and ports); a probe
has three questions, so two losses can separate all of them; two lines and
batches of two show an answer lost, repeated or moved; a second fault can only
meet the clean-up of the first; a section, a key and a foreign line in every
order fit into four lines of an `.ini` file; one fault of a recipe leaves a thing
half done and a second one meets it, and the second call is the first that can
find what a call left behind. The bounds on counters
(`MaxChanges`, `MaxLosses`, `MaxFaults`, `MaxRuns`, `MaxEdits`, `MaxLog`,
`MaxLines`, `MaxRelease`) stand in guards and name their purpose.

`CHECK_DEADLOCK FALSE` stands where the program ends: after the one
call of ToolHandlers, the process of McpServer, the two passes or runs of
IniUpsert and ProjectSetup, the last reply of RecipeTools.

Fairness. RcClient: the client's thread runs (weak fairness on its steps), the
throttle's time passes, and the MCP client goes on calling tools (weak fairness on
any call). Nothing is assumed of editors. McpServer: the loop runs and the client
closes its end some day. PluginFlow: the recipe on the game thread ends, the agent
goes on; nothing is assumed of faults, which are bounded in number ("when files and
network stop failing").

`FlowConverges` holds of Figma2UMG, whose marker is written last, without faults of the
`.uproject`.

`Quiet` (22 recipes), `LateUnsupported` (2), `Appenders` (13), `Creators` (5) and `Untidy`
(8) in RecipeTools are the recipes of which a property does not hold, exactly: TLC
finds a violation for each of them when it is taken off its list, and none for any
other. `Features` are the parts of an engine without which a recipe that
otherwise tells what it could not do goes on in silence.

### Where the code and what is said of it part

Three runs let TLC find the disagreement; `PROJECT.json` quotes the lines.

| Run | What happens |
|---|---|
| McpSessionRestart | an editor replaced on the same port is used with its predecessor's capabilities |
| PencilFlow | half a copy passes for the latest version for ever |
| ProjectSetupSource | the project of an engine built from source is associated by a GUID, and the setup takes the GUID's first digits for the engine's version |

For the last one: a GUID whose first number is 4 gets the settings of UE 4.25 on every
engine, one whose first number is 5 or more those of UE 5 on a UE 4 engine too
(`project_setup.cpp:116`, 450-490), with `ok` and without the warning of 513. One
whose first number is 0 to 3 gets all three files, as does an association without a
number. The passing run ProjectSetup and `SetupConfigures` speak of launcher versions
and of associations without a number, and no GUID is among them.

The others that turned up while the code was read are left out of the models'
properties, by the condition or the constant named here:

* A message that is no object, or whose method is no string, ends the process
  (`mcp_server.cpp:73` is outside the try block): `Malformed` in McpServer.
* `ue_set_actor_transform` and `ue_set_light_property` take a 200 with an
  errorMessage for success (3289); `ue_set_material_param` and
  `ue_focus_viewport_on_actor` answer "ok" when their first request gave nothing
  to go on with (3079, 3329): `StatusOnly` and `FirstStep` in ToolHandlers.
  The two batch tools pass their requests' answers on unread: `Batches`.
* `ue_set_material_param` has created a material instance when it refuses its
  arguments (3085): left out of `RefusalChangesNothing`.
* A session that calls only tools the last editor did not support is refused for
  ever once that editor is gone, no request being made that could fail, although
  the next tool call is said to refresh the capabilities (README 501-503). No
  property says when refusals end.
* While disconnected, gated tools are said to return a connection error (README
  507-508). Once a probe has been made, also one none of whose requests was
  answered, the code answers "unsupported" (`tool_registry.cpp:39`). No property
  claims either.
* The installers install the newest release, not the one that was confirmed; a
  Figma2UMG that could not be enabled once is never enabled later (FigmaFlow has
  no "uproject" fault); a forced reinstall that fails keeps the old marker
  (it runs without `force`).
* A write of the setup that falls short is a success: `disturbed`. A `.mcp.json` that
  this emptied is taken for `{}` and merged again by the next run, without the other
  servers it had; one of which half was written, and an
  emptied `.uproject`, do not parse and are refused (`WriteFallsShort`).
* The harness. Text behind the JSON on the sentinel's line loses the result, as
  the log's entries are joined as they are and all up to the next newline has to be
  JSON (331-338); the comment at 318-320 expects "extra log decoration" there.
  `ReplyIsLastEmit` is checked with entries that end their line and entries that do
  not, and asks for the result except in that case (`Overrun`). An "error" of None
  (7101, 7413) makes `json::value` throw in the making of the answer, where 349-350 says
  that failures are "diagnosable, never silent": `answer` has it, no property speaks of
  it. The traceback that 263-265 keeps out of the result is a field of it (305, 372-375);
  the fields of a failure are not modelled. One branch of
  `ue_create_widget_component_blueprint` emits nothing (6802), though 258-260 says
  every recipe does: `Mute`.
* Recipes that are silent (`Quiet`): setters in try/except or called only where the
  object has them (fog 8228, water 8348, materials 8444 and 8616, widgets 6396-6438 and
  6518-6591), a Boolean that is not looked at (`connect_material_property`, 3661), and
  parents, types and modes for which another is taken, as `ue_create_blueprint` makes an
  Actor where `parentClass` does not resolve (4089) and `ue_add_blueprint_component`
  attaches to the root where the parent is not found (7492). Of these
  `OkIsTheWhole` says that what was changed is saved, and, where no warning is given, that
  it hangs where it should. Without `BlueprintEditorLibrary` nothing is compiled and the
  answer does not tell (`Features`). `save_asset`'s answer is read by no recipe (`refused`).
* Recipes that add one more each time (`Appenders`), so that a lost answer leaves two:
  among them `ue_configure_third_person_camera`, which looks for boom and camera
  where those it has added are not (4908-4923), and `ue_set_fog_properties`, which
  spawns a fog each time its `fogPath` does not load (8204-8220).
* Recipes that refuse with changes made (`Untidy`): `ue_add_widget_to_panel` constructs the
  widget before it knows whether the parent takes it (6268-6285), PIE that was started
  for a test that finds no player is left running (5628). Two widget recipes say
  "unsupported" after the asset was created (`LateUnsupported`), and five cannot be
  repeated (`Creators`).

## 4. What is proved

Eight modules hold theorems, each about one module and for every value of its
constants: `RcClientProofs` (assumption `RcAssumption`), `McpSessionProofs`
(`SessionAssumption`), `McpServerProofs` (`McpAssumption`), `ToolHandlersProofs`
(`HandlersAssumption`), `RecipeToolsProofs` (`RecipeAssumption`, `ToolsAssumption`),
`PluginInstallProofs` (`InstallAssumption`), `ProjectSetupProofs` (`SetupAssumption`)
and `IniUpsertProofs` (`SettingsAssumption`). TLC evaluates the assumptions in the
runs that extend the modules. The type invariants of McpServer, PluginInstall and
ProjectSetup are proved and no run repeats them. Every safety and action property
of a passing run is stated by one of the theorems, some under a hypothesis that
is named with it.

**The client** (RcClientProofs)

* `TypeCorrect`, `LinkCorrect`: `TypeOK /\ CurInv /\ LinkInv` is inductive.
  `LinkCoherent` alone is not: that the retry's failed `connect()` leaves no
  stale HTTP client needs "while probing the client is not connected".
* `ExecutedAtMostTwice`, `OutcomesAreHonest`, `RepliesMatch`: the invariant adds
  `InboxInv` (a message is identified by request and attempt; only the one that
  is waited for has its socket open; none is of an attempt that was not sent),
  `WireInv` (at most one readable reply, to the current request, and then no
  other message has an open socket) and `CountInv` (executions so far and to
  come are paid for by attempts sent, `Sent(r)`, which is at most 2). Each is
  needed: without `WireInv` a second reply could follow the first, without the
  bound by `Sent` a retry could be counted twice.
* `GenerationIsExact` is an action property from `LinkInv`.
* `ClientKeepsPromise`: `Spec => ImplementsRemoteCall`. Every step of the client
  maps to a step of RemoteCall or a stutter; `CountInv` discharges `Execute`'s
  guard, the honesty of outcomes `Return`'s. Its liveness half is checked by the run
  only.

**The session** (McpSessionProofs)

* `ProbesUseOneConnection`, `ProbesAskOneEngine`, `CapabilitiesAreCurrent`: the
  inductive `Inv` adds that a connected client has a port, that editors listen
  on their own port, and `SeenInv`: an answer's generation lies between the
  probe's and the connection's, and an answer of the current generation came
  from the current port. The last two theorems assume that no two editors share
  a port - McpSessionRestart shows that this is needed.
* `LaterSupportsMore`: for every pair of versions, the later one has the
  capabilities of the earlier one, the other answers being the same.
* `ReleasesAreRead`: what `parse_version` makes of any text by which an editor
  reports its release is that release, whatever follows it; `CapabilitiesAreCurrent`
  rests on it, so that it speaks of the release and not of what was read.

**The loop** (McpServerProofs)

* `ServerTypeCorrect`, `EveryRequestIsAnsweredOnce`. The property is stated
  pointwise: `Due(l, j)` says that message j of line l asks for an answer (j = 0 for
  the parse error of a whole line), and what has been sent is complete
  (`AllAnswered`), of one line each with its messages in order (`AnswersAreWhole`),
  and nothing else (`OnlyDue`). A fold that flattens the lines would say the same
  and could not be proved. `ServerInv` adds `Handling`, that while a line is handled
  its answers so far name it, rise, and only earlier lines have been answered;
  `AnsweredSoFar` splits the property at the message that is next.

**The handlers** (ToolHandlersProofs)

* `HandlersTypeCorrect`, `HandlersNeverRepeat`, `ErrorsAreTrue` need of a program that it
  is `WellFormed` (no change in two steps but for the console commands, a chain
  that changes something ends with a change). `HandlersInv` adds `Ahead`, that
  nothing a later step will change has been done yet, and `FailedStep`, that a
  counted failure has a step behind it that was asked for and is not done.
  `ConcludeEffect` is what the four policies have in common: whatever they take
  for a failure was not executed.
* `OkCanBeBelieved` needs a `Candid` program (it looks at the body of every answer to
  a change, and is no chain of several requests with a change among them), which
  six tools have not: `StatusOnly`, `FirstStep` and `Batches` name them.
  `RefusalsAreClean` needs a `Cautious` one (no argument is looked at after a
  change), which all have but `ue_set_material_param`.
* `ProgramsAreDisciplined` is the lemma that the table of the code has these
  programs, one registration function of the source after the other; nothing
  else looks into the table.

**The recipes** (RecipeToolsProofs)

* `AnswerIsLastEmit`: about `ToolsSpec`, so in both executions of any recipe, for any
  importer and whatever is logged, with or without a newline behind it. `LogShows` relates the log to the last result:
  there is an entry with it and none with another after it, which is what
  `ScanFindsLast` needs to find it unless there is more on its line. That a script of
  this server's own emits once and logs nothing else (`OneEntry`) is what makes the other
  theorems independent of that case. Each step of a recipe is a step of the harness
  (`ToolsStepIsHarnessStep`), a repeated call starts with an empty log.
* `ScriptsAreWellWritten`: all fifty scripts of RecipePrograms keep the disciplines of
  RecipeScripts. What may refuse the call comes before what changes something
  (`Tidy`), "unsupported" is said first (`SaysSoFirst`), what is added was emptied
  before (`OneEach`) and is added by one step (`AddsOnce`), nothing that is there
  already ends the script (`Repeatable`), only a save and the lack of one of the
  `Features` are passed over silently (`Outspoken`), what
  is saved is not changed any more (`SavedLast`), what hangs under another comes
  after it and not without it, or a later step warns that it cannot be found
  (`Attached`, `Vouched`). The exceptions are the sets by which
  RecipeTools' properties name them, and no others. Most scripts are shown to be
  `Regular`, which has three numbers for witnesses; the rest one by one.
* From a discipline each, for a script of any length: `OkSaysTheWhole` (`Outspoken`,
  `SavedLast`, `Attached`), `UnsupportedIsSaidFirst` (`SaysSoFirst`), `RetryIsSafe`
  (`OneEach`, `AddsOnce`), `LeftoversDoNotBlock` (`Repeatable`), `RefusalIsClean` (`Tidy`);
  and `ToolsTypeCorrect`. They hold for any set of the tools, any importers and any
  number of faults. `ToolsInv` is the conjunction of what each needs: the script
  and its place in it (`CallOK`), why it ended (`EndOK`: a thing missing, a step that
  could not be done, or a fault of this execution), what was changed and missed by
  then (`Begun`, `MissedOK`), told (`Told`), saved (`SavesHold`), how many there are of each
  object, by executions and, where nothing failed, at all (`FewOfEach`, `OneOfEach`),
  and what hangs where (`FreshOK`, `HoldersKnown`, `HangsOK`; `SuppliedOK` and `FoundOK`
  where a component is supplied). Steps differ for these
  invariants in three ways only: the script goes by them (`GoesBy`), stops at them
  (`Stops`), or is not running (`Waits`).

**The installers** (PluginInstallProofs)

* `InstallTypeCorrect`, `InstalledIsWhole`, `NothingIsWrittenUnasked`: `RunInv` says what
  the folder holds at each step of the recipe (whole from the marker on), that
  only a confirmed call gets to the steps that write, and that a retried call
  starts without an answer.
* `BrokenFigmaIsNoticed`: for Figma2UMG, if nobody forces, `MarkerInv` says that a
  marker stands only in a whole folder. PencilFlow shows that without a marker it
  is false.

**The setup** (ProjectSetupProofs)

* `ReportCorrect`, `DryRunForetells`, `SetupIsIdempotent`, `SetupConfigures`: with `Missing`
  for the planned files that lacked something when the run began, `Reported` says
  that the report lies within `Missing` and lacks only what is still to do, `Written`
  that what is not to do any more has what is wanted, and `PriorForetells` carries
  both across the start of the next run: what that finds missing is what the dry
  run before it reported, or nothing. `SetupConfigures` is about
  associations that begin with their engine's version (`NamesItsEngine`) or hold no number
  (`HasNoNumber`). That these lead to the engine's file is proved (`EngineIsServed`), by
  what `parse_association` makes of a text of any length (`FirstNumber`); of GUIDs it is
  false, which ProjectSetupSource shows.

**The `.ini` files** (IniUpsertProofs)

* `SettingsAreSet`, `TheRestIsKept`, `SecondPassIsIdle`: for files of any lines and any
  list of settings that names no key of a section twice. The number of a line is
  of no use in an induction over a loop that inserts lines; so what the first n
  lines say about a setting is put into five predicates (one is `In` the section, has
  `Saw` it, there is `None` of its entries, the file `Has` it as it should be, and `Good`:
  no section of that name ended without it), and a lemma each says what one line more
  does to them. `SoFar` is the loop's invariant in these terms: what `in_section`,
  `saw_section` and `wrote_key` have to do with the lines read and the lines written,
  for the setting at hand and for the others, which keep what they had.
* `Kept` is that there is an order-preserving map from one text's foreign lines to
  the other's, onto them (`Match`); such maps compose, over the settings and both passes.
* `PassInv` adds up: the settings before the one at hand are `Settled`, while
  `changed` is false the lines are `Untouched`, and in a file where all settings are
  settled `changed` stays false, which makes the second pass idle.
* `LackingIsWritten`: a pass writes a file exactly if it lacks one of the settings,
  and afterwards it has all. That is what ProjectSetup assumes of a file
  (`FileIsUpToDate`, `ChangeFile`), so its theorems rest on the code's loop and not on
  a belief about it.

Only model-checked is what is temporal under fairness, which is beyond TLAPS's
reach: `Reconnects`, `EveryCallReturns`, `ImplementsRemoteCallFairly` (the liveness half
of the refinement), `ServesUntilEof` and `FlowConverges`. The composition
of an installer with an agent (PluginFlow) has no theorem of its own;
`BrokenFigmaIsNoticed` is about the installer under any caller that does not force.

## 5. What is not modelled

* What the Unreal API does once it is called: that `create_asset` returns None for
  an asset that is there, that a variable or a link cannot be there twice, that any
  call may raise, are assumptions of RecipePrograms about the editor. So are the
  sizes of a landscape, which are computed and answered but never applied (7902).
* The argument parser of `main()` (61-108), wording, JSON layout, image type sniffing,
  base64 (`base64_decode` has no caller in the C++).
* A last line of an `.ini` file that does not end: IniUpsert's files are whole lines.
* Overflow of the integers that the version parsers add up: a number is a token.
* Time: the throttle and the timeouts are events that may happen, so that how
  long a call waits is not a matter of the models.
* The file system's own concurrency: an editor writing the `.uproject` while the
  setup does, a source file that changes between its hash and its import.
  Temporary directories left behind by an exception.

## 6. The plan

Done, in this order: RcClient with RemoteCall and its proofs; McpSession with
CapabilityInference, VersionText and its proofs; McpServer; ToolHandlers;
PluginInstall and PluginFlow; ProjectSetup and IniUpsert; PythonRecipe with
RecipePrograms and RecipeTools; the proofs about McpServer, ToolHandlers,
PluginInstall and ProjectSetup; then those about the disciplines of handlers and
recipes (ToolHandlersProofs, RecipeScripts, RecipeToolsProofs) and about IniUpsert.

Next, by importance:

1. That RcClient's calls are what McpSession takes them for (`AnsweredBy`, `Unanswered`,
   `EnsureConnected`), proved as a refinement; it needs a history variable for who
   was reached over which connection.
2. The composition of RecipeTools with RcClient's retry, in place of the client
   that repeats a call (`CallsAgain` stands for both now).
3. A clock for the throttle (`rc_client.cpp:44`), which is counted from the start of
   a probe that may itself take longer than the throttle.
4. The argument parser of `main()`.
