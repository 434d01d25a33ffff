---------------------------- MODULE PythonRecipe ----------------------------
(***************************************************************************)
(* The harness of the Python recipes (tool_registry.cpp): a tool's script  *)
(* runs in the editor inside try/except, says its result with _emit, which *)
(* prints a sentinel and a line of JSON into the log that the editor sends *)
(* back, and run_python_recipe finds the result there and makes the tool's *)
(* answer of it.                                                           *)
(***************************************************************************)
EXTENDS Naturals, Sequences, SequencesExt

CONSTANTS
    Results,     \* the result dictionaries the recipes emit
    Newlines,    \* whether the entries of the log end in a newline
    MaxLog       \* bound: entries of the log

(***************************************************************************)
(* A result is [ok, error]: what its "ok" is (TRUE, FALSE, "absent", or    *)
(* not a Boolean at all) and its "error" ("text", "null" or "absent").     *)
(***************************************************************************)
Oks == {"true", "false", "absent", "notBoolean"}
Errors == {"text", "null", "absent"}
NoResult == [ok |-> "none", error |-> "none"]
Raised == [ok |-> "false", error |-> "text"]   \* what the except clause emits

ASSUME RecipeAssumption ==
    /\ Results \subseteq [ok : Oks, error : Errors]
    /\ Newlines \subseteq BOOLEAN /\ Newlines # {}
    /\ MaxLog \in Nat

VARIABLES
    log,         \* the entries: [result, newline]; NoResult is other output
    pc,          \* "body", "except", "ended" or "replied"
    emitted,     \* the last result that was emitted
    reply        \* [kind, error]

vars == <<log, pc, emitted, reply>>

TypeOK ==
    /\ log \in Seq([result : Results \cup {Raised, NoResult}, newline : BOOLEAN])
    /\ Len(log) <= MaxLog + 1
    /\ pc \in {"body", "except", "ended", "replied"}
    /\ emitted \in Results \cup {Raised, NoResult}
    /\ reply \in [kind : {"none", "ok", "error", "noResult", "transport", "thrown"},
                  error : {"none", "text", "recipe reported failure"}]

Init ==
    /\ log = <<>>
    /\ pc = "body"
    /\ emitted = NoResult
    /\ reply = [kind |-> "none", error |-> "none"]

-----------------------------------------------------------------------------
(* The script in the editor.                                               *)

Log(result, newline) == log' = Append(log, [result |-> result, newline |-> newline])

\* The recipe, or the editor on its behalf, logs something else.
LogsOutput(newline) ==
    /\ pc = "body" /\ Len(log) < MaxLog
    /\ Log(NoResult, newline)
    /\ UNCHANGED <<pc, emitted, reply>>

Emits(result, newline) ==
    /\ pc = "body" /\ Len(log) < MaxLog
    /\ Log(result, newline)
    /\ emitted' = result
    /\ UNCHANGED <<pc, reply>>

Raises ==
    /\ pc = "body"
    /\ pc' = "except"
    /\ UNCHANGED <<log, emitted, reply>>

EmitsTraceback(newline) ==
    /\ pc = "except"
    /\ Log(Raised, newline)
    /\ emitted' = Raised
    /\ pc' = "ended"
    /\ UNCHANGED reply

\* The body ends - or leaves by an exception that is no Exception (SystemExit).
Ends ==
    /\ pc = "body"
    /\ pc' = "ended"
    /\ UNCHANGED <<log, emitted, reply>>

-----------------------------------------------------------------------------
(* The answer.                                                             *)

\* Mutant of scan: the first sentinel counts.
scan_first(text) ==
    LET at == SelectInSeq(text, LAMBDA entry : entry.result # NoResult)
    IN  IF at = 0 THEN NoResult
        ELSE IF text[at].newline \/ at = Len(text) THEN text[at].result
        ELSE NoResult

\* The last sentinel of the entries joined together; what follows it up to the
\* next newline has to be JSON, all of it.
scan(text) ==
    LET at == SelectLastInSeq(text, LAMBDA entry : entry.result # NoResult)
    IN  IF at = 0 THEN NoResult
        ELSE IF text[at].newline \/ at = Len(text) THEN text[at].result
        ELSE NoResult

\* The editor puts the log into one of two fields of its response; some engines
\* use the second (tool_registry.cpp:341).
Channels == {"LogOutput", "CommandResult"}

extract_recipe_result(channel) ==
    IF channel = "LogOutput" /\ scan(log) # NoResult THEN scan(log)
    ELSE IF channel = "CommandResult" THEN scan(log)
    ELSE NoResult

\* json::value throws when the key is there with another type than the
\* default's: an "ok" that is no Boolean, an "error" that is null.
answer(result) ==
    CASE result = NoResult -> [kind |-> "noResult", error |-> "text"]
      [] result.ok = "true" -> [kind |-> "ok", error |-> "none"]
      [] result.ok \in {"false", "absent"} /\ result.error = "text" ->
            [kind |-> "error", error |-> "text"]
      [] result.ok \in {"false", "absent"} /\ result.error = "absent" ->
            [kind |-> "error", error |-> "recipe reported failure"]
      [] OTHER -> [kind |-> "thrown", error |-> "none"]

run_python_recipe ==
    /\ pc = "ended"
    /\ pc' = "replied"
    /\ \E channel \in Channels : reply' = answer(extract_recipe_result(channel))
    /\ UNCHANGED <<log, emitted>>

\* The request was refused or lost, whatever the script did.
TransportFails ==
    /\ pc # "replied"
    /\ pc' = "replied"
    /\ reply' = [kind |-> "transport", error |-> "text"]
    /\ UNCHANGED <<log, emitted>>

Next ==
    \/ \E newline \in Newlines :
          \/ LogsOutput(newline) \/ EmitsTraceback(newline)
          \/ \E result \in Results : Emits(result, newline)
    \/ Raises \/ Ends
    \/ run_python_recipe \/ TransportFails

Spec == Init /\ [][Next]_vars

-----------------------------------------------------------------------------
(* Properties.                                                             *)

Replied == pc = "replied" /\ reply.kind # "transport"

\* The last result's entry does not end in a newline and there is more output.
Overrun ==
    LET at == SelectLastInSeq(log, LAMBDA entry : entry.result # NoResult)
    IN  at # 0 /\ at < Len(log) /\ ~log[at].newline

\* The tool says "ok" exactly when the last result the script emitted says so,
\* and that it got no result only when the script emitted none - on either
\* channel, and whatever was emitted and logged before, and when the script
\* emitted a result and failed after that.  Output on the line of the last
\* result loses it: "ok" is then never said in error, and may fail to be said.
\* (tool_registry.cpp:318-320 expects to find the result all the same.)
ReplyIsLastEmit ==
    Replied =>
        /\ reply.kind = "ok" => emitted.ok = "true"
        /\ emitted = NoResult => reply.kind = "noResult"
        /\ emitted # NoResult /\ ~Overrun =>
               /\ emitted.ok = "true" => reply.kind = "ok"
               /\ reply.kind # "noResult"
=============================================================================
