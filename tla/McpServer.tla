------------------------------ MODULE McpServer ------------------------------
(***************************************************************************)
(* The JSON-RPC loop over stdio (src/src/mcp_server.cpp): lines are read,  *)
(* parsed and dispatched one at a time, an array is a batch whose answers  *)
(* leave together.  A message is abstracted to what handle_message tells   *)
(* apart; its id is its position, to see which answer belongs to which     *)
(* request.                                                                *)
(***************************************************************************)
EXTENDS Naturals, Sequences

CONSTANTS
    Kinds,       \* the kinds of messages that may arrive
    MaxLines,    \* bound: lines the client sends
    MaxBatch     \* bound: messages in a batch

(***************************************************************************)
(* What handle_message does with a message of a kind:                      *)
(*   call          a request with a known method: a result                 *)
(*   throwingCall  one whose handler throws (params of the wrong type, a   *)
(*                 JSON exception in a tool): an error, -32603             *)
(*   unknownMethod a request with an unknown method: an error, -32601      *)
(*   noMethod      an id without a method: an error, -32600                *)
(*   notification  no id, or id null: nothing                              *)
(*   notAnObject, badMethod   a number or string, a method that is not a   *)
(*                 string: reading "method" throws outside the try block   *)
(***************************************************************************)
Answering == {"call", "throwingCall", "unknownMethod", "noMethod"}
Silent    == {"notification"}

\* Mutant of Escaping: the dispatch has no try block.
EscapingUncaught == {"notAnObject", "badMethod", "throwingCall"}

Escaping == {"notAnObject", "badMethod"}

ASSUME McpAssumption ==
    /\ Kinds \subseteq Answering \cup Silent \cup Escaping
    /\ MaxLines \in Nat /\ MaxBatch \in Nat \ {0}

AnswerOf(kind) == CASE kind = "call"          -> "result"
                    [] kind = "throwingCall"  -> "-32603"
                    [] kind = "unknownMethod" -> "-32601"
                    [] kind = "noMethod"      -> "-32600"

\* A line is empty, no JSON, one message, or a batch; n is its number.
Lines == [form : {"empty", "garbage"}, msgs : {<<>>}]
         \cup [form : {"single"}, msgs : [1..1 -> Kinds]]
         \cup [form : {"batch"}, msgs : UNION {[1..k -> Kinds] : k \in 0..MaxBatch}]

VARIABLES
    sent,        \* the lines the client has written
    eof,         \* the client has closed its end
    read,        \* how many lines the loop has read
    at,          \* position in the current line's messages; 0 between lines
    responses,   \* the answers of the current line so far
    out,         \* what has been emitted: sequences of answers
    pc           \* "reading", "handling", "returned" or "terminated"

vars == <<sent, eof, read, at, responses, out, pc>>

\* An answer names the line and the message it is for.
Answers == [line : 1..MaxLines, msg : 0..MaxBatch,
            what : {"result", "-32603", "-32601", "-32600", "-32700"}]

TypeOK ==
    /\ sent \in Seq(Lines) /\ Len(sent) <= MaxLines
    /\ eof \in BOOLEAN
    /\ read \in 0..Len(sent)
    /\ at \in 0..(MaxBatch + 1)
    /\ responses \in Seq(Answers)
    /\ out \in Seq(Seq(Answers))
    /\ pc \in {"reading", "handling", "returned", "terminated"}

Init ==
    /\ sent = <<>> /\ eof = FALSE /\ read = 0 /\ at = 0
    /\ responses = <<>> /\ out = <<>> /\ pc = "reading"

Line == sent[read]

ClientWrites(line) ==
    /\ ~eof /\ Len(sent) < MaxLines
    /\ sent' = Append(sent, line)
    /\ UNCHANGED <<eof, read, at, responses, out, pc>>

ClientCloses ==
    /\ ~eof /\ eof' = TRUE
    /\ UNCHANGED <<sent, read, at, responses, out, pc>>

\* getline() returns a line: skip it, refuse it, or start on its messages.
ReadLine ==
    /\ pc = "reading" /\ read < Len(sent)
    /\ read' = read + 1
    /\ LET line == sent[read + 1] IN
         CASE line.form = "empty"   -> UNCHANGED <<at, responses, out, pc>>
           [] line.form = "garbage" ->
                /\ out' = Append(out, <<[line |-> read + 1, msg |-> 0, what |-> "-32700"]>>)
                /\ UNCHANGED <<at, responses, pc>>
           [] OTHER ->
                at' = 1 /\ responses' = <<>> /\ pc' = "handling" /\ UNCHANGED out
    /\ UNCHANGED <<sent, eof>>

EndOfInput ==
    /\ pc = "reading" /\ read = Len(sent) /\ eof
    /\ pc' = "returned"
    /\ UNCHANGED <<sent, eof, read, at, responses, out>>

\* handle_message() on the next message of the line.
HandleMessage ==
    /\ pc = "handling" /\ at <= Len(Line.msgs)
    /\ LET kind == Line.msgs[at] IN
         /\ kind \notin Escaping
         /\ responses' = IF kind \in Silent THEN responses
                         ELSE Append(responses, [line |-> read, msg |-> at,
                                                 what |-> AnswerOf(kind)])
    /\ at' = at + 1
    /\ UNCHANGED <<sent, eof, read, out, pc>>

\* An exception leaves handle_message(), run() and main(): the process ends.
HandleMessageThrows ==
    /\ pc = "handling" /\ at <= Len(Line.msgs)
    /\ Line.msgs[at] \in Escaping
    /\ pc' = "terminated"
    /\ UNCHANGED <<sent, eof, read, at, responses, out>>

\* Mutant of Emit: a line of notifications is answered with an empty batch.
EmitAlways ==
    /\ pc = "handling" /\ at > Len(Line.msgs)
    /\ out' = Append(out, responses)
    /\ at' = 0 /\ responses' = <<>> /\ pc' = "reading"
    /\ UNCHANGED <<sent, eof, read>>

\* The line is done: its answers, if any, leave as one line.
Emit ==
    /\ pc = "handling" /\ at > Len(Line.msgs)
    /\ out' = IF responses = <<>> THEN out ELSE Append(out, responses)
    /\ at' = 0 /\ responses' = <<>> /\ pc' = "reading"
    /\ UNCHANGED <<sent, eof, read>>

ServerStep == ReadLine \/ EndOfInput \/ HandleMessage \/ HandleMessageThrows \/ Emit

Next ==
    \/ \E line \in Lines : ClientWrites(line)
    \/ ClientCloses
    \/ ServerStep

Spec == Init /\ [][Next]_vars
FairSpec == Spec /\ WF_vars(ServerStep) /\ WF_vars(ClientCloses)

-----------------------------------------------------------------------------
(* Properties.                                                             *)

\* Message j of line n asks for an answer; so does a line that is no JSON, which
\* has no messages.
Due(n, j) ==
    \/ sent[n].form = "garbage" /\ j = 0
    \/ j \in 1..Len(sent[n].msgs) /\ sent[n].msgs[j] \in Answering

Answered(n, j) ==
    \E k \in 1..Len(out) : \E i \in 1..Len(out[k]) : out[k][i].line = n /\ out[k][i].msg = j

\* All that the first n lines ask for is answered.
AllAnswered(n) == \A l \in 1..n : \A j \in 0..MaxBatch : Due(l, j) => Answered(l, j)

\* What leaves as one line answers one line, its messages in their order, and the
\* lines are answered in theirs: nothing is answered twice.
AnswersAreWhole ==
    \A k \in 1..Len(out) :
        /\ out[k] # <<>>
        /\ \A a, b \in 1..Len(out[k]) :
              /\ out[k][a].line = out[k][b].line
              /\ a < b => out[k][a].msg < out[k][b].msg
        /\ k > 1 => out[k - 1][1].line < out[k][1].line

\* What is answered was asked, in a line that has been read.
OnlyDue ==
    \A k \in 1..Len(out) : \A i \in 1..Len(out[k]) :
        out[k][i].line \in 1..read /\ Due(out[k][i].line, out[k][i].msg)

\* Every request read so far is answered once and in order, a notification
\* never, and no line's answers are split or mixed with another's.
AnswersEveryRequestOnce ==
    /\ pc = "reading" => AllAnswered(read)
    /\ OnlyDue
    /\ AnswersAreWhole

\* A message that is a number or a string, or whose method is no string.
Malformed ==
    \E k \in 1..Len(sent) : \E j \in 1..Len(sent[k].msgs) :
        sent[k].msgs[j] \notin Answering \cup Silent

\* Whatever the requests make of the handlers, and whatever lines are no JSON,
\* the loop goes on until the client closes its end (mcp_server.hpp:24), and has
\* by then answered all it was asked - unless a malformed message ends it.
ServesUntilEof == <>(Malformed \/ (pc = "returned" /\ AllAnswered(Len(sent))))
=============================================================================
