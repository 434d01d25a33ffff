----------------------------- MODULE IniUpsert -----------------------------
(***************************************************************************)
(* upsert_ini_file (src/src/project_setup.cpp): bring settings into an     *)
(* Unreal .ini file that may be any shape a user has left it in - the      *)
(* section missing, last, or there twice, a key there twice, or spelt with *)
(* blanks.  Settings go in one after the other; the file is written back   *)
(* if one of them changed a line.                                          *)
(***************************************************************************)
EXTENDS Naturals, Sequences

CONSTANTS
    Words,       \* what stands for a name or a value
    Files,       \* the files the setup may find
    Settings     \* what goes in: a sequence of [section, key, value]

(***************************************************************************)
(* A line is [kind, name, value, plain]: a section's header, an entry, or  *)
(* text that is neither (a comment, a blank line).  Names are compared     *)
(* without case; `plain' is whether an entry is written exactly key=value. *)
(***************************************************************************)
TextLines == [kind : {"section", "entry", "text"}, name : Words, value : Words, plain : BOOLEAN]

Line(kind, name, value, plain) ==
    [kind |-> kind, name |-> name, value |-> value, plain |-> plain]
Header(s)   == Line("section", s, "none", TRUE)
Entry(k, v) == Line("entry", k, v, TRUE)
Spelt(k, v) == Line("entry", k, v, FALSE)
Comment     == Line("text", "comment", "none", TRUE)
Blank       == Line("text", "blank", "none", TRUE)

\* The lists of the setup name no key of a section twice (project_setup.cpp:
\* 286-325).
ASSUME SettingsAssumption ==
    /\ Files \subseteq Seq(TextLines)
    /\ {"comment", "blank", "none"} \subseteq Words
    /\ Settings \in Seq([section : Words, key : Words, value : Words])
    /\ Settings # <<>>
    /\ \A m, n \in DOMAIN Settings :
          Settings[m].section = Settings[n].section /\ Settings[m].key = Settings[n].key => m = n

VARIABLES
    file,        \* the lines of the file
    found,       \* what it was before the setup
    lines,       \* the lines in memory, as the setting at hand found them
    next,        \* that setting; 0 between passes
    changed,     \* some setting of this pass changed a line
    passes,      \* passes that have ended
    at,          \* the loop over the lines: which of `lines' is next,
    out,         \* what is in place of those before it,
    in_section, saw_section, wrote_key

loop == <<at, out, in_section, saw_section, wrote_key>>
vars == <<file, found, lines, next, changed, passes, loop>>

Init ==
    /\ file \in Files
    /\ found = file
    /\ lines = <<>>
    /\ next = 0
    /\ changed = FALSE
    /\ passes = 0
    /\ at = 1 /\ out = <<>>
    /\ in_section = FALSE /\ saw_section = FALSE /\ wrote_key = FALSE

-----------------------------------------------------------------------------
(* upsert_ini_value: one pass over the lines per setting.                  *)

Setting == Settings[next]
wanted  == Entry(Setting.key, Setting.value)

Visiting == next \in DOMAIN Settings /\ at \in DOMAIN lines

\* Mutant of IsTarget: a key of that name counts wherever it stands.
IsTargetAnywhere == lines[at].kind = "entry" /\ lines[at].name = Setting.key

IsTarget == in_section /\ lines[at].kind = "entry" /\ lines[at].name = Setting.key

\* Mutant of VisitHeader: nothing goes in where the section ends.
VisitHeaderOpenEnded ==
    /\ Visiting /\ lines[at].kind = "section"
    /\ out' = Append(out, lines[at])
    /\ in_section' = (lines[at].name = Setting.section)
    /\ saw_section' = (saw_section \/ in_section')
    /\ at' = at + 1
    /\ UNCHANGED <<file, found, lines, next, changed, passes, wrote_key>>

\* A section that ends without the key gets it before the next header.
VisitHeader ==
    LET closing == in_section /\ ~wrote_key
    IN  /\ Visiting /\ lines[at].kind = "section"
        /\ out' = Append(IF closing THEN Append(out, wanted) ELSE out, lines[at])
        /\ wrote_key' = (wrote_key \/ closing)
        /\ changed' = (changed \/ closing)
        /\ in_section' = (lines[at].name = Setting.section)
        /\ saw_section' = (saw_section \/ in_section')
        /\ at' = at + 1
        /\ UNCHANGED <<file, found, lines, next, passes>>

\* The first entry of the key becomes the wanted one, others are erased.
VisitKey ==
    /\ Visiting /\ IsTarget
    /\ out' = IF wrote_key THEN out ELSE Append(out, wanted)
    /\ wrote_key' = TRUE
    /\ changed' = (changed \/ wrote_key \/ lines[at] # wanted)
    /\ at' = at + 1
    /\ UNCHANGED <<file, found, lines, next, passes, in_section, saw_section>>

VisitOther ==
    /\ Visiting /\ lines[at].kind # "section" /\ ~IsTarget
    /\ out' = Append(out, lines[at])
    /\ at' = at + 1
    /\ UNCHANGED <<file, found, lines, next, changed, passes, in_section, saw_section,
                   wrote_key>>

\* Mutant of Missing: a section that is not the last is not seen.
MissingIfNotLast == ~in_section

Missing == ~saw_section

\* An empty line before a section that is added, unless there is one.
Apart == IF out # <<>> /\ out[Len(out)] # Blank THEN Append(out, Blank) ELSE out

\* The key at the end of the last section, or the section at the end of all.
EndOfLines ==
    /\ next \in DOMAIN Settings /\ at = Len(lines) + 1
    /\ lines' = IF in_section /\ ~wrote_key THEN Append(out, wanted)
                ELSE IF Missing
                THEN Append(Append(Apart, Header(Setting.section)), wanted)
                ELSE out
    /\ changed' = (changed \/ (in_section /\ ~wrote_key) \/ Missing)
    /\ next' = next + 1
    /\ at' = 1 /\ out' = <<>>
    /\ in_section' = FALSE /\ saw_section' = FALSE /\ wrote_key' = FALSE
    /\ UNCHANGED <<file, found, passes>>

-----------------------------------------------------------------------------
(* upsert_ini_file.                                                        *)

\* split_lines takes the end of the last line for the start of an empty one.
split_lines(text) == IF text = <<>> THEN <<>> ELSE Append(text, Blank)

ReadFile ==
    /\ next = 0 /\ passes < 2
    /\ lines' = split_lines(file)
    /\ next' = 1
    /\ changed' = FALSE
    /\ UNCHANGED <<file, found, passes, loop>>

\* join_lines ends every line; nothing is written if nothing changed.
WriteFile ==
    /\ next = Len(Settings) + 1
    /\ file' = IF changed THEN lines ELSE file
    /\ next' = 0
    /\ passes' = passes + 1
    /\ UNCHANGED <<found, lines, changed, loop>>

Next == ReadFile \/ VisitHeader \/ VisitKey \/ VisitOther \/ EndOfLines \/ WriteFile

Spec == Init /\ [][Next]_vars

-----------------------------------------------------------------------------
(* What a text says: the entries and comments, each with its section.      *)

\* Line k of a text is under a header of that name.
Under(text, k, name) ==
    \E j \in 1..k : /\ text[j].kind = "section" /\ text[j].name = name
                    /\ \A h \in (j + 1)..k : text[h].kind # "section"

\* An entry that the engine takes for the setting.
SettingAt(s, text, k) ==
    text[k].kind = "entry" /\ text[k].name = s.key /\ Under(text, k, s.section)

\* The first n lines that are none of the setup's business.
Others(text, n) ==
    {k \in 1..n : /\ text[k] # Blank
                  /\ text[k].kind # "section"
                  /\ \A m \in DOMAIN Settings : ~SettingAt(Settings[m], text, k)}

Names(text) == {text[k].name : k \in 1..Len(text)}

Written == next = 0 /\ passes > 0

\* Each setting is in its section exactly once and with its value: whatever
\* shape the file had, neither an old value nor a second one is read by the
\* engine.
SettingsTakeEffect ==
    Written => \A n \in DOMAIN Settings :
        LET s == Settings[n]
        IN  \E k \in 1..Len(file) :
                /\ file[k] = Entry(s.key, s.value)
                /\ \A j \in 1..Len(file) : SettingAt(s, file, j) <=> j = k

\* Everything else the user wrote is still there, in its section and order, and
\* nothing else is there but what was asked for.
OthersKept ==
    Written => \E to \in [Others(found, Len(found)) -> Others(file, Len(file))] :
        /\ \A l \in Others(file, Len(file)) : \E k \in DOMAIN to : to[k] = l
        /\ \A j, k \in DOMAIN to : j < k => to[j] < to[k]
        /\ \A k \in DOMAIN to :
              /\ file[to[k]] = found[k]
              /\ \A name \in Names(found) \cup Names(file) :
                    Under(found, k, name) <=> Under(file, to[k], name)

\* The second pass finds nothing to change (tests/test_main.cpp:493-497),
\* though the written file has a line more to read than was written.
SecondPassChangesNothing == passes = 2 => ~changed
=============================================================================
