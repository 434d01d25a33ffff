--------------------------- MODULE RecipeScripts ---------------------------
(***************************************************************************)
(* The disciplines of the scripts (RecipePrograms): what the order and the *)
(* kinds of its steps must be for a tool to keep its promises, whatever    *)
(* the editor does.  Which script breaks which of them is named by the     *)
(* exceptions of RecipeTools' properties.                                  *)
(***************************************************************************)
EXTENDS RecipeTools

Adding == {"add", "supply"}
Creating == {"new", "make", "ensure", "replace", "end"} \cup Adding
Changing == Creating \cup {"set"}

\* What a failure ends the script with.
Ending == {"error", "unsupported", "mute", "bare"}

\* What may fail although the editor does what it can.
Fallible(s) ==
    \/ s.op \in {"check", "find", "new", "got"}
    \/ s.op \in {"make", "replace"} /\ s.reuse # "always"

OwnerIn(r, obj) == IF obj \in DOMAIN r.parts THEN r.parts[obj] ELSE obj

IsScript(r) == Len(r.steps) \in Nat /\ DOMAIN r.steps = 1..Len(r.steps)

\* What "got" asks for cannot have been missed but by a fault.
Kept(r, j) ==
    \A i \in 1..(j - 1) : r.steps[i].obj = r.steps[j].obj =>
        r.steps[i].with = {} /\ ~Fallible(r.steps[i])

Refusing(r, j) ==
    /\ r.steps[j].fails \in Ending /\ Fallible(r.steps[j])
    /\ ~(r.steps[j].op = "got" /\ Kept(r, j))

\* What may refuse the call comes before what changes something.
Tidy(r) ==
    \A i, j \in DOMAIN r.steps : i < j /\ r.steps[i].op \in Changing => ~Refusing(r, j)

SaysSoFirst(r) ==
    \A i, j \in DOMAIN r.steps :
        i < j /\ r.steps[i].op \in Changing => r.steps[j].fails # "unsupported"

\* What is added has been emptied before: it was removed, or what it is part of is new.
Empties(r, s, obj) ==
    /\ s.when = {} /\ s.unless = {} /\ s.with = {}
    /\ \/ s.op = "end" /\ s.obj = obj
       \/ s.op \in {"new", "replace"} /\ s.fails \in Ending
          /\ obj \in DOMAIN r.parts /\ r.parts[obj] = s.obj /\ s.obj # obj

EmptiedBefore(r, j) ==
    \E i \in 1..(j - 1) :
        /\ Empties(r, r.steps[i], r.steps[j].obj)
        /\ \A k \in (i + 1)..(j - 1) :
              r.steps[k].obj = r.steps[j].obj => r.steps[k].op \notin Creating

OneEach(r) == \A j \in DOMAIN r.steps : r.steps[j].op \in Adding => EmptiedBefore(r, j)

AddsOnce(r) ==
    \A i, j \in DOMAIN r.steps :
        r.steps[i].op \in Adding /\ r.steps[j].op \in Adding /\ r.steps[i].obj = r.steps[j].obj =>
            i = j

\* Nothing that is there already ends it.
Repeatable(r) ==
    \A j \in DOMAIN r.steps : r.steps[j].fails \in Ending =>
        r.steps[j].op # "new" /\ (r.steps[j].op = "got" => Kept(r, j))

\* Only a save that fails, and a Feature that is not there, is passed over without
\* a word.
Outspoken(r) ==
    \A j \in DOMAIN r.steps : r.steps[j].fails = "silent" =>
        r.steps[j].op = "save" \/ r.steps[j].obj \in Features

\* What is saved is not changed after that.
SavedLast(r) ==
    \A i, j \in DOMAIN r.steps : r.steps[i].op = "save" =>
        /\ r.steps[i].with = {}
        /\ i < j /\ r.steps[j].op \in Changing \cup {"compile"} =>
               OwnerIn(r, r.steps[j].obj) # r.steps[i].obj

\* Whether it is there is no affair of the script.
Native(r, obj) ==
    /\ obj \notin DOMAIN r.parts
    /\ \A k \in DOMAIN r.steps : r.steps[k].obj = obj => r.steps[k].op \notin Creating

\* When step j has supplied something because there was no native one, some step says so.
Vouched(r, j) ==
    /\ Native(r, r.steps[j].reuse)
    /\ \E i \in DOMAIN r.steps :
          /\ r.steps[i].op = "find" /\ r.steps[i].obj = r.steps[j].reuse
          /\ r.steps[i].fails = "warns"
          /\ r.steps[i].when = {} /\ r.steps[i].unless = {} /\ r.steps[i].with = {}

\* A component that hangs under another is created by one step, and so is the other, by
\* an earlier step, without which it is passed over.
Attached(r) ==
    \A j \in DOMAIN r.steps : r.steps[j].under # "root" =>
        /\ r.steps[j].op \in Adding /\ r.steps[j].under \in r.steps[j].with
        /\ r.steps[j].op = "supply" => Vouched(r, j)
        /\ \A k \in DOMAIN r.steps :
              r.steps[k].obj = r.steps[j].obj /\ r.steps[k].op \in Creating => k = j
        /\ \E i \in 1..(j - 1) :
             /\ r.steps[i].obj = r.steps[j].under /\ r.steps[i].op = r.steps[j].op
             /\ r.steps[i].when \subseteq r.steps[j].when
             /\ r.steps[i].unless \subseteq r.steps[j].unless /\ r.steps[i].with = {}
             /\ \A k \in DOMAIN r.steps : k # i /\ r.steps[k].obj = r.steps[j].under =>
                   r.steps[k].op \notin Creating
                   /\ (k > i => r.steps[j].under \in r.steps[k].with)

WellWritten(t, r) ==
    /\ IsScript(r) /\ AddsOnce(r) /\ SavedLast(r) /\ Attached(r)
    /\ t \notin Untidy => Tidy(r)
    /\ t \notin LateUnsupported => SaysSoFirst(r)
    /\ t \notin Appenders => OneEach(r)
    /\ t \notin Creators => Repeatable(r)
    /\ t \notin Quiet => Outspoken(r)

-----------------------------------------------------------------------------
(* Sufficient for that, and true of all the scripts but a few: script r    *)
(* changes what it changes from step b on, saves from step l on, and adds  *)
(* something only in step a.                                               *)

\* What may refuse the call comes first.
Orderly(t, r, b) ==
    \A i \in DOMAIN r.steps : LET s == r.steps[i] IN
        /\ s.op \in Changing => i >= b
        /\ t \notin Untidy /\ s.fails \in Ending /\ Fallible(s) /\ s.op # "got" => i <= b
        /\ t \notin LateUnsupported /\ s.fails = "unsupported" => i <= b
        /\ t \notin Creators /\ s.fails \in Ending => s.op # "new"
        /\ t \notin Quiet /\ s.fails = "silent" => s.op = "save" \/ s.obj \in Features
        /\ s.op = "got" /\ (t \notin Untidy \/ t \notin Creators) => Kept(r, i)

SavesFrom(r, l) ==
    \A i \in DOMAIN r.steps :
        /\ r.steps[i].op = "save" => i >= l /\ r.steps[i].with = {}
        /\ i > l => r.steps[i].op \notin Changing \cup {"compile"}

Flat(r) == \A i \in DOMAIN r.steps : r.steps[i].under = "root"

AddsAt(t, r, a) ==
    \A i \in DOMAIN r.steps : r.steps[i].op \in Adding =>
        i = a /\ (t \in Appenders \/ EmptiedBefore(r, i))

Regular(t, r, b, l, a) ==
    IsScript(r) /\ Orderly(t, r, b) /\ SavesFrom(r, l) /\ Flat(r) /\ AddsAt(t, r, a)
=============================================================================
