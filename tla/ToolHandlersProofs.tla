------------------------- MODULE ToolHandlersProofs -------------------------
(***************************************************************************)
(* For every tool, any engines and any number of lost attempts: what the   *)
(* handlers' policies make of the answers.  The programs are only looked   *)
(* at in ProgramsAreDisciplined; everything else is proved of any program  *)
(* with the disciplines that are stated first.                             *)
(***************************************************************************)
EXTENDS ToolHandlers, TLAPS

\* What the programs have in common: none makes the same change in two steps,
\* but for the console commands; a chain that changes something ends with a
\* change; gathered steps all change something.
Gathering(h) == h.policy \in {"gatherBodies", "gatherStatuses"}

WellFormed(h) ==
    LET s == h.steps
    IN  /\ Len(s) \in Nat /\ DOMAIN s = 1..Len(s)
        /\ h.policy \in {"chain", "ignore", "console"} \/ Gathering(h)
        /\ h.policy # "console" =>
              \A j, k \in DOMAIN s : s[j].change = s[k].change => j = k \/ s[j].change = none
        /\ h.policy = "console" => Len(s) = 3 /\ s[2].change = none /\ s[1].change = s[3].change
        /\ h.policy = "chain" => \A j \in DOMAIN s : s[j].change # none => s[Len(s)].change # none
        /\ Gathering(h) => \A j \in DOMAIN s : s[j].change # none

\* A handler whose ok can be believed: it looks at the body of every answer to a
\* change, and a chain of several requests, or one that ignores what fails,
\* changes nothing.
Candid(h) ==
    LET s == h.steps
        ReadsOnly == \A j \in DOMAIN s : s[j].change = none
    IN  /\ h.policy # "gatherStatuses"
        /\ \A j \in DOMAIN s : s[j].change # none => s[j].via # "batch"
        /\ h.policy = "chain" => Len(s) = 1 \/ ReadsOnly
        /\ h.policy = "ignore" => ReadsOnly

\* A handler that has looked at all its arguments before its first change;
\* gathered steps go to one object each.
Cautious(h) ==
    LET s == h.steps
    IN  /\ ~Gathering(h) => \A i, j \in DOMAIN s : i < j /\ s[i].change # none => s[j].args = {}
        /\ Gathering(h) => \A j \in DOMAIN s : s[j].via # "dual"

\* What is expected of the handler of a tool.
Disciplined(t, h) ==
    /\ WellFormed(h)
    /\ t \notin StatusOnly \cup FirstStep \cup Batches => Candid(h)
    /\ t # "ue_set_material_param" => Cautious(h)

\* The answers from_rc makes an error of.
Failing(k) == ~ok(k) \/ body_error(k)

\* What is still ahead has not been done yet.
Ahead ==
    reply \in {"ready", "none"} =>
        \A j \in DOMAIN Steps :
            j >= step /\ Steps[j].change # none => done[Steps[j].change] = 0

\* A gathering handler that counts a failure has a step behind it that was asked
\* for and is not done.
FailedStep ==
    failed => /\ Gathers
              /\ \E j \in DOMAIN Steps :
                    /\ j < step /\ Steps[j].args \subseteq given
                    /\ Steps[j].change # none /\ done[Steps[j].change] = 0

HandlersInv ==
    /\ TypeOK /\ WellFormed(handler)
    /\ Failing(modern) /\ Failing(saved)
    /\ reply = "ready" =>
          ~failed /\ step = 1 /\ applied = {} /\ \A c \in Changes : done[c] = 0
    /\ losses = 0 => NeverRepeated /\ Ahead /\ FailedStep
    /\ ErrorIsNotDone

-----------------------------------------------------------------------------
(* One request.                                                            *)

\* The policies of a well-formed program, spelt out.
LEMMA Programs ==
    ASSUME WellFormed(handler)
    PROVE  /\ Len(Steps) \in Nat /\ DOMAIN Steps = 1..Len(Steps)
           /\ Policy \in {"chain", "ignore", "console"} \/ Gathers
           /\ Policy # "console" =>
                 \A j, k \in DOMAIN Steps :
                     Steps[j].change = Steps[k].change => j = k \/ Steps[j].change = none
           /\ Policy = "console" =>
                 Len(Steps) = 3 /\ Steps[2].change = none /\ Steps[1].change = Steps[3].change
           /\ Policy = "chain" =>
                 \A j \in DOMAIN Steps :
                     Steps[j].change # none => Steps[Len(Steps)].change # none
           /\ Gathers => \A j \in DOMAIN Steps : Steps[j].change # none
  BY DEF WellFormed, Gathering, Steps, Policy, Gathers

\* A request that comes back failing has executed nothing, unless one of its
\* attempts was lost.
LEMMA FailingExecutesNothing ==
    ASSUME NEW k \in Answers, NEW via, NEW n \in Executions(via, k, FALSE), Failing(k)
    PROVE  n = 0
  <1>1. k \notin {"value", "empty"}
    BY DEF Failing, ok, body_error
  <1>2. Executions(via, k, FALSE) \subseteq {0}
    <2>1. CASE k = "lost"
      BY <2>1 DEF Executions
    <2>2. CASE k # "lost"
      <3>1. Executions(via, k, FALSE) = 0..(1 - 1)
        BY <1>1, <2>2 DEF Executions
      <3>2. 0..(1 - 1) = {0}
        OBVIOUS
      <3>3. QED  BY <3>1, <3>2
    <2>3. QED  BY <2>1, <2>2
  <1>3. QED  BY <1>2

\* A request that succeeds was executed; of a batch nobody can tell.
LEMMA SuccessIsExecuted ==
    ASSUME NEW k \in {"value", "empty"}, NEW via, via # "batch", NEW loss,
           NEW n \in Executions(via, k, loss)
    PROVE  n >= 1
  <1>1. Executions(via, k, loss) = 1..(IF loss THEN 2 ELSE 1)
    BY DEF Executions
  <1>2. QED  BY <1>1

\* What a handler goes by when a request has come back with k.
Best(k) == IF modern = none \/ (ok(k) /\ ~should_try_fallback(k)) THEN k ELSE modern

\* The handler asks the other object, goes on to the next step or replies; what
\* it takes for a failure was not executed, what it takes for a success was.
Asks(k) ==
    /\ Failing(k) /\ Current.via = "dual"
    /\ modern' = k
    /\ UNCHANGED <<step, saved, applied, failed, reply>>

GoesOn(none_executed, executed) ==
    /\ step' = step + 1 /\ modern' = none /\ reply' = reply
    /\ saved' \in Answers \cup {none} /\ Failing(saved')
    /\ Policy = "console" => step = 2 \/ (step = 1 /\ none_executed)
    /\ Policy = "chain" => step # Len(Steps)
    /\ \/ applied' = applied
       \/ /\ Gathers /\ applied' = applied \cup {Current.change}
          /\ Policy = "gatherBodies" => executed
    /\ failed' = failed \/ (Gathers /\ failed' = TRUE /\ none_executed)
    /\ Gathers => failed' \/ (Current.change \in applied' /\ (Policy = "gatherBodies" => executed))

Replies(none_executed, executed) ==
    /\ reply' \in {"ok", "error"}
    /\ UNCHANGED <<step, modern, saved, applied, failed>>
    /\ Policy \in {"chain", "console"}
    /\ reply' = "error" => (Policy = "console" /\ step = 2) \/ none_executed
    /\ reply' = "ok" => executed /\ (Policy = "console" => step # 2)

\* Every policy does one of these.
LEMMA ConcludeEffect ==
    ASSUME HandlersInv, AtStep, NEW x \in Answers, NEW none_executed \in BOOLEAN,
           NEW executed \in BOOLEAN, Failing(x) => none_executed, executed \/ Failing(x),
           Conclude(x)
    PROVE  GoesOn(none_executed, executed) \/ Replies(none_executed, executed)
  <1>1. /\ Policy \in {"chain", "ignore", "console"} \/ Gathers
        /\ Policy = "console" => Len(Steps) = 3
        /\ step \in 1..Len(Steps) /\ Len(Steps) \in Nat
        /\ saved \in Answers \cup {none} /\ Failing(saved)
    BY Programs DEF HandlersInv, TypeOK, AtStep
  <1>2. \A k : \/ from_rc(k) = "ok" /\ ~Failing(k)
               \/ from_rc(k) = "error" /\ Failing(k)
    BY DEF from_rc, Failing
  <1>3. CASE Policy = "chain"
    <2>1. ConcludeChain(x)
      BY <1>3 DEF Conclude, Gathers
    <2>2. QED  BY <1>2, <1>3, <2>1, <1>1 DEF ConcludeChain, Reply, NextStep, GoesOn, Replies, Gathers, HandlersInv
  <1>4. CASE Policy = "ignore"
    <2>1. ConcludeIgnore(x)
      BY <1>4 DEF Conclude, Gathers
    <2>2. QED  BY <1>1, <1>4, <2>1 DEF ConcludeIgnore, NextStep, GoesOn, Gathers
  <1>5. CASE Policy = "console"
    <2>1. ConcludeConsole(x)
      BY <1>5 DEF Conclude, Gathers
    <2>2. step \in {1, 2, 3}
      <3>1. step \in 1..3
        BY <1>1, <1>5
      <3>2. QED  BY <3>1
    <2>3. CASE step = 1
      <3>1. \/ Reply(from_rc(x)) /\ ~Failing(x) /\ UNCHANGED <<saved, applied, failed>>
            \/ NextStep /\ Failing(x) /\ saved' = x /\ UNCHANGED <<applied, failed>>
        BY <2>1, <2>3 DEF ConcludeConsole, Failing
      <3>2. CASE Reply(from_rc(x)) /\ ~Failing(x) /\ UNCHANGED <<saved, applied, failed>>
        BY <1>2, <1>5, <2>3, <3>2 DEF Reply, Replies
      <3>3. CASE NextStep /\ Failing(x) /\ saved' = x /\ UNCHANGED <<applied, failed>>
        BY <1>1, <1>5, <2>3, <3>3 DEF NextStep, GoesOn, Gathers
      <3>4. QED  BY <3>1, <3>2, <3>3
    <2>4. CASE step = 2
      <3>1. \/ NextStep /\ UNCHANGED <<saved, applied, failed>>
            \/ Reply(from_rc(saved)) /\ UNCHANGED <<saved, applied, failed>>
        BY <2>1, <2>4 DEF ConcludeConsole
      <3>2. CASE Reply(from_rc(saved)) /\ UNCHANGED <<saved, applied, failed>>
        BY <1>1, <1>2, <1>5, <2>4, <3>2 DEF Reply, Replies
      <3>3. CASE NextStep /\ UNCHANGED <<saved, applied, failed>>
        BY <1>1, <1>5, <2>4, <3>3 DEF NextStep, GoesOn, Gathers
      <3>4. QED  BY <3>1, <3>2, <3>3
    <2>5. CASE step = 3
      <3>1. /\ Reply(from_rc(IF ok(x) THEN x ELSE saved))
            /\ UNCHANGED <<saved, applied, failed>>
        BY <2>1, <2>5 DEF ConcludeConsole
      <3>2. from_rc(IF ok(x) THEN x ELSE saved) = from_rc(x)
        <4>1. CASE ok(x)
          BY <4>1
        <4>2. CASE ~ok(x)
          BY <1>1, <1>2, <4>2 DEF Failing
        <4>3. QED  BY <4>1, <4>2
      <3>3. QED  BY <1>2, <1>5, <2>5, <3>1, <3>2 DEF Reply, Replies
    <2>6. QED  BY <2>2, <2>3, <2>4, <2>5
  <1>6. CASE Gathers
    <2>1. ConcludeGather(x)
      BY <1>6 DEF Conclude, Gathers
    <2>2. /\ failed' = failed \/ (failed' = TRUE /\ Failing(x))
          /\ applied' = applied \/ applied' = applied \cup {Current.change}
          /\ NextStep /\ saved' = saved
      BY <2>1 DEF ConcludeGather, Failing, HandlersInv, TypeOK
    <2>3. Policy # "console" /\ Policy # "chain"
      BY <1>6 DEF Gathers
    <2>4. failed' \/ Current.change \in applied'
      BY <2>1 DEF ConcludeGather, HandlersInv, TypeOK
    <2>5. Policy = "gatherBodies" => \/ Failing(x) /\ applied' = applied /\ failed'
                                    \/ ~Failing(x)
      BY <2>1 DEF ConcludeGather, Failing
    <2>6. QED  BY <1>1, <1>6, <2>2, <2>3, <2>4, <2>5 DEF NextStep, GoesOn
  <1>7. QED  BY <1>1, <1>3, <1>4, <1>5, <1>6

\* And so does a request.
LEMMA RequestEffect ==
    ASSUME HandlersInv, NEW k \in Answers, NEW loss \in BOOLEAN, NEW n \in 0..2,
           Request(k, loss, n)
    PROVE  LET none_executed == ~loss => n = 0
               executed == Current.via # "batch" => n >= 1
           IN  \/ Asks(k) /\ none_executed
               \/ GoesOn(none_executed, executed)
               \/ Replies(none_executed, executed)
  <1> DEFINE none_executed == ~loss => n = 0
             executed == Current.via # "batch" => n >= 1
  <1>1. n \in Executions(Current.via, k, loss) /\ AtStep
    BY DEF Request
  <1>2. Failing(k) => none_executed
    BY <1>1, FailingExecutesNothing
  <1>3. CASE Current.via = "dual" /\ modern = none /\ should_try_fallback(k)
    <2>1. Failing(k)
      BY <1>3 DEF should_try_fallback, Failing, ok, body_error
    <2>2. Asks(k)
      BY <1>3, <2>1 DEF Request, Asks
    <2>3. QED  BY <1>2, <2>1, <2>2
  <1>4. CASE ~(Current.via = "dual" /\ modern = none /\ should_try_fallback(k))
    <2>1. Conclude(Best(k))
      BY <1>4 DEF Request, Best
    <2>2. Best(k) \in Answers
      BY DEF Best, HandlersInv, TypeOK
    <2>3. Failing(Best(k)) => none_executed
      <3>1. CASE Best(k) = k
        BY <1>2, <3>1
      <3>2. CASE Best(k) # k
        <4>1. ~(ok(k) /\ ~should_try_fallback(k))
          BY <3>2 DEF Best
        <4>2. Failing(k)
          BY <4>1 DEF Failing, ok, should_try_fallback, body_error
        <4>3. QED  BY <1>2, <4>2
      <3>3. QED  BY <3>1, <3>2
    <2>4. executed \/ Failing(Best(k))
      <3>1. Failing(modern)
        BY DEF HandlersInv
      <3>2. ~Failing(Best(k)) => Best(k) = k
        BY <3>1 DEF Best
      <3>3. k \in {"value", "empty"} => executed
        BY <1>1, SuccessIsExecuted
      <3>4. ~Failing(k) => k \in {"value", "empty"}
        BY DEF Failing, ok, body_error
      <3>5. QED  BY <3>2, <3>3, <3>4
    <2> HIDE DEF none_executed, executed
    <2>5. none_executed \in BOOLEAN /\ executed \in BOOLEAN
      BY DEF none_executed, executed
    <2>6. QED  BY <1>1, <2>1, <2>2, <2>3, <2>4, <2>5, ConcludeEffect DEF none_executed, executed
  <1>5. QED  BY <1>3, <1>4

-----------------------------------------------------------------------------
(* What a request does to the counts.                                      *)

\* Without a lost attempt a request is executed at most once.
LEMMA AtMostOne ==
    ASSUME NEW k \in Answers, NEW via, NEW n \in Executions(via, k, FALSE)
    PROVE  n \in 0..1
  <1>1. CASE k \in {"value", "empty"}
    BY <1>1 DEF Executions
  <1>2. CASE k \notin {"value", "empty"}
    <2>1. Failing(k)
      BY <1>2 DEF Failing, ok, body_error, Answers
    <2>2. n = 0
      BY <2>1, FailingExecutesNothing
    <2>3. QED  BY <2>2
  <1>3. QED  BY <1>1, <1>2

\* Only the step's own change is counted, and not at all if the request failed.
LEMMA RequestCounts ==
    ASSUME HandlersInv, NEW k \in Answers, NEW loss \in BOOLEAN, NEW n \in 0..2,
           Request(k, loss, n)
    PROVE  /\ Steps[step].change \in Changes \cup {none} /\ step \in DOMAIN Steps
           /\ done' \in [Changes -> Nat] /\ losses' \in 0..MaxLosses
           /\ (~loss => n = 0) /\ ~loss => done' = done
           /\ Steps[step].change = none => done' = done
           /\ \A c \in Changes : c # Steps[step].change => done'[c] = done[c]
           /\ Steps[step].change # none /\ n >= 1 => done'[Steps[step].change] >= 1
           /\ \A c \in Changes : done'[c] >= done[c]
           /\ losses' = 0 => losses = 0 /\ ~loss
           /\ losses' = 0 /\ Steps[step].change # none =>
                 done'[Steps[step].change] <= done[Steps[step].change] + 1
  <1> DEFINE c == Steps[step].change
  <1>1. /\ step \in DOMAIN Steps /\ Len(Steps) \in Nat
        /\ done \in [Changes -> Nat] /\ losses \in 0..MaxLosses /\ MaxLosses \in Nat
    BY Programs, HandlersAssumption DEF HandlersInv, TypeOK, Request, AtStep
  <1>2. /\ done' = IF c = none THEN done ELSE [done EXCEPT ![c] = @ + n]
        /\ losses' = IF loss THEN losses + 1 ELSE losses
        /\ loss => losses < MaxLosses
        /\ n \in Executions(Current.via, k, loss)
    BY DEF Request, Current
  <1>3. c \in Changes \cup {none}
    BY <1>1 DEF Changes
  <1>4. losses' \in 0..MaxLosses /\ (losses' = 0 => losses = 0 /\ ~loss)
    BY <1>1, <1>2
  <1>5. ~loss => n \in 0..1
    BY <1>2, AtMostOne
  <1> HIDE DEF c
  <1>6. done' \in [Changes -> Nat]
    BY <1>1, <1>2, <1>3
  <1>7. \A d \in Changes : d # c => done'[d] = done[d]
    BY <1>1, <1>2, <1>3
  <1>8. c # none => done'[c] = done[c] + n /\ done[c] \in Nat
    BY <1>1, <1>2, <1>3
  <1>9. c = none => done' = done
    BY <1>2
  <1>10. n = 0 => done' = done
    <2>1. CASE c = none
      BY <1>9, <2>1
    <2>2. CASE c # none
      <3>1. ASSUME n = 0 PROVE \A d \in Changes : done'[d] = done[d]
        BY <1>7, <1>8, <2>2, <3>1
      <3>2. QED  BY <1>1, <1>6, <3>1
    <2>3. QED  BY <2>1, <2>2
  <1>11. losses' = 0 /\ c # none => done'[c] <= done[c] + 1
    BY <1>4, <1>5, <1>8
  <1>12. c # none /\ n >= 1 => done'[c] >= 1
    BY <1>8
  <1>13. \A d \in Changes : done'[d] >= done[d]
    <2> TAKE d \in Changes
    <2>1. CASE d = c /\ c # none
      BY <1>8, <2>1
    <2>2. CASE d # c
      BY <1>1, <1>7, <2>2
    <2>3. CASE c = none
      BY <1>1, <1>9, <2>3
    <2>4. QED  BY <2>1, <2>2, <2>3
  <1>14. QED  BY <1>1, <1>3, <1>4, <1>6, <1>7, <1>9, <1>10, <1>11, <1>12, <1>13 DEF c

-----------------------------------------------------------------------------
(* The steps.                                                              *)

\* The invariant holds before the call.
LEMMA InitHandlers ==
    ASSUME \A t \in Tools : WellFormed(Handler(t))
    PROVE  Init => HandlersInv
  <1> SUFFICES ASSUME Init PROVE HandlersInv
    OBVIOUS
  <1>1. WellFormed(handler) /\ Len(Steps) \in Nat
    <2>1. WellFormed(handler)
      BY DEF Init
    <2>2. QED  BY <2>1, Programs
  <1>2. /\ step \in 1..(Len(Steps) + 1) /\ losses \in 0..MaxLosses
        /\ done \in [Changes -> Nat] /\ \A c \in Changes : done[c] = 0
    BY <1>1, HandlersAssumption DEF Init
  <1>3. TypeOK
    BY <1>2 DEF Init, TypeOK
  <1>4. NeverRepeated
    BY <1>2 DEF NeverRepeated
  <1>5. Ahead
    BY <1>2 DEF Ahead, Changes
  <1>6. Failing(modern) /\ Failing(saved)
    BY DEF Init, Failing, ok, none
  <1>7. QED  BY <1>1, <1>2, <1>3, <1>4, <1>5, <1>6 DEF Init, HandlersInv, FailedStep, ErrorIsNotDone

\* The call comes with its arguments.
LEMMA CallStep ==
    ASSUME HandlersInv, NEW args \in SUBSET Arguments, CallTool(args)
    PROVE  HandlersInv'
  <1>1. /\ reply = "ready" /\ ~failed /\ given' = args /\ reply' \in {"unsupported", "none"}
        /\ UNCHANGED <<engine, tool, handler, step, modern, saved, applied, failed, done, losses>>
    BY DEF CallTool, HandlersInv
  <1>2. Steps' = Steps /\ Changes' = Changes /\ Arguments' = Arguments
    BY <1>1 DEF Steps, Changes, Arguments
  <1>3. TypeOK'
    BY <1>1, <1>2 DEF HandlersInv, TypeOK
  <1>4. losses' = 0 => NeverRepeated' /\ Ahead' /\ FailedStep'
    BY <1>1, <1>2 DEF HandlersInv, NeverRepeated, Ahead, FailedStep
  <1>5. WellFormed(handler') /\ Failing(modern') /\ Failing(saved')
    BY <1>1 DEF HandlersInv
  <1>6. WellFormed(handler)' /\ ErrorIsNotDone'
    BY <1>1, <1>5 DEF ErrorIsNotDone
  <1>7. QED  BY <1>1, <1>3, <1>4, <1>5, <1>6 DEF HandlersInv

\* A step that replies, or goes on, without a request.
LEMMA SilentStep ==
    ASSUME HandlersInv, RefuseArguments \/ SkipStep \/ Finish
    PROVE  HandlersInv'
  <1>1. UNCHANGED <<engine, tool, handler, given, modern, saved, applied, failed, done, losses>>
    BY DEF RefuseArguments, SkipStep, Finish
  <1>2. /\ Steps' = Steps /\ Changes' = Changes /\ Arguments' = Arguments
        /\ Gathers' = Gathers /\ Asked' = Asked
    BY <1>1 DEF Steps, Changes, Arguments, Gathers, Policy, Asked
  <1>3. /\ WellFormed(handler') /\ Failing(modern') /\ Failing(saved')
        /\ Len(Steps) \in Nat /\ DOMAIN Steps = 1..Len(Steps)
    BY <1>1, Programs DEF HandlersInv
  <1>4. CASE RefuseArguments
    <2>1. reply' = "badArguments" /\ step' = step
      BY <1>4 DEF RefuseArguments
    <2>2. TypeOK'
      BY <1>1, <1>2, <2>1 DEF HandlersInv, TypeOK
    <2>3. losses' = 0 => NeverRepeated' /\ Ahead' /\ FailedStep'
      BY <1>1, <1>2, <2>1 DEF HandlersInv, NeverRepeated, Ahead, FailedStep
    <2>4. QED  BY <1>3, <2>1, <2>2, <2>3 DEF HandlersInv, ErrorIsNotDone
  <1>5. CASE SkipStep
    <2>1. step' = step + 1 /\ reply' = reply /\ reply = "none" /\ step \in 1..Len(Steps)
      BY <1>3, <1>5 DEF SkipStep, AtStep, HandlersInv, TypeOK
    <2>2. TypeOK'
      BY <1>1, <1>2, <1>3, <2>1 DEF HandlersInv, TypeOK
    <2>3. losses' = 0 => NeverRepeated' /\ Ahead'
      BY <1>1, <1>2, <1>3, <2>1 DEF HandlersInv, NeverRepeated, Ahead
    <2>4. ASSUME losses' = 0 PROVE FailedStep'
      BY <1>1, <1>2, <1>3, <2>1, <2>4 DEF HandlersInv, FailedStep
    <2>5. QED  BY <1>3, <2>1, <2>2, <2>3, <2>4 DEF HandlersInv, ErrorIsNotDone
  <1>6. CASE Finish
    <2>1. step' = step /\ reply' \in {"ok", "error", "badArguments"} /\ (reply' = "error" => failed)
      BY <1>6 DEF Finish
    <2>2. TypeOK'
      BY <1>1, <1>2, <2>1 DEF HandlersInv, TypeOK
    <2>3. losses' = 0 => NeverRepeated' /\ Ahead' /\ FailedStep'
      BY <1>1, <1>2, <2>1 DEF HandlersInv, NeverRepeated, Ahead, FailedStep
    <2>4. ErrorIsNotDone'
      <3> SUFFICES ASSUME reply' = "error", losses' = 0
                   PROVE  \E c \in Asked : ~(done[c] >= 1)
        BY <1>1, <1>2 DEF ErrorIsNotDone, Done
      <3>1. PICK j \in DOMAIN Steps :
                /\ Steps[j].args \subseteq given /\ Steps[j].change # none
                /\ done[Steps[j].change] = 0
        BY <1>1, <2>1 DEF HandlersInv, FailedStep
      <3>2. Steps[j].change \in Asked
        BY <3>1 DEF Asked
      <3>3. QED  BY <3>1, <3>2
    <2>5. QED  BY <1>3, <2>1, <2>2, <2>3, <2>4 DEF HandlersInv
  <1>7. QED  BY <1>4, <1>5, <1>6

\* A request counts its own change, and is followed by other changes only.
LEMMA RequestStep ==
    ASSUME HandlersInv, NEW k \in Answers, NEW loss \in BOOLEAN, NEW n \in 0..2,
           Request(k, loss, n)
    PROVE  HandlersInv'
  <1> DEFINE none_executed == ~loss => n = 0
             executed == Current.via # "batch" => n >= 1
             c == Steps[step].change
  <1>1. /\ UNCHANGED <<engine, tool, handler, given>> /\ reply = "none"
        /\ Steps[step].args \subseteq given
    BY DEF Request, AtStep, Current
  <1>2. /\ Steps' = Steps /\ Changes' = Changes /\ Arguments' = Arguments
        /\ Gathers' = Gathers /\ Asked' = Asked /\ Policy' = Policy
    BY <1>1 DEF Steps, Changes, Arguments, Gathers, Policy, Asked
  <1>3. WellFormed(handler)'
    BY <1>1 DEF HandlersInv
  <1>4. /\ c \in Changes \cup {none} /\ step \in DOMAIN Steps
        /\ done' \in [Changes -> Nat] /\ losses' \in 0..MaxLosses
        /\ none_executed /\ ~loss => done' = done
        /\ c = none => done' = done
        /\ \A d \in Changes : d # c => done'[d] = done[d]
        /\ losses' = 0 => losses = 0 /\ ~loss
        /\ losses' = 0 /\ c # none => done'[c] <= done[c] + 1
    BY RequestCounts
  <1>5. \/ Asks(k) /\ none_executed
        \/ GoesOn(none_executed, executed)
        \/ Replies(none_executed, executed)
    BY RequestEffect
  <1>6. /\ Len(Steps) \in Nat /\ DOMAIN Steps = 1..Len(Steps) /\ step \in Nat
        /\ done \in [Changes -> Nat]
        /\ \A j \in DOMAIN Steps : Steps[j].change # none => Steps[j].change \in Changes
    BY Programs DEF HandlersInv, TypeOK, Changes
  <1>7. c = Current.change
    BY DEF Current
  <1>8. Policy # "console" =>
           \A j \in DOMAIN Steps : j # step /\ Steps[j].change # none => Steps[j].change # c
    BY <1>4, Programs DEF HandlersInv
  <1>9. Policy = "console" /\ step = 2 => c = none
    BY Programs DEF HandlersInv
  <1> HIDE DEF none_executed, executed, c
  <1>10. TypeOK'
    <2>1. CASE Asks(k)
      BY <1>1, <1>2, <1>4, <2>1 DEF HandlersInv, TypeOK, Asks
    <2>2. CASE GoesOn(none_executed, executed)
      <3>1. step' \in 1..(Len(Steps) + 1)
        BY <1>4, <1>6, <2>2 DEF GoesOn
      <3>2. applied' \subseteq Changes
        <4>1. Gathers => c \in Changes
          BY <1>4, Programs DEF HandlersInv, c
        <4>2. QED  BY <1>7, <2>2, <4>1 DEF HandlersInv, TypeOK, GoesOn
      <3>3. modern' \in Answers \cup {none} /\ saved' \in Answers \cup {none}
            /\ failed' \in BOOLEAN /\ reply' = "none"
        BY <1>1, <2>2 DEF HandlersInv, TypeOK, GoesOn
      <3>4. QED  BY <1>1, <1>2, <1>4, <3>1, <3>2, <3>3 DEF HandlersInv, TypeOK
    <2>3. CASE Replies(none_executed, executed)
      BY <1>1, <1>2, <1>4, <2>3 DEF HandlersInv, TypeOK, Replies
    <2>4. QED  BY <1>5, <2>1, <2>2, <2>3
  <1>failing. reply' # "ready" /\ Failing(modern) /\ Failing(saved)
    BY <1>1, <1>5 DEF Asks, GoesOn, Replies, HandlersInv
  <1>11. reply' # "ready" /\ Failing(modern') /\ Failing(saved')
    <2>1. Failing(none)
      BY DEF Failing, ok, none
    <2>2. CASE Asks(k)
      <3>1. modern' = k /\ saved' = saved /\ Failing(k)
        BY <2>2 DEF Asks
      <3>2. QED  BY <1>1, <1>failing, <3>1
    <2>3. CASE GoesOn(none_executed, executed) \/ Replies(none_executed, executed)
      BY <1>1, <2>1, <2>3 DEF GoesOn, Replies, HandlersInv
    <2>4. QED  BY <1>5, <2>2, <2>3
  <1>12. ASSUME losses' = 0 PROVE NeverRepeated' /\ Ahead' /\ FailedStep'
    <2>1. /\ losses = 0 /\ ~loss /\ NeverRepeated /\ Ahead /\ FailedStep
          /\ c # none => done[c] = 0
      BY <1>1, <1>4, <1>6, <1>12 DEF HandlersInv, Ahead, c
    <2>2. none_executed => done' = done
      BY <1>4, <2>1
    <2>3. NeverRepeated'
      <3>1. \A d \in Changes : done'[d] <= 1
        <4> TAKE d \in Changes
        <4>1. CASE d # c
          BY <1>4, <2>1, <4>1 DEF NeverRepeated
        <4>2. CASE d = c /\ c # none
          BY <1>4, <1>12, <2>1, <4>2
        <4>3. CASE d = c /\ c = none
          BY <1>4, <2>1, <4>3 DEF NeverRepeated
        <4>4. QED  BY <4>1, <4>2, <4>3
      <3>2. QED  BY <1>2, <3>1 DEF NeverRepeated
    <2>4. Ahead'
      <3> SUFFICES ASSUME reply' \in {"ready", "none"}, NEW j \in DOMAIN Steps,
                          j >= step', Steps[j].change # none
                   PROVE  done'[Steps[j].change] = 0
        BY <1>2 DEF Ahead
      <3>1. CASE Asks(k) /\ none_executed
        BY <1>1, <2>1, <2>2, <3>1 DEF Asks, Ahead
      <3>2. CASE GoesOn(none_executed, executed)
        <4>1. j > step /\ done[Steps[j].change] = 0
          <5>1. step' = step + 1
            BY <3>2 DEF GoesOn
          <5>2. QED  BY <1>1, <1>6, <2>1, <5>1 DEF Ahead
        <4>2. CASE Policy = "console"
          <5>1. done' = done
            BY <1>4, <1>9, <2>2, <3>2, <4>2 DEF GoesOn
          <5>2. QED  BY <4>1, <5>1
        <4>3. CASE Policy # "console"
          <5>1. Steps[j].change # c /\ Steps[j].change \in Changes
            BY <1>6, <1>8, <4>1, <4>3
          <5>2. QED  BY <1>4, <4>1, <5>1
        <4>4. QED  BY <4>2, <4>3
      <3>3. CASE Replies(none_executed, executed)
        BY <3>3 DEF Replies
      <3>4. QED  BY <1>5, <3>1, <3>2, <3>3
    <2>5. FailedStep'
      <3> SUFFICES ASSUME failed'
                   PROVE  /\ Gathers
                          /\ \E j \in DOMAIN Steps :
                                /\ j < step' /\ Steps[j].args \subseteq given
                                /\ Steps[j].change # none /\ done'[Steps[j].change] = 0
        BY <1>1, <1>2 DEF FailedStep
      <3>1. CASE failed /\ step' \in {step, step + 1}
        <4>1. Gathers
          BY <2>1, <3>1 DEF FailedStep
        <4>2. PICK j \in DOMAIN Steps :
                /\ j < step /\ Steps[j].args \subseteq given
                /\ Steps[j].change # none /\ done[Steps[j].change] = 0
          BY <2>1, <3>1 DEF FailedStep
        <4>3. Policy # "console"
          BY <4>1 DEF Gathers
        <4>4. Steps[j].change # c /\ Steps[j].change \in Changes
          BY <1>6, <1>8, <4>2, <4>3
        <4>5. done'[Steps[j].change] = 0
          BY <1>4, <4>2, <4>4
        <4>6. j < step'
          BY <1>6, <3>1, <4>2
        <4>7. QED  BY <4>1, <4>2, <4>5, <4>6
      <3>2. CASE ~failed
        <4>1. GoesOn(none_executed, executed) /\ Gathers /\ none_executed
          BY <1>5, <3>2 DEF Asks, GoesOn, Replies
        <4>2. c # none /\ done' = done /\ done[c] = 0
          BY <1>4, <2>1, <2>2, <4>1, Programs DEF HandlersInv, c
        <4>3. step < step'
          <5>1. step' = step + 1
            BY <4>1 DEF GoesOn
          <5>2. QED  BY <1>6, <5>1
        <4>4. QED  BY <1>1, <1>4, <4>1, <4>2, <4>3 DEF c
      <3>3. step' \in {step, step + 1}
        BY <1>5 DEF Asks, GoesOn, Replies
      <3>4. QED  BY <3>1, <3>2, <3>3
    <2>6. QED  BY <2>3, <2>4, <2>5
  <1>13. ErrorIsNotDone'
    <2> SUFFICES ASSUME reply' = "error", losses' = 0, Asked # {}
                 PROVE  \E d \in Asked : ~(done'[d] >= 1)
      BY <1>2 DEF ErrorIsNotDone, Done
    <2>1. Replies(none_executed, executed)
      BY <1>1, <1>5 DEF Asks, GoesOn
    <2>2. done' = done
      BY <1>4, <1>9, <2>1 DEF Replies
    <2>3. Policy \in {"chain", "console"} /\ ~Gathers
      BY <2>1 DEF Replies, Gathers
    <2>4. PICK i \in DOMAIN Steps : Steps[i].change # none
      BY DEF Asked
    <2>5. Len(Steps) \in DOMAIN Steps /\ Len(Steps) >= step
      BY <1>4, <1>6
    <2>6. Steps[Len(Steps)].change # none
      <3>1. CASE Policy = "chain"
        BY <2>4, <3>1, Programs DEF HandlersInv
      <3>2. CASE Policy = "console"
        <4>1. /\ Len(Steps) = 3 /\ Steps[2].change = none /\ Steps[1].change = Steps[3].change
              /\ i \in 1..3
          BY <1>6, <2>4, <3>2, Programs DEF HandlersInv
        <4>2. i = 1 \/ i = 2 \/ i = 3
          BY <4>1
        <4>3. QED  BY <2>4, <4>1, <4>2
      <3>3. QED  BY <2>3, <3>1, <3>2
    <2>7. Steps[Len(Steps)].change \in Asked
      BY <2>3, <2>5, <2>6 DEF Asked
    <2>8. done[Steps[Len(Steps)].change] = 0
      BY <1>1, <1>4, <2>5, <2>6 DEF HandlersInv, Ahead
    <2>9. QED  BY <2>2, <2>7, <2>8
  <1>14. QED  BY <1>3, <1>10, <1>11, <1>12, <1>13 DEF HandlersInv

-----------------------------------------------------------------------------
(* What is reported as made was made.                                      *)

CandidInv ==
    /\ Policy = "console" => step <= 3
    /\ Policy = "chain" => Len(Steps) = 0 \/ step <= Len(Steps)
    /\ \A c \in applied : Done(c)
    /\ Gathers /\ ~failed =>
          \A j \in DOMAIN Steps :
              j < step /\ Steps[j].args \subseteq given => Done(Steps[j].change)
    /\ reply = "ok" => \A c \in Asked : Done(c)

\* What the discipline says of the handler at hand.
LEMMA CandidPrograms ==
    ASSUME Candid(handler)
    PROVE  /\ Policy # "gatherStatuses"
           /\ \A j \in DOMAIN Steps : Steps[j].change # none => Steps[j].via # "batch"
           /\ Policy = "chain" => Len(Steps) = 1 \/ \A j \in DOMAIN Steps : Steps[j].change = none
           /\ Policy = "ignore" => \A j \in DOMAIN Steps : Steps[j].change = none
  BY DEF Candid, Steps, Policy

\* Nothing has been made before the call.
LEMMA CandidInit == HandlersInv /\ Init => CandidInv
  <1> SUFFICES ASSUME HandlersInv, Init PROVE CandidInv
    OBVIOUS
  <1>1. /\ step = 1 /\ applied = {} /\ reply = "ready"
        /\ Len(Steps) \in Nat /\ DOMAIN Steps = 1..Len(Steps)
    BY Programs DEF Init, HandlersInv
  <1>2. QED  BY <1>1 DEF CandidInv

\* The steps without a request: a handler that runs out of steps without a
\* failure has made every change it was asked for.
LEMMA CandidSilent ==
    ASSUME HandlersInv, Candid(handler), CandidInv,
           RefuseArguments \/ SkipStep \/ Finish \/ \E args \in SUBSET Arguments : CallTool(args)
    PROVE  CandidInv'
  <1>1. UNCHANGED <<handler, applied, failed, done>>
    BY DEF RefuseArguments, SkipStep, Finish, CallTool
  <1>2. /\ Steps' = Steps /\ Gathers' = Gathers /\ Policy' = Policy
        /\ (given' = given => Asked' = Asked)
    BY <1>1 DEF Steps, Gathers, Policy, Asked
  <1>3. /\ Len(Steps) \in Nat /\ DOMAIN Steps = 1..Len(Steps) /\ step \in Nat
        /\ Policy \in {"chain", "ignore", "console"} \/ Gathers
    BY Programs DEF HandlersInv, TypeOK
  <1>4. CASE RefuseArguments
    BY <1>1, <1>2, <1>4 DEF RefuseArguments, CandidInv, Done
  <1>5. CASE \E args \in SUBSET Arguments : CallTool(args)
    <2>1. /\ reply = "ready" /\ step' = step /\ reply' # "ok"
          /\ step = 1
      BY <1>5 DEF CallTool, HandlersInv
    <2>2. QED  BY <1>1, <1>2, <1>3, <2>1 DEF CandidInv, Done
  <1>6. CASE SkipStep
    <2>1. /\ step' = step + 1 /\ given' = given /\ reply' = reply /\ reply = "none" /\ Gathers
          /\ ~(Steps[step].args \subseteq given)
      BY <1>6 DEF SkipStep, AtStep, Current
    <2>2. Policy # "console" /\ Policy # "chain"
      BY <2>1 DEF Gathers
    <2>3. ASSUME ~failed, NEW j \in DOMAIN Steps, j < step', Steps[j].args \subseteq given
          PROVE  Done(Steps[j].change)
      <3>1. j < step
        BY <1>3, <2>1, <2>3
      <3>2. QED  BY <2>1, <2>3, <3>1 DEF CandidInv
    <2>4. QED  BY <1>1, <1>2, <2>1, <2>2, <2>3 DEF CandidInv, Done
  <1>7. CASE Finish
    <2>1. /\ step' = step /\ given' = given /\ step > Len(Steps)
          /\ reply' = "ok" => ~failed
      BY <1>7 DEF Finish
    <2>2. ASSUME reply' = "ok", NEW c \in Asked PROVE Done(c)
      <3>1. PICK j \in DOMAIN Steps :
                (Gathers => Steps[j].args \subseteq given) /\ c = Steps[j].change /\ c # none
        BY DEF Asked
      <3>2. j < step
        BY <1>3, <2>1
      <3>3. CASE Gathers
        BY <2>1, <2>2, <3>1, <3>2, <3>3 DEF CandidInv
      <3>4. CASE Policy = "ignore"
        BY <3>1, <3>4, CandidPrograms
      <3>5. CASE Policy = "console"
        <4>1. Len(Steps) = 3 /\ step <= 3
          BY <3>5, Programs DEF HandlersInv, CandidInv
        <4>2. QED  BY <1>3, <2>1, <4>1
      <3>6. CASE Policy = "chain"
        BY <1>3, <2>1, <3>1, <3>6 DEF CandidInv
      <3>7. QED  BY <1>3, <3>3, <3>4, <3>5, <3>6
    <2>3. QED  BY <1>1, <1>2, <2>1, <2>2 DEF CandidInv, Done
  <1>8. QED  BY <1>4, <1>5, <1>6, <1>7

\* A request whose answer is taken for a success has been executed.
LEMMA CandidRequest ==
    ASSUME HandlersInv, Candid(handler), CandidInv,
           NEW k \in Answers, NEW loss \in BOOLEAN, NEW n \in 0..2, Request(k, loss, n)
    PROVE  CandidInv'
  <1> DEFINE none_executed == ~loss => n = 0
             executed == Current.via # "batch" => n >= 1
             c == Steps[step].change
  <1>1. UNCHANGED <<handler, given>> /\ reply = "none"
    BY DEF Request, AtStep
  <1>2. Steps' = Steps /\ Gathers' = Gathers /\ Policy' = Policy /\ Asked' = Asked
    BY <1>1 DEF Steps, Gathers, Policy, Asked
  <1>3. /\ Len(Steps) \in Nat /\ DOMAIN Steps = 1..Len(Steps) /\ step \in DOMAIN Steps
        /\ Policy = "console" => Len(Steps) = 3 /\ Steps[2].change = none
                                 /\ Steps[1].change = Steps[3].change
        /\ Gathers => \A j \in DOMAIN Steps : Steps[j].change # none
        /\ done \in [Changes -> Nat] /\ applied \subseteq Changes
        /\ \A j \in DOMAIN Steps : Steps[j].change # none => Steps[j].change \in Changes
    <2>1. done \in [Changes -> Nat] /\ applied \subseteq Changes
      BY DEF HandlersInv, TypeOK
    <2>2. \A j \in DOMAIN Steps : Steps[j].change # none => Steps[j].change \in Changes
      BY DEF Changes
    <2>3. QED  BY <2>1, <2>2, Programs, RequestCounts DEF HandlersInv
  <1>4. /\ done' \in [Changes -> Nat]
        /\ \A d \in Changes : done'[d] >= done[d]
        /\ c # none /\ n >= 1 => done'[c] >= 1
    BY RequestCounts
  <1>5. Asks(k) \/ GoesOn(none_executed, executed) \/ Replies(none_executed, executed)
    BY RequestEffect
  <1>6. c = Current.change
    BY DEF Current
  <1>7. c # none /\ executed => done'[c] >= 1
    BY <1>3, <1>4, CandidPrograms DEF Current
  <1> HIDE DEF none_executed, executed, c
  <1>8. \A d \in Changes : Done(d) => done'[d] >= 1
    BY <1>3, <1>4 DEF Done
  <1>9. Gathers => c \in Changes /\ c # none /\ Policy = "gatherBodies"
    BY <1>3, CandidPrograms DEF c, Gathers
  <1>10. CASE Asks(k)
    <2>1. UNCHANGED <<step, applied, failed, reply>>
      BY <1>10 DEF Asks
    <2>2. \A d \in applied : done'[d] >= 1
      BY <1>3, <1>8 DEF CandidInv
    <2>3. Gathers /\ ~failed =>
             \A j \in DOMAIN Steps :
                 j < step /\ Steps[j].args \subseteq given => done'[Steps[j].change] >= 1
      BY <1>3, <1>8 DEF CandidInv
    <2>4. QED  BY <1>1, <1>2, <2>1, <2>2, <2>3 DEF CandidInv, Done
  <1>11. CASE GoesOn(none_executed, executed)
    <2>1. /\ step' = step + 1 /\ reply' = reply
          /\ Policy = "console" => step = 2 \/ step = 1
          /\ Policy = "chain" => step # Len(Steps)
      BY <1>11 DEF GoesOn
    <2>2. \/ applied' = applied
          \/ Gathers /\ applied' = applied \cup {c} /\ executed
      BY <1>6, <1>9, <1>11 DEF GoesOn
    <2>3. Gathers => failed' \/ (~failed /\ executed)
      BY <1>9, <1>11 DEF GoesOn, HandlersInv, TypeOK
    <2>4. \A d \in applied' : done'[d] >= 1
      <3>1. \A d \in applied : done'[d] >= 1
        BY <1>3, <1>8 DEF CandidInv
      <3>2. QED  BY <1>7, <1>9, <2>2, <3>1
    <2>5. ASSUME Gathers, ~failed', NEW j \in DOMAIN Steps, j < step', Steps[j].args \subseteq given
          PROVE  done'[Steps[j].change] >= 1
      <3>1. CASE j = step
        BY <1>7, <1>9, <2>3, <2>5, <3>1 DEF c
      <3>2. CASE j # step
        <4>1. j < step
          BY <1>3, <2>1, <2>5, <3>2
        <4>2. Done(Steps[j].change)
          BY <2>3, <2>5, <4>1 DEF CandidInv
        <4>3. QED  BY <1>3, <1>8, <2>5, <4>2
      <3>3. QED  BY <3>1, <3>2
    <2>6. /\ Policy = "console" => step' <= 3
          /\ Policy = "chain" => Len(Steps) = 0 \/ step' <= Len(Steps)
      BY <1>3, <2>1
    <2>7. QED  BY <1>1, <1>2, <2>1, <2>4, <2>5, <2>6 DEF CandidInv, Done
  <1>12. CASE Replies(none_executed, executed)
    <2>1. UNCHANGED <<step, applied, failed>> /\ Policy \in {"chain", "console"}
      BY <1>12 DEF Replies
    <2>2. \A d \in applied : done'[d] >= 1
      BY <1>3, <1>8 DEF CandidInv
    <2>3. ASSUME reply' = "ok", NEW d \in Asked PROVE done'[d] >= 1
      <3>1. PICK j \in DOMAIN Steps : d = Steps[j].change /\ d # none
        BY DEF Asked
      <3>2. executed
        BY <1>12, <2>3 DEF Replies
      <3>3. CASE Policy = "chain"
        <4>1. Len(Steps) = 1
          BY <3>1, <3>3, CandidPrograms
        <4>2. j = step
          BY <1>3, <4>1
        <4>3. QED  BY <1>7, <3>1, <3>2, <4>2 DEF c
      <3>4. CASE Policy = "console"
        <4>1. Len(Steps) = 3 /\ Steps[2].change = none /\ Steps[1].change = Steps[3].change
          BY <1>3, <3>4
        <4>2. d = Steps[1].change
          <5>1. j = 1 \/ j = 2 \/ j = 3
            BY <1>3, <4>1
          <5>2. QED  BY <3>1, <4>1, <5>1
        <4>3. step # 2
          BY <3>4, <1>12, <2>3 DEF Replies
        <4>4. step = 1 \/ step = 3
          BY <1>3, <4>1, <4>3
        <4>5. c = d
          BY <4>1, <4>2, <4>4 DEF c
        <4>6. QED  BY <1>7, <3>1, <3>2, <4>5
      <3>5. QED  BY <2>1, <3>3, <3>4
    <2>4. ~Gathers
      BY <2>1 DEF Gathers
    <2>5. QED  BY <1>1, <1>2, <2>1, <2>2, <2>3, <2>4 DEF CandidInv, Done
  <1>13. QED  BY <1>5, <1>10, <1>11, <1>12

-----------------------------------------------------------------------------
(* What is refused was not begun.                                          *)

CautiousInv ==
    /\ \A c \in Changes :
          done[c] = 0 \/ \E i \in DOMAIN Steps :
                            i <= step /\ Steps[i].change = c /\ Steps[i].args \subseteq given
    /\ Gathers /\ ~failed /\ applied = {} => \A c \in Changes : done[c] = 0
    /\ RefusedArgumentsChangeNothing

\* Nothing has been done before the call.
LEMMA CautiousInit == HandlersInv /\ Init => CautiousInv
  BY DEF HandlersInv, Init, CautiousInv, RefusedArgumentsChangeNothing

\* The steps without a request.
LEMMA CautiousSilent ==
    ASSUME HandlersInv, Cautious(handler), CautiousInv,
           RefuseArguments \/ SkipStep \/ Finish \/ \E args \in SUBSET Arguments : CallTool(args)
    PROVE  CautiousInv'
  <1>1. UNCHANGED <<handler, applied, failed, done>>
    BY DEF RefuseArguments, SkipStep, Finish, CallTool
  <1>2. Steps' = Steps /\ Gathers' = Gathers /\ Changes' = Changes
    BY <1>1 DEF Steps, Gathers, Policy, Changes
  <1>3. step \in Nat /\ DOMAIN Steps = 1..Len(Steps) /\ Len(Steps) \in Nat
    BY Programs DEF HandlersInv, TypeOK
  <1>4. CASE RefuseArguments
    <2>1. /\ step' = step /\ given' = given /\ ~Gathers /\ ~(Steps[step].args \subseteq given)
          /\ step \in DOMAIN Steps
      BY <1>3, <1>4 DEF RefuseArguments, AtStep, Current, HandlersInv, TypeOK
    <2>2. ASSUME NEW c \in Changes PROVE done[c] = 0
      <3> SUFFICES ASSUME NEW i \in DOMAIN Steps, i <= step, Steps[i].change = c,
                          Steps[i].args \subseteq given
                   PROVE  FALSE
        BY DEF CautiousInv
      <3>1. i < step
        BY <1>3, <2>1
      <3>2. c # none
        BY DEF Changes
      <3>3. Steps[step].args = {}
        BY <2>1, <3>1, <3>2 DEF Cautious, Gathering, Gathers, Policy, Steps
      <3>4. QED  BY <2>1, <3>3
    <2>3. QED  BY <1>1, <1>2, <2>1, <2>2 DEF CautiousInv, RefusedArgumentsChangeNothing
  <1>5. CASE \E args \in SUBSET Arguments : CallTool(args)
    <2>1. reply = "ready" /\ reply' # "badArguments" /\ \A c \in Changes : done[c] = 0
      BY <1>5 DEF CallTool, HandlersInv
    <2>2. QED  BY <1>1, <1>2, <2>1 DEF CautiousInv, RefusedArgumentsChangeNothing
  <1>6. CASE SkipStep
    <2>1. step' = step + 1 /\ given' = given /\ reply' = reply
      BY <1>6 DEF SkipStep
    <2>2. \A i \in DOMAIN Steps : i <= step => i <= step'
      BY <1>3, <2>1
    <2>3. QED  BY <1>1, <1>2, <2>1, <2>2 DEF CautiousInv, RefusedArgumentsChangeNothing
  <1>7. CASE Finish
    <2>1. /\ step' = step /\ given' = given
          /\ reply' = "badArguments" => Gathers /\ ~failed /\ applied = {}
      BY <1>7 DEF Finish
    <2>2. QED  BY <1>1, <1>2, <2>1 DEF CautiousInv, RefusedArgumentsChangeNothing
  <1>8. QED  BY <1>4, <1>5, <1>6, <1>7

\* A request is made when its arguments are there.
LEMMA CautiousRequest ==
    ASSUME HandlersInv, Cautious(handler), CautiousInv,
           NEW k \in Answers, NEW loss \in BOOLEAN, NEW n \in 0..2, Request(k, loss, n)
    PROVE  CautiousInv'
  <1> DEFINE none_executed == ~loss => n = 0
             executed == Current.via # "batch" => n >= 1
             c == Steps[step].change
  <1>1. UNCHANGED <<handler, given>> /\ reply = "none" /\ Steps[step].args \subseteq given
    BY DEF Request, AtStep, Current
  <1>2. Steps' = Steps /\ Gathers' = Gathers /\ Changes' = Changes
    BY <1>1 DEF Steps, Gathers, Policy, Changes
  <1>3. step \in DOMAIN Steps /\ DOMAIN Steps = 1..Len(Steps) /\ Len(Steps) \in Nat
    BY Programs, RequestCounts DEF HandlersInv
  <1>4. \A d \in Changes : d # c => done'[d] = done[d]
    BY RequestCounts
  <1>5. Asks(k) \/ GoesOn(none_executed, executed) \/ Replies(none_executed, executed)
    BY RequestEffect
  <1>6. c = Current.change
    BY DEF Current
  <1>7. Gathers => Current.via # "dual"
    BY <1>3 DEF Cautious, Gathering, Gathers, Policy, Steps, Current
  <1> HIDE DEF none_executed, executed, c
  <1>8. step' \in {step, step + 1} /\ reply' # "badArguments"
    BY <1>1, <1>5 DEF Asks, GoesOn, Replies
  <1>9. Gathers => failed' \/ applied' # {}
    <2>1. Gathers => ~Asks(k) /\ ~Replies(none_executed, executed)
      BY <1>7 DEF Asks, Replies, Gathers
    <2>2. QED  BY <1>5, <2>1 DEF GoesOn
  <1>10. ASSUME NEW d \in Changes
         PROVE  done'[d] = 0 \/ \E i \in DOMAIN Steps :
                                   i <= step' /\ Steps[i].change = d /\ Steps[i].args \subseteq given
    <2>1. CASE d = c
      <3>1. step <= step'
        BY <1>3, <1>8
      <3>2. QED  BY <1>1, <1>3, <2>1, <3>1 DEF c
    <2>2. CASE d # c
      <3>1. \A i \in DOMAIN Steps : i <= step => i <= step'
        BY <1>3, <1>8
      <3>2. QED  BY <1>4, <2>2, <3>1 DEF CautiousInv
    <2>3. QED  BY <2>1, <2>2
  <1>11. QED  BY <1>1, <1>2, <1>8, <1>9, <1>10 DEF CautiousInv, RefusedArgumentsChangeNothing

-----------------------------------------------------------------------------
(* The programs have these disciplines.                                    *)

\* A handler of one request: to one object, to two, or a batch.
LEMMA OneRequest ==
    ASSUME NEW t, NEW needs, NEW s, s.via # "batch" \/ t \in Batches
    PROVE  Disciplined(t, One(needs, s)) /\ Disciplined(t, [One(needs, s) EXCEPT !.from55 = TRUE])
  <1>1. ASSUME NEW h, h.policy = "chain", h.steps = <<s>> PROVE Disciplined(t, h)
    <2>1. Len(h.steps) = 1 /\ DOMAIN h.steps = 1..1 /\ h.steps[1] = s /\ ~Gathering(h)
      BY <1>1 DEF Gathering
    <2>2. \A j \in 1..1 : j = 1
      OBVIOUS
    <2>3. WellFormed(h)
      BY <1>1, <2>1, <2>2 DEF WellFormed
    <2>4. Cautious(h)
      BY <2>1, <2>2 DEF Cautious
    <2>5. s.via # "batch" => Candid(h)
      BY <1>1, <2>1, <2>2 DEF Candid
    <2>6. QED  BY <2>3, <2>4, <2>5 DEF Disciplined
  <1>2. /\ One(needs, s).policy = "chain" /\ One(needs, s).steps = <<s>>
        /\ [One(needs, s) EXCEPT !.from55 = TRUE].policy = "chain"
        /\ [One(needs, s) EXCEPT !.from55 = TRUE].steps = <<s>>
    BY DEF One, Chain
  <1>3. QED  BY <1>1, <1>2

LEMMA OneDirect ==
    ASSUME NEW t, NEW needs, NEW change, NEW args
    PROVE  /\ Disciplined(t, One(needs, Direct(change, args)))
           /\ Disciplined(t, One(needs, Modern(change, args)))
           /\ Disciplined(t, One(needs, Dual(change, args)))
           /\ Disciplined(t, One(needs, Wants(Direct(change, args))))
           /\ t \in Batches => Disciplined(t, One(needs, Step("batch", change, args)))
  <1>1. /\ Direct(change, args).via # "batch" /\ Modern(change, args).via # "batch"
        /\ Dual(change, args).via # "batch" /\ Wants(Direct(change, args)).via # "batch"
    BY DEF Direct, Modern, Dual, Wants, Step
  <1>2. QED  BY <1>1, OneRequest

LEMMA OneSince55 ==
    ASSUME NEW t, NEW needs, NEW change, NEW args
    PROVE  Disciplined(t, [One(needs, Modern(change, args)) EXCEPT !.from55 = TRUE])
  <1>1. Modern(change, args).via # "batch"
    BY DEF Modern, Step
  <1>2. QED  BY <1>1, OneRequest

\* The handlers of several requests, each on its own.
LEMMA Console ==
    ASSUME NEW t, NEW arg
    PROVE  Disciplined(t, ConsoleCommand(arg))
  <1> DEFINE h == ConsoleCommand(arg)
  <1>1. /\ h.policy = "console" /\ Len(h.steps) = 3 /\ DOMAIN h.steps = 1..3
        /\ h.steps[1] = Direct("ExecuteConsoleCommand", {arg})
        /\ h.steps[2] = Dual(none, {})
        /\ h.steps[3] = Direct("ExecuteConsoleCommand", {})
    BY DEF ConsoleCommand, Chain
  <1>2. /\ h.steps[1].change = h.steps[3].change /\ h.steps[2].change = none
        /\ h.steps[1].via = "direct" /\ h.steps[3].via = "direct" /\ h.steps[2].via = "dual"
        /\ h.steps[2].args = {} /\ h.steps[3].args = {}
    BY <1>1 DEF Direct, Dual, Step
  <1>3. \A j \in 1..3 : j = 1 \/ j = 2 \/ j = 3
    OBVIOUS
  <1>4. ~Gathering(h)
    BY <1>1 DEF Gathering
  <1> HIDE DEF h
  <1>5. WellFormed(h)
    BY <1>1, <1>2, <1>4 DEF WellFormed
  <1>6. Candid(h)
    BY <1>1, <1>2, <1>3 DEF Candid
  <1>7. Cautious(h)
    BY <1>1, <1>2, <1>3, <1>4 DEF Cautious
  <1>8. QED  BY <1>5, <1>6, <1>7 DEF Disciplined, h

LEMMA FindTools ==
    ASSUME NEW t, NEW arg
    PROVE  Disciplined(t, Find(arg))
  <1> DEFINE h == Find(arg)
  <1>1. /\ h.policy = "chain" /\ Len(h.steps) = 2 /\ DOMAIN h.steps = 1..2
        /\ h.steps[1] = Wants(Dual(none, {arg}))
        /\ h.steps[2] = Wants(Direct(none, {}))
    BY DEF Find, Chain
  <1>2. h.steps[1].change = none /\ h.steps[2].change = none
    BY <1>1 DEF Wants, Direct, Dual, Step
  <1>3. \A j \in 1..2 : h.steps[j].change = none
    <2>1. \A j \in 1..2 : j = 1 \/ j = 2
      OBVIOUS
    <2>2. QED  BY <1>2, <2>1
  <1>4. ~Gathering(h)
    BY <1>1 DEF Gathering
  <1> HIDE DEF h
  <1>5. QED  BY <1>1, <1>3, <1>4 DEF Disciplined, WellFormed, Candid, Cautious, h

LEMMA ProjectInfo ==
    ASSUME NEW t
    PROVE  /\ Disciplined(t, register_scripting_tools.ue_get_project_info)
           /\ Disciplined(t, register_builtins.ue_get_engine_version)
  <1> DEFINE g == register_scripting_tools.ue_get_project_info
             h == register_builtins.ue_get_engine_version
  <1>1. /\ g.policy = "ignore" /\ g.steps = [k \in 1..5 |-> Direct(none, {})]
        /\ h.policy = "chain" /\ h.steps = <<>>
    BY DEF register_scripting_tools, register_builtins, Chain
  <1>2. /\ Len(g.steps) = 5 /\ DOMAIN g.steps = 1..5
        /\ \A j \in 1..5 : g.steps[j].change = none
    BY <1>1 DEF Direct, Step
  <1>3. Len(h.steps) = 0 /\ DOMAIN h.steps = 1..0
    BY <1>1
  <1>4. ~Gathering(g) /\ ~Gathering(h)
    BY <1>1 DEF Gathering
  <1> HIDE DEF g, h
  <1>5. Disciplined(t, g)
    BY <1>1, <1>2, <1>4 DEF Disciplined, WellFormed, Candid, Cautious
  <1>6. Disciplined(t, h)
    BY <1>1, <1>3, <1>4 DEF Disciplined, WellFormed, Candid, Cautious
  <1>7. QED  BY <1>5, <1>6 DEF g, h

LEMMA GatheringTools ==
    /\ Disciplined("ue_set_component_relative_transform", ue_set_component_relative_transform)
    /\ Disciplined("ue_set_actor_transform", ue_set_actor_transform)
    /\ Disciplined("ue_set_light_property", ue_set_light_property)
  <1>1. ASSUME NEW t, NEW policy \in {"gatherBodies", "gatherStatuses"},
               policy = "gatherBodies" \/ t \in StatusOnly,
               NEW c1, NEW c2, NEW c3, NEW a1, NEW a2, NEW a3,
               c1 # none, c2 # none, c3 # none, c1 # c2, c1 # c3, c2 # c3
        PROVE  Disciplined(t, Gather(policy, <<Direct(c1, a1), Direct(c2, a2), Direct(c3, a3)>>))
    <2> DEFINE h == Gather(policy, <<Direct(c1, a1), Direct(c2, a2), Direct(c3, a3)>>)
    <2>1. /\ h.policy = policy /\ Len(h.steps) = 3 /\ DOMAIN h.steps = 1..3
          /\ h.steps[1] = Direct(c1, a1) /\ h.steps[2] = Direct(c2, a2)
          /\ h.steps[3] = Direct(c3, a3)
      BY DEF Gather, Chain
    <2>2. /\ h.steps[1].change = c1 /\ h.steps[2].change = c2 /\ h.steps[3].change = c3
          /\ h.steps[1].via = "direct" /\ h.steps[2].via = "direct" /\ h.steps[3].via = "direct"
      BY <2>1 DEF Direct, Step
    <2>3. \A j \in 1..3 : j = 1 \/ j = 2 \/ j = 3
      OBVIOUS
    <2>4. Gathering(h) /\ policy \notin {"chain", "ignore", "console"}
      BY <2>1 DEF Gathering
    <2> HIDE DEF h
    <2>5. WellFormed(h)
      BY <1>1, <2>1, <2>2, <2>3, <2>4 DEF WellFormed
    <2>6. policy = "gatherBodies" => Candid(h)
      BY <2>1, <2>2, <2>3, <2>4 DEF Candid
    <2>7. Cautious(h)
      BY <2>1, <2>2, <2>3, <2>4 DEF Cautious
    <2>8. QED  BY <1>1, <2>5, <2>6, <2>7 DEF Disciplined, h
  <1>2. ASSUME NEW t \in StatusOnly, NEW c1, NEW c2, NEW a1, NEW a2,
               c1 # none, c2 # none, c1 # c2
        PROVE  Disciplined(t, Gather("gatherStatuses", <<Direct(c1, a1), Direct(c2, a2)>>))
    <2> DEFINE h == Gather("gatherStatuses", <<Direct(c1, a1), Direct(c2, a2)>>)
    <2>1. /\ h.policy = "gatherStatuses" /\ Len(h.steps) = 2 /\ DOMAIN h.steps = 1..2
          /\ h.steps[1] = Direct(c1, a1) /\ h.steps[2] = Direct(c2, a2)
      BY DEF Gather, Chain
    <2>2. /\ h.steps[1].change = c1 /\ h.steps[2].change = c2
          /\ h.steps[1].via = "direct" /\ h.steps[2].via = "direct"
      BY <2>1 DEF Direct, Step
    <2>3. \A j \in 1..2 : j = 1 \/ j = 2
      OBVIOUS
    <2>4. Gathering(h)
      BY <2>1 DEF Gathering
    <2> HIDE DEF h
    <2>5. WellFormed(h)
      BY <1>2, <2>1, <2>2, <2>3, <2>4 DEF WellFormed
    <2>6. Cautious(h)
      BY <2>1, <2>2, <2>3, <2>4 DEF Cautious
    <2>7. QED  BY <1>2, <2>5, <2>6 DEF Disciplined, h
  <1>3. QED  BY <1>1, <1>2 DEF ue_set_component_relative_transform, ue_set_actor_transform,
                               ue_set_light_property, StatusOnly, none

LEMMA FirstStepTools ==
    /\ Disciplined("ue_set_material_param", ue_set_material_param)
    /\ Disciplined("ue_focus_viewport_on_actor", ue_focus_viewport_on_actor)
  <1> DEFINE g == ue_set_material_param
             h == ue_focus_viewport_on_actor
  <1>1. /\ g.policy = "chain" /\ Len(g.steps) = 2 /\ DOMAIN g.steps = 1..2
        /\ h.policy = "chain" /\ Len(h.steps) = 2 /\ DOMAIN h.steps = 1..2
        /\ ~Gathering(g) /\ ~Gathering(h)
    BY DEF ue_set_material_param, ue_focus_viewport_on_actor, Chain, Gathering
  <1>2. /\ g.steps[1].change = "CreateDynamicMaterialInstance"
        /\ g.steps[2].change = "SetParameterValue"
        /\ h.steps[1].change = none
        /\ h.steps[2].change = "SetLevelViewportCameraInfo"
    BY DEF ue_set_material_param, ue_focus_viewport_on_actor, Chain, Wants, Direct, Dual, Step
  <1>3. \A j \in 1..2 : j = 1 \/ j = 2
    OBVIOUS
  <1> HIDE DEF g, h
  <1>4. WellFormed(g) /\ WellFormed(h)
    BY <1>1, <1>2, <1>3 DEF WellFormed, none
  <1>5. Cautious(h)
    BY <1>1, <1>2, <1>3 DEF Cautious
  <1>6. QED  BY <1>4, <1>5 DEF Disciplined, FirstStep, g, h

\* Every tool, registration by registration.
LEMMA ProgramsAreDisciplined ==
    \A r \in registrations : \A t \in DOMAIN r : Disciplined(t, r[t])
  <1>1. \A t \in DOMAIN register_builtins : Disciplined(t, register_builtins[t])
    BY OneDirect, ProjectInfo DEF register_builtins, Batches
  <1>2. \A t \in DOMAIN register_editor_helpers : Disciplined(t, register_editor_helpers[t])
    BY OneDirect DEF register_editor_helpers
  <1>3. \A t \in DOMAIN register_scripting_tools : Disciplined(t, register_scripting_tools[t])
    BY OneDirect, Console, ProjectInfo DEF register_scripting_tools
  <1>4. \A t \in DOMAIN register_actor_tools : Disciplined(t, register_actor_tools[t])
    BY OneDirect DEF register_actor_tools
  <1>5. \A t \in DOMAIN register_asset_tools : Disciplined(t, register_asset_tools[t])
    BY OneDirect DEF register_asset_tools
  <1>6. \A t \in DOMAIN register_level_tools : Disciplined(t, register_level_tools[t])
    BY OneDirect DEF register_level_tools
  <1>7. \A t \in DOMAIN register_property_array_tools : Disciplined(t, register_property_array_tools[t])
    BY OneDirect DEF register_property_array_tools
  <1>8. \A t \in DOMAIN register_preset_tools : Disciplined(t, register_preset_tools[t])
    BY OneDirect DEF register_preset_tools
  <1>9. \A t \in DOMAIN register_introspection_tools : Disciplined(t, register_introspection_tools[t])
    BY OneDirect, FindTools DEF register_introspection_tools
  <1>10. LET r == [ue_set_component_relative_transform |-> ue_set_component_relative_transform]
         IN  \A t \in DOMAIN r : Disciplined(t, r[t])
    BY GatheringTools
  <1>11. \A t \in DOMAIN register_material_tools : Disciplined(t, register_material_tools[t])
    BY OneDirect, FirstStepTools DEF register_material_tools
  <1>12. \A t \in DOMAIN register_workflow_tools : Disciplined(t, register_workflow_tools[t])
    BY OneDirect, FirstStepTools, GatheringTools DEF register_workflow_tools
  <1>13. \A t \in DOMAIN register_scene_tools : Disciplined(t, register_scene_tools[t])
    BY OneDirect DEF register_scene_tools, Batches
  <1>14. \A t \in DOMAIN register_mesh_light_tools : Disciplined(t, register_mesh_light_tools[t])
    BY OneDirect, GatheringTools DEF register_mesh_light_tools
  <1>15. \A t \in DOMAIN register_data_debug_tools : Disciplined(t, register_data_debug_tools[t])
    BY OneSince55, Console DEF register_data_debug_tools
  <1>16. QED  BY <1>1, <1>2, <1>3, <1>4, <1>5, <1>6, <1>7, <1>8, <1>9, <1>10, <1>11, <1>12,
                 <1>13, <1>14, <1>15 DEF registrations

\* What invoke() finds under the name of a tool.
LEMMA HandlersAreDisciplined == \A t \in Tools : Disciplined(t, Handler(t))
  <1> TAKE t \in Tools
  <1>1. PICK r \in registrations : t \in DOMAIN r
    BY HandlersAssumption DEF Registered
  <1> DEFINE q == CHOOSE r1 \in registrations : t \in DOMAIN r1
  <1>2. q \in registrations /\ t \in DOMAIN q
    BY <1>1
  <1> HIDE DEF q
  <1>3. Disciplined(t, q[t])
    BY <1>2, ProgramsAreDisciplined
  <1>4. QED  BY <1>3 DEF Handler, q

\* The invariant holds for ever.
LEMMA HandlersInvHolds == Spec => []HandlersInv
  <1>1. Init => HandlersInv
    BY InitHandlers, HandlersAreDisciplined DEF Disciplined
  <1>2. HandlersInv /\ [Next]_vars => HandlersInv'
    <2> SUFFICES ASSUME HandlersInv, [Next]_vars PROVE HandlersInv'
      OBVIOUS
    <2>1. ASSUME NEW args \in SUBSET Arguments, CallTool(args) PROVE HandlersInv'
      BY <2>1, CallStep
    <2>2. CASE RefuseArguments \/ SkipStep \/ Finish
      BY <2>2, SilentStep
    <2>3. ASSUME NEW k \in Answers, NEW loss \in BOOLEAN, NEW n \in 0..2, Request(k, loss, n)
          PROVE  HandlersInv'
      BY <2>3, RequestStep
    <2>4. CASE UNCHANGED vars
      <3>1. /\ Steps' = Steps /\ Changes' = Changes /\ Arguments' = Arguments
            /\ Gathers' = Gathers /\ Asked' = Asked /\ WellFormed(handler')
        BY <2>4 DEF vars, Steps, Changes, Arguments, Gathers, Policy, Asked, HandlersInv
      <3>2. TypeOK' /\ NeverRepeated' = NeverRepeated /\ Ahead' = Ahead
            /\ FailedStep' = FailedStep
        BY <2>4, <3>1 DEF vars, HandlersInv, TypeOK, NeverRepeated, Ahead, FailedStep
      <3>3. ErrorIsNotDone'
        BY <2>4, <3>1 DEF vars, HandlersInv, ErrorIsNotDone, Done
      <3>4. QED  BY <2>4, <3>1, <3>2, <3>3 DEF vars, HandlersInv
    <2>5. QED  BY <2>1, <2>2, <2>3, <2>4 DEF Next
  <1>3. QED  BY <1>1, <1>2, PTL DEF Spec

\* And so do the two others, of the handlers they are about.
LEMMA DisciplineHolds ==
    Spec => []((Candid(handler) => CandidInv) /\ (Cautious(handler) => CautiousInv))
  <1> DEFINE Both == (Candid(handler) => CandidInv) /\ (Cautious(handler) => CautiousInv)
  <1>1. HandlersInv /\ Init => Both
    BY CandidInit, CautiousInit
  <1>2. HandlersInv /\ Both /\ [Next]_vars => Both'
    <2> SUFFICES ASSUME HandlersInv, Both, [Next]_vars PROVE Both'
      OBVIOUS
    <2>1. handler' = handler
      BY DEF Next, vars, CallTool, RefuseArguments, SkipStep, Finish, Request
    <2>2. CASE RefuseArguments \/ SkipStep \/ Finish \/ \E args \in SUBSET Arguments : CallTool(args)
      BY <2>1, <2>2, CandidSilent, CautiousSilent
    <2>3. ASSUME NEW k \in Answers, NEW loss \in BOOLEAN, NEW n \in 0..2, Request(k, loss, n)
          PROVE  Both'
      BY <2>1, <2>3, CandidRequest, CautiousRequest
    <2>4. CASE UNCHANGED vars
      <3>1. /\ Steps' = Steps /\ Changes' = Changes /\ Policy' = Policy
            /\ Gathers' = Gathers /\ Asked' = Asked
        BY <2>4 DEF vars, Steps, Changes, Gathers, Policy, Asked
      <3>2. CandidInv' = CandidInv
        BY <2>4, <3>1 DEF vars, CandidInv, Done
      <3>3. CautiousInv' = CautiousInv
        BY <2>4, <3>1 DEF vars, CautiousInv, RefusedArgumentsChangeNothing
      <3>4. QED  BY <2>1, <3>2, <3>3
    <2>5. QED  BY <2>2, <2>3, <2>4 DEF Next
  <1> HIDE DEF Both
  <1>3. Spec => []Both
    BY <1>1, <1>2, HandlersInvHolds, PTL DEF Spec
  <1>4. QED  BY <1>3 DEF Both

-----------------------------------------------------------------------------
(* The theorems.                                                           *)

\* The state of a handler's call has its type, for any well-formed programs.
THEOREM HandlersTypeCorrect == Spec => []TypeOK
  <1>1. HandlersInv => TypeOK
    BY DEF HandlersInv
  <1>2. QED  BY <1>1, HandlersInvHolds, PTL

\* Neither the fallback to the other API nor the retry with a world context has
\* the editor do again what it did (tool_registry.cpp:83-119, 839-860).
THEOREM HandlersNeverRepeat == Spec => []NeverRepeated
  <1>1. ASSUME HandlersInv PROVE NeverRepeated
    BY <1>1 DEF HandlersInv, NeverRepeated
  <1>2. QED  BY <1>1, HandlersInvHolds, PTL

\* An error is never the answer to a call of which everything was done
\* (from_rc, tool_registry.cpp:123-141).
THEOREM ErrorsAreTrue == Spec => []ErrorIsNotDone
  <1>1. HandlersInv => ErrorIsNotDone
    BY DEF HandlersInv
  <1>2. QED  BY <1>1, HandlersInvHolds, PTL

\* What a handler reports as made - all that was asked for if its answer is ok,
\* else what it lists as applied - the editor has executed, whatever came back
\* and whatever was lost: the answer is made of bodies, not of statuses
\* (tool_registry.cpp:123-141).  The tools it leaves out do otherwise.
THEOREM OkCanBeBelieved == Spec => []OkIsDoneIfCandid
  <1>1. HandlersInv /\ (Candid(handler) => CandidInv) => OkIsDoneIfCandid
    <2> SUFFICES ASSUME HandlersInv, Candid(handler) => CandidInv,
                        tool \notin StatusOnly \cup FirstStep \cup Batches
                 PROVE  OkIsDone
      BY DEF OkIsDoneIfCandid
    <2>1. Candid(handler)
      BY HandlersAreDisciplined DEF Disciplined, HandlersInv, TypeOK
    <2>2. QED  BY <2>1 DEF CandidInv, OkIsDone
  <1>2. QED  BY <1>1, HandlersInvHolds, DisciplineHolds, PTL

\* Arguments that are refused are refused before anything is changed, however
\* late they are looked at (tool_registry.cpp:3085 being the exception).
THEOREM RefusalsAreClean == Spec => []RefusalChangesNothing
  <1>1. HandlersInv /\ (Cautious(handler) => CautiousInv) => RefusalChangesNothing
    <2> SUFFICES ASSUME HandlersInv, Cautious(handler) => CautiousInv,
                        tool # "ue_set_material_param"
                 PROVE  RefusedArgumentsChangeNothing
      BY DEF RefusalChangesNothing
    <2>1. Cautious(handler)
      BY HandlersAreDisciplined DEF Disciplined, HandlersInv, TypeOK
    <2>2. QED  BY <2>1 DEF CautiousInv
  <1>2. QED  BY <1>1, HandlersInvHolds, DisciplineHolds, PTL
=============================================================================
