-------------------------- MODULE McpServerProofs --------------------------
(***************************************************************************)
(* For any kinds of messages and any number of lines and of messages in a  *)
(* batch: the loop's state is well typed, and what it reads is answered    *)
(* once, in order and apart from the answers to other lines.               *)
(***************************************************************************)
EXTENDS McpServer, SequenceTheorems, TLAPS

\* The answers that have left are of lines up to n.
UpTo(n) == \A k \in 1..Len(out) : out[k][1].line <= n

\* Answers in the order of their messages.
Increasing(r) == \A a, b \in 1..Len(r) : a < b => r[a].msg < r[b].msg

\* While a line is handled, its messages are visited in order, its answers name
\* it, and only earlier lines have been answered.
Handling ==
    pc = "handling" =>
        /\ read >= 1
        /\ at >= 1 /\ at <= Len(Line.msgs) + 1
        /\ \A i \in 1..Len(responses) : responses[i].line = read /\ responses[i].msg < at
        /\ Increasing(responses)
        /\ UpTo(read - 1)

ServerInv == TypeOK /\ Handling /\ UpTo(read) /\ AnswersAreWhole

-----------------------------------------------------------------------------
\* The messages of a line are a sequence, no longer than a batch may be.
LEMMA MessagesOfLine ==
    ASSUME NEW line \in Lines
    PROVE  /\ line.form \in {"empty", "garbage", "single", "batch"}
           /\ line.msgs \in Seq(Kinds) /\ Len(line.msgs) \in 0..MaxBatch
  <1> DEFINE m == line.msgs
  <1>1. PICK k \in 0..MaxBatch : m = <<>> \/ m \in [1..k -> Kinds]
    <2>1. CASE line \in [form : {"empty", "garbage"}, msgs : {<<>>}]
      BY <2>1, McpAssumption
    <2>2. CASE line \in [form : {"single"}, msgs : [1..1 -> Kinds]]
      <3>1. m \in [1..1 -> Kinds] /\ 1 \in 0..MaxBatch
        BY <2>2, McpAssumption
      <3>2. QED  BY <3>1
    <2>3. CASE line \in [form : {"batch"}, msgs : UNION {[1..k -> Kinds] : k \in 0..MaxBatch}]
      BY <2>3
    <2>4. QED  BY <2>1, <2>2, <2>3 DEF Lines
  <1>2. line.form \in {"empty", "garbage", "single", "batch"}
    BY DEF Lines
  <1> HIDE DEF m
  <1>3. k \in Nat
    BY McpAssumption
  <1>4. ASSUME m = <<>> PROVE m \in Seq(Kinds) /\ Len(m) \in 0..MaxBatch
    <2>1. m \in Seq(Kinds) /\ Len(m) = 0
      BY <1>4
    <2>2. QED  BY <2>1, McpAssumption
  <1>5. ASSUME m \in [1..k -> Kinds] PROVE m \in Seq(Kinds) /\ Len(m) \in 0..MaxBatch
    <2>1. m \in Seq(Kinds) /\ DOMAIN m = 1..k
      BY <1>3, <1>5, SeqDef
    <2>2. Len(m) \in Nat /\ DOMAIN m = 1..Len(m)
      BY <2>1, LenProperties
    <2>3. Len(m) = k
      BY <1>3, <2>1, <2>2
    <2>4. QED  BY <2>1, <2>3
  <1>6. QED  BY <1>1, <1>2, <1>4, <1>5 DEF m

\* Each line of answers names a line.
LEMMA OutNamesLines ==
    ASSUME out \in Seq(Seq(Answers)), AnswersAreWhole
    PROVE  \A k \in 1..Len(out) : out[k][1].line \in Nat
  <1> TAKE k \in 1..Len(out)
  <1>1. out[k] \in Seq(Answers)
    BY ElementOfSeq
  <1>2. out[k] # <<>>
    BY Zenon DEF AnswersAreWhole
  <1>3. Len(out[k]) \in Nat \ {0}
    BY <1>1, <1>2, EmptySeq, Zenon
  <1>4. 1 \in 1..Len(out[k])
    BY <1>3
  <1>5. out[k][1] \in Answers
    BY <1>1, <1>4, ElementOfSeq, Zenon
  <1>6. out[k][1].line \in 1..MaxLines
    BY <1>5 DEF Answers
  <1>7. QED  BY <1>6, McpAssumption

\* One more line of answers, to a line after those that have been answered.
LEMMA AppendOut ==
    ASSUME out \in Seq(Seq(Answers)), AnswersAreWhole, NEW n \in Nat, UpTo(n - 1),
           NEW r \in Seq(Answers), r # <<>>, \A i \in 1..Len(r) : r[i].line = n,
           Increasing(r),
           out' = Append(out, r)
    PROVE  /\ out' \in Seq(Seq(Answers)) /\ AnswersAreWhole'
           /\ \A k \in 1..Len(out') : out'[k][1].line <= n
  <1>1. /\ out' \in Seq(Seq(Answers)) /\ Len(out') = Len(out) + 1 /\ Len(out) \in Nat
        /\ \A k \in 1..Len(out) : out'[k] = out[k]
        /\ out'[Len(out) + 1] = r
    OBVIOUS
  <1>2. Len(r) \in Nat /\ Len(r) >= 1 /\ r[1].line = n
    OBVIOUS
  <1>3. ASSUME NEW k \in 1..Len(out') PROVE k \in 1..Len(out) \/ k = Len(out) + 1
    BY <1>1
  <1>4. \A k \in 1..Len(out) : out[k][1].line \in Nat /\ out[k][1].line < n
    BY OutNamesLines DEF UpTo
  <1>5. ASSUME NEW k \in 1..Len(out') PROVE out'[k][1].line <= n
    <2>1. CASE k \in 1..Len(out)
      <3>1. out'[k] = out[k]
        BY <1>1, <2>1, Zenon
      <3>2. out[k][1].line \in Nat /\ out[k][1].line < n
        BY <1>4, <2>1, Zenon
      <3>3. \A l \in Nat : l < n => l <= n
        OBVIOUS
      <3>4. QED  BY <3>1, <3>2, <3>3, Zenon
    <2>2. CASE k = Len(out) + 1
      <3>1. out'[k] = r
        BY <1>1, <2>2, Zenon
      <3>2. QED  BY <1>2, <3>1
    <2>3. QED  BY <1>3, <2>1, <2>2
  <1>6. ASSUME NEW k \in 1..Len(out')
        PROVE  /\ out'[k] # <<>>
               /\ \A a, b \in 1..Len(out'[k]) :
                     /\ out'[k][a].line = out'[k][b].line
                     /\ a < b => out'[k][a].msg < out'[k][b].msg
               /\ k > 1 => out'[k - 1][1].line < out'[k][1].line
    <2>1. CASE k \in 1..Len(out)
      <3>0. k > 1 => k - 1 \in 1..Len(out)
        BY <2>1
      <3>1. out'[k] = out[k] /\ (k > 1 => k - 1 \in 1..Len(out) /\ out'[k - 1] = out[k - 1])
        BY <1>1, <2>1, <3>0, Zenon
      <3>2. /\ out[k] # <<>>
            /\ \A a, b \in 1..Len(out[k]) :
                  /\ out[k][a].line = out[k][b].line
                  /\ a < b => out[k][a].msg < out[k][b].msg
            /\ k > 1 => out[k - 1][1].line < out[k][1].line
        BY <2>1, Zenon DEF AnswersAreWhole
      <3>3. out'[k] # <<>>
        BY <3>1, <3>2, Zenon
      <3> DEFINE OneLine(s) == \A a, b \in 1..Len(s) :
                                  s[a].line = s[b].line /\ (a < b => s[a].msg < s[b].msg)
      <3>4. OneLine(out'[k])
        <4>1. OneLine(out[k])
          BY <3>2, Zenon
        <4> HIDE DEF OneLine
        <4>2. QED  BY <3>1, <4>1, Zenon
      <3>5. k > 1 => out'[k - 1][1].line < out'[k][1].line
        BY <3>1, <3>2, Zenon
      <3>6. QED  BY <3>3, <3>4, <3>5, Zenon
    <2>2. CASE k = Len(out) + 1
      <3>1. out'[k] = r /\ (k > 1 => k - 1 \in 1..Len(out) /\ out'[k - 1] = out[k - 1])
        BY <1>1, <2>2
      <3>2. k > 1 => out'[k - 1][1].line < out'[k][1].line
        BY <1>2, <1>4, <3>1
      <3>3. QED  BY <3>1, <3>2 DEF Increasing
    <2>3. QED  BY <1>3, <2>1, <2>2
  <1>7. QED  BY <1>1, <1>5, <1>6 DEF AnswersAreWhole

\* The invariant holds before the first line.
LEMMA InitServer == Init => ServerInv
  <1> SUFFICES ASSUME Init PROVE ServerInv
    OBVIOUS
  <1>1. /\ sent \in Seq(Lines) /\ Len(sent) = 0 /\ responses \in Seq(Answers)
        /\ out \in Seq(Seq(Answers)) /\ Len(out) = 0
    BY DEF Init
  <1>2. TypeOK
    <2>1. Len(sent) <= MaxLines /\ read \in 0..Len(sent) /\ at \in 0..(MaxBatch + 1)
      BY <1>1, McpAssumption DEF Init
    <2>2. QED  BY <1>1, <2>1 DEF Init, TypeOK
  <1>3. QED  BY <1>1, <1>2 DEF Init, ServerInv, Handling, UpTo, AnswersAreWhole

\* Facts of every state that the steps need.
LEMMA LineIsSent ==
    ASSUME TypeOK
    PROVE  /\ Len(sent) \in Nat /\ read \in Nat /\ at \in Nat
           /\ \A n \in 1..Len(sent) : sent[n] \in Lines /\ n \in 1..MaxLines
           /\ read >= 1 => read \in 1..Len(sent)
  BY McpAssumption DEF TypeOK

\* A line more to read changes none that was read.
LEMMA ClientWritesStep ==
    ASSUME ServerInv, NEW line \in Lines, ClientWrites(line)
    PROVE  ServerInv'
  <1>1. /\ sent' \in Seq(Lines) /\ Len(sent') = Len(sent) + 1 /\ Len(sent) \in Nat
        /\ \A n \in 1..Len(sent) : sent'[n] = sent[n]
    BY DEF ServerInv, TypeOK, ClientWrites
  <1>2. Len(sent') <= MaxLines
    BY <1>1, McpAssumption DEF ServerInv, TypeOK, ClientWrites
  <1>3. TypeOK'
    BY <1>1, <1>2 DEF ServerInv, TypeOK, ClientWrites
  <1>4. Handling'
    <2>1. ASSUME read >= 1 PROVE Line' = Line
      BY <1>1, <2>1 DEF ServerInv, TypeOK, ClientWrites, Line
    <2>2. QED  BY <2>1 DEF ServerInv, Handling, UpTo, ClientWrites
  <1>5. QED  BY <1>3, <1>4 DEF ServerInv, UpTo, AnswersAreWhole, ClientWrites

\* The line that is read is later than any that was answered.
LEMMA ReadLineStep ==
    ASSUME ServerInv, ReadLine
    PROVE  ServerInv'
  <1> DEFINE line == sent[read + 1]
  <1>1. /\ read \in Nat /\ read + 1 \in 1..Len(sent) /\ read + 1 \in 1..MaxLines
        /\ read' = read + 1 /\ line \in Lines /\ Line' = line
        /\ UNCHANGED <<sent, eof>>
    BY LineIsSent DEF ServerInv, ReadLine, Line
  <1>2. read' \in 0..Len(sent)
    BY <1>1, LineIsSent DEF ServerInv
  <1>3. \A k \in 1..Len(out) : out[k][1].line <= read
    BY DEF ServerInv, UpTo
  <1>4. CASE line.form = "empty"
    <2>1. UNCHANGED <<at, responses, out, pc>> /\ pc = "reading"
      BY <1>4 DEF ReadLine
    <2>2. TypeOK' /\ Handling'
      BY <1>1, <1>2, <2>1 DEF ServerInv, TypeOK, Handling
    <2>3. \A k \in 1..Len(out) : out[k][1].line \in Nat
      BY OutNamesLines DEF ServerInv, TypeOK
    <2>4. QED  BY <1>1, <1>3, <2>1, <2>2, <2>3 DEF ServerInv, UpTo, AnswersAreWhole
  <1>5. CASE line.form = "garbage"
    <2> DEFINE r == <<[line |-> read + 1, msg |-> 0, what |-> "-32700"]>>
    <2>1. UNCHANGED <<at, responses, pc>> /\ pc = "reading" /\ out' = Append(out, r)
      BY <1>5 DEF ReadLine
    <2>2. /\ r \in Seq(Answers) /\ r # <<>> /\ \A i \in 1..Len(r) : r[i].line = read + 1
          /\ Increasing(r)
      <3>1. [line |-> read + 1, msg |-> 0, what |-> "-32700"] \in Answers
        BY <1>1, McpAssumption DEF Answers
      <3>2. Len(r) = 1 /\ \A i \in 1..1 : i = 1
        OBVIOUS
      <3>3. Increasing(r)
        BY <3>2 DEF Increasing
      <3>4. QED  BY <3>1, <3>3
    <2> HIDE DEF r
    <2>3. /\ out \in Seq(Seq(Answers)) /\ AnswersAreWhole /\ UpTo((read + 1) - 1)
          /\ read + 1 \in Nat
      <3>1. out \in Seq(Seq(Answers)) /\ AnswersAreWhole /\ UpTo(read)
        BY DEF ServerInv, TypeOK
      <3>2. (read + 1) - 1 = read /\ read + 1 \in Nat
        BY <1>1
      <3>3. QED  BY <3>1, <3>2
    <2>4. /\ out' \in Seq(Seq(Answers)) /\ AnswersAreWhole'
          /\ \A k \in 1..Len(out') : out'[k][1].line <= read + 1
      BY <2>1, <2>2, <2>3, AppendOut
    <2>5. TypeOK' /\ Handling'
      BY <1>1, <1>2, <2>1, <2>4 DEF ServerInv, TypeOK, Handling
    <2>6. QED  BY <1>1, <2>4, <2>5 DEF ServerInv, UpTo
  <1>6. CASE line.form \notin {"empty", "garbage"}
    <2>1. at' = 1 /\ responses' = <<>> /\ pc' = "handling" /\ out' = out
      BY <1>6 DEF ReadLine
    <2>2. Len(line.msgs) \in Nat
      BY <1>1, MessagesOfLine
    <2>3. TypeOK'
      BY <1>1, <1>2, <2>1, McpAssumption DEF ServerInv, TypeOK
    <2>4. \A k \in 1..Len(out') : out'[k][1].line <= read /\ out'[k][1].line <= read + 1
      <3>1. \A k \in 1..Len(out) : out[k][1].line \in Nat
        BY OutNamesLines DEF ServerInv, TypeOK
      <3>2. QED  BY <1>1, <1>3, <2>1, <3>1
    <2>5. Handling'
      <3>1. read' - 1 = read /\ read' >= 1
        BY <1>1
      <3>2. /\ \A i \in 1..Len(responses') :
                  responses'[i].line = read' /\ responses'[i].msg < at'
            /\ Increasing(responses')
        BY <2>1 DEF Increasing
      <3>3. at' >= 1 /\ at' <= Len(Line'.msgs) + 1
        BY <1>1, <2>1, <2>2
      <3>4. QED  BY <2>4, <3>1, <3>2, <3>3 DEF Handling, UpTo
    <2>6. QED  BY <1>1, <2>1, <2>3, <2>4, <2>5 DEF ServerInv, AnswersAreWhole, UpTo
  <1>7. QED  BY <1>4, <1>5, <1>6

\* An answer names the line that is handled.
LEMMA HandleMessageStep ==
    ASSUME ServerInv, HandleMessage
    PROVE  ServerInv'
  <1> DEFINE kind == Line.msgs[at]
             a == [line |-> read, msg |-> at, what |-> AnswerOf(kind)]
  <1>1. /\ pc = "handling" /\ at <= Len(Line.msgs) /\ at' = at + 1 /\ kind \notin Escaping
        /\ responses' = IF kind \in Silent THEN responses ELSE Append(responses, a)
        /\ UNCHANGED <<sent, eof, read, out, pc>>
    BY DEF HandleMessage
  <1>2. /\ read \in Nat /\ read >= 1 /\ read \in 1..MaxLines /\ Line \in Lines
        /\ at \in Nat /\ at >= 1
    BY <1>1, LineIsSent DEF ServerInv, Handling, Line
  <1>3. /\ Line.msgs \in Seq(Kinds) /\ Len(Line.msgs) \in 0..MaxBatch /\ at \in 1..Len(Line.msgs)
    BY <1>1, <1>2, MessagesOfLine, McpAssumption
  <1>4. at \in 0..MaxBatch /\ at' \in 0..(MaxBatch + 1) /\ kind \in Kinds
    BY <1>1, <1>2, <1>3, McpAssumption
  <1>5. ASSUME kind \notin Silent PROVE a \in Answers
    <2>1. kind \in Answering
      BY <1>1, <1>4, <1>5, McpAssumption
    <2>2. AnswerOf(kind) \in {"result", "-32603", "-32601", "-32600", "-32700"}
      BY <2>1 DEF AnswerOf, Answering
    <2>3. QED  BY <1>2, <1>4, <2>2 DEF Answers
  <1>6. a.line = read /\ a.msg = at
    OBVIOUS
  <1>7. Line' = Line
    BY <1>1 DEF Line
  <1>8. /\ responses \in Seq(Answers) /\ Increasing(responses)
        /\ \A i \in 1..Len(responses) :
              responses[i].line = read /\ responses[i].msg < at /\ responses[i].msg \in Nat
    <2>1. responses \in Seq(Answers)
      BY DEF ServerInv, TypeOK
    <2>2. \A i \in 1..Len(responses) : responses[i].msg \in Nat
      <3> TAKE i \in 1..Len(responses)
      <3>1. responses[i] \in Answers
        BY <2>1
      <3>2. responses[i].msg \in 0..MaxBatch
        BY <3>1 DEF Answers
      <3>3. QED  BY <3>2, McpAssumption
    <2>3. QED  BY <1>1, <2>1, <2>2 DEF ServerInv, Handling
  <1> HIDE DEF a, kind
  <1>9. /\ responses' \in Seq(Answers) /\ Increasing(responses')
        /\ \A i \in 1..Len(responses') : responses'[i].line = read /\ responses'[i].msg < at'
    <2>1. CASE kind \in Silent
      BY <1>1, <1>2, <1>8, <2>1
    <2>2. CASE kind \notin Silent
      <3>1. responses' = Append(responses, a) /\ a \in Answers
        BY <1>1, <1>5, <2>2
      <3>2. /\ responses' \in Seq(Answers) /\ Len(responses') = Len(responses) + 1
            /\ \A i \in 1..Len(responses) : responses'[i] = responses[i]
            /\ responses'[Len(responses) + 1] = a /\ Len(responses) \in Nat
        BY <1>8, <3>1
      <3>3. \A i \in 1..Len(responses') : i \in 1..Len(responses) \/ i = Len(responses) + 1
        BY <3>2
      <3>4. Increasing(responses')
        <4> SUFFICES ASSUME NEW i \in 1..Len(responses'), NEW j \in 1..Len(responses'), i < j
                     PROVE  responses'[i].msg < responses'[j].msg
          BY DEF Increasing
        <4>1. i \in 1..Len(responses)
          BY <3>2
        <4>2. CASE j \in 1..Len(responses)
          BY <1>8, <3>2, <4>1, <4>2 DEF Increasing
        <4>3. CASE j = Len(responses) + 1
          BY <1>6, <1>8, <3>2, <4>1, <4>3
        <4>4. QED  BY <3>3, <4>2, <4>3
      <3>5. QED  BY <1>1, <1>2, <1>6, <1>8, <3>2, <3>3, <3>4
    <2>3. QED  BY <2>1, <2>2
  <1>10. TypeOK'
    BY <1>1, <1>4, <1>9 DEF ServerInv, TypeOK
  <1>11. Handling'
    <2>1. at' >= 1 /\ at' <= Len(Line'.msgs) + 1
      BY <1>1, <1>2, <1>3, <1>7
    <2>2. QED  BY <1>1, <1>2, <1>9, <2>1 DEF ServerInv, Handling, UpTo
  <1>12. QED  BY <1>1, <1>10, <1>11 DEF ServerInv, UpTo, AnswersAreWhole

\* The answers of the line leave after those of earlier lines.
LEMMA EmitStep ==
    ASSUME ServerInv, Emit
    PROVE  ServerInv'
  <1>1. /\ pc = "handling" /\ pc' = "reading" /\ at' = 0 /\ responses' = <<>>
        /\ out' = IF responses = <<>> THEN out ELSE Append(out, responses)
        /\ UNCHANGED <<sent, eof, read>>
    BY DEF Emit
  <1>2. /\ responses \in Seq(Answers) /\ \A i \in 1..Len(responses) : responses[i].line = read
        /\ Increasing(responses) /\ UpTo(read - 1) /\ read \in Nat
        /\ out \in Seq(Seq(Answers)) /\ AnswersAreWhole
    BY <1>1, LineIsSent DEF ServerInv, Handling, TypeOK
  <1>3. /\ out' \in Seq(Seq(Answers)) /\ AnswersAreWhole'
        /\ \A k \in 1..Len(out') : out'[k][1].line <= read
    <2>1. CASE responses = <<>>
      BY <1>1, <1>2, <2>1 DEF ServerInv, UpTo, AnswersAreWhole
    <2>2. CASE responses # <<>>
      BY <1>1, <1>2, <2>2, AppendOut
    <2>3. QED  BY <2>1, <2>2
  <1>4. at' \in 0..(MaxBatch + 1) /\ responses' \in Seq(Answers)
    BY <1>1, McpAssumption
  <1>5. TypeOK'
    BY <1>1, <1>3, <1>4 DEF ServerInv, TypeOK
  <1>6. Handling' /\ UpTo(read)'
    BY <1>1, <1>3 DEF Handling, UpTo
  <1>7. QED  BY <1>3, <1>5, <1>6 DEF ServerInv

LEMMA SameOut ==
    ASSUME out' = out, AnswersAreWhole
    PROVE  AnswersAreWhole'
  BY DEF AnswersAreWhole

\* Every step keeps the invariant.
LEMMA ServerInvKept == ServerInv /\ [Next]_vars => ServerInv'
  <1> SUFFICES ASSUME ServerInv, [Next]_vars PROVE ServerInv'
    OBVIOUS
  <1>1. ASSUME NEW line \in Lines, ClientWrites(line) PROVE ServerInv'
    BY <1>1, ClientWritesStep
  <1>2. CASE ReadLine
    BY <1>2, ReadLineStep
  <1>3. CASE HandleMessage
    BY <1>3, HandleMessageStep
  <1>4. CASE Emit
    BY <1>4, EmitStep
  <1>5. CASE ClientCloses \/ EndOfInput \/ HandleMessageThrows \/ UNCHANGED vars
    <2>1. /\ UNCHANGED <<sent, read, at, responses, out>>
          /\ eof' \in BOOLEAN /\ pc' \in {pc, "returned", "terminated"}
      BY <1>5 DEF ClientCloses, EndOfInput, HandleMessageThrows, vars, ServerInv, TypeOK
    <2>2. TypeOK'
      BY <2>1 DEF ServerInv, TypeOK
    <2>3. UpTo(read)' /\ UpTo(read - 1)' = UpTo(read - 1)
      BY <2>1 DEF ServerInv, UpTo
    <2>4. Handling'
      BY <2>1, <2>3 DEF ServerInv, Handling, Line, Increasing
    <2>5. AnswersAreWhole'
      BY <2>1, SameOut DEF ServerInv
    <2>6. QED  BY <2>2, <2>3, <2>4, <2>5 DEF ServerInv
  <1>6. QED  BY <1>1, <1>2, <1>3, <1>4, <1>5 DEF Next, ServerStep

-----------------------------------------------------------------------------
(* Nothing that was asked is forgotten, nothing else is answered.          *)

\* Between lines everything that was read is answered; while a line is handled,
\* all before it is, and the answers to its messages so far are at hand.
AnsweredSoFar ==
    /\ pc \in {"reading", "returned"} => AllAnswered(read)
    /\ pc = "handling" =>
          /\ Line.form # "garbage"
          /\ AllAnswered(read - 1)
          /\ \A i \in 1..Len(responses) : Due(read, responses[i].msg)
          /\ \A j \in 1..Len(Line.msgs) :
                j < at /\ Line.msgs[j] \in Answering =>
                    \E i \in 1..Len(responses) : responses[i].msg = j
    /\ OnlyDue

\* A line that is empty or no JSON has no messages.
LEMMA NoMessages ==
    ASSUME NEW line \in Lines, line.form \in {"empty", "garbage"}
    PROVE  line.msgs = <<>>
  <1>1. line \notin [form : {"single"}, msgs : [1..1 -> Kinds]]
    OBVIOUS
  <1>2. line \notin [form : {"batch"}, msgs : UNION {[1..k -> Kinds] : k \in 0..MaxBatch}]
    OBVIOUS
  <1>3. QED  BY <1>1, <1>2 DEF Lines

\* What a line asks for is asked for ever.
LEMMA DueKept ==
    ASSUME NEW n, sent'[n] = sent[n]
    PROVE  \A j : Due(n, j)' <=> Due(n, j)
  BY DEF Due

\* No step that writes nothing loses an answer.
LEMMA SameAnswers ==
    ASSUME NEW n, out' = out, \A l \in 1..n : sent'[l] = sent[l], AllAnswered(n)
    PROVE  AllAnswered(n)'
  <1> SUFFICES ASSUME NEW l \in 1..n, NEW j \in 0..MaxBatch, Due(l, j)' PROVE Answered(l, j)'
    BY DEF AllAnswered
  <1>1. Due(l, j)
    BY DueKept
  <1>2. Answered(l, j)
    BY <1>1 DEF AllAnswered
  <1>3. QED  BY <1>2 DEF Answered

LEMMA SameOnlyDue ==
    ASSUME TypeOK, OnlyDue, out' = out, read' \in Nat, read' >= read,
           \A l \in 1..Len(sent) : sent'[l] = sent[l]
    PROVE  OnlyDue'
  <1> SUFFICES ASSUME NEW k \in 1..Len(out), NEW i \in 1..Len(out[k])
               PROVE  out[k][i].line \in 1..read' /\ Due(out[k][i].line, out[k][i].msg)'
    BY DEF OnlyDue
  <1>1. out[k][i].line \in 1..read /\ Due(out[k][i].line, out[k][i].msg)
    BY DEF OnlyDue
  <1>2. read \in Nat /\ 1..read \subseteq 1..Len(sent) /\ 1..read \subseteq 1..read'
    BY LineIsSent DEF TypeOK
  <1>3. sent'[out[k][i].line] = sent[out[k][i].line]
    BY <1>1, <1>2
  <1>4. QED  BY <1>1, <1>2, <1>3, DueKept DEF Due

\* One more line of answers keeps those there are and adds its own.
LEMMA AppendAnswers ==
    ASSUME TypeOK, NEW r \in Seq(Answers), out' = Append(out, r), sent' = sent,
           NEW n, AllAnswered(n - 1), n \in Nat \ {0}, read <= n, read' = n, OnlyDue,
           \A i \in 1..Len(r) : r[i].line = n /\ Due(n, r[i].msg),
           \A j \in 0..MaxBatch : Due(n, j) => \E i \in 1..Len(r) : r[i].msg = j
    PROVE  AllAnswered(n)' /\ OnlyDue'
  <1>1. /\ Len(out') = Len(out) + 1 /\ Len(out) \in Nat
        /\ \A k \in 1..Len(out) : out'[k] = out[k] /\ k \in 1..Len(out')
        /\ out'[Len(out) + 1] = r /\ Len(out) + 1 \in 1..Len(out')
        /\ \A k \in 1..Len(out') : k \in 1..Len(out) \/ k = Len(out) + 1
    BY DEF TypeOK
  <1>2. \A l, j : Due(l, j)' <=> Due(l, j)
    BY DueKept
  <1>3. AllAnswered(n)'
    <2> SUFFICES ASSUME NEW l \in 1..n, NEW j \in 0..MaxBatch, Due(l, j) PROVE Answered(l, j)'
      BY <1>2 DEF AllAnswered
    <2>1. CASE l \in 1..(n - 1)
      <3>1. PICK k \in 1..Len(out) :
                \E i \in 1..Len(out[k]) : out[k][i].line = l /\ out[k][i].msg = j
        BY <2>1 DEF AllAnswered, Answered
      <3>2. QED  BY <1>1, <3>1 DEF Answered
    <2>2. CASE l = n
      <3>1. PICK i \in 1..Len(r) : r[i].line = n /\ r[i].msg = j
        BY <2>2
      <3>2. QED  BY <1>1, <2>2, <3>1 DEF Answered
    <2>3. l \in 1..(n - 1) \/ l = n
      OBVIOUS
    <2>4. QED  BY <2>1, <2>2, <2>3
  <1>4. OnlyDue'
    <2> SUFFICES ASSUME NEW k \in 1..Len(out'), NEW i \in 1..Len(out'[k])
                 PROVE  out'[k][i].line \in 1..n /\ Due(out'[k][i].line, out'[k][i].msg)
      BY <1>2 DEF OnlyDue
    <2>1. CASE k \in 1..Len(out)
      <3>1. out'[k] = out[k]
        BY <1>1, <2>1
      <3>2. out[k][i].line \in 1..read /\ Due(out[k][i].line, out[k][i].msg)
        BY <2>1, <3>1 DEF OnlyDue
      <3>3. 1..read \subseteq 1..n
        BY LineIsSent
      <3>4. QED  BY <3>1, <3>2, <3>3
    <2>2. CASE k = Len(out) + 1
      BY <1>1, <2>2
    <2>3. QED  BY <1>1, <2>1, <2>2
  <1>5. QED  BY <1>3, <1>4

\* Nothing is due before the first line.
LEMMA InitAnswers == Init => AnsweredSoFar
  <1> SUFFICES ASSUME Init PROVE AnsweredSoFar
    OBVIOUS
  <1>1. read = 0 /\ pc = "reading" /\ out = <<>> /\ Len(out) = 0
    BY DEF Init
  <1>2. AllAnswered(read)
    BY <1>1 DEF AllAnswered
  <1>3. OnlyDue
    BY <1>1 DEF OnlyDue
  <1>4. QED  BY <1>1, <1>2, <1>3 DEF AnsweredSoFar

\* The client's steps.
LEMMA ClientAnswers ==
    ASSUME ServerInv, AnsweredSoFar,
           ClientCloses \/ \E line \in Lines : ClientWrites(line)
    PROVE  AnsweredSoFar'
  <1>1. UNCHANGED <<read, at, responses, out, pc>>
    BY DEF ClientCloses, ClientWrites
  <1>2. \A n \in 1..Len(sent) : sent'[n] = sent[n]
    BY DEF ServerInv, TypeOK, ClientCloses, ClientWrites
  <1>3. /\ read \in Nat /\ 1..read \subseteq 1..Len(sent) /\ 1..(read - 1) \subseteq 1..Len(sent)
        /\ read >= 1 => read \in 1..Len(sent)
    BY LineIsSent DEF ServerInv, TypeOK
  <1>4. OnlyDue'
    BY <1>1, <1>2, <1>3, SameOnlyDue DEF ServerInv, AnsweredSoFar
  <1>5. CASE pc \in {"reading", "returned"}
    <2>1. AllAnswered(read) /\ \A l \in 1..read : sent'[l] = sent[l]
      BY <1>2, <1>3, <1>5 DEF AnsweredSoFar
    <2>2. AllAnswered(read)'
      BY <1>1, <2>1, SameAnswers DEF AllAnswered
    <2>3. QED  BY <1>1, <1>4, <1>5, <2>2 DEF AnsweredSoFar
  <1>6. CASE pc = "handling"
    <2>1. read >= 1
      BY <1>6 DEF ServerInv, Handling
    <2>2. sent'[read] = sent[read] /\ Line' = Line
      BY <1>1, <1>2, <1>3, <2>1 DEF Line
    <2>3. AllAnswered(read - 1) /\ \A l \in 1..(read - 1) : sent'[l] = sent[l]
      BY <1>2, <1>3, <1>6 DEF AnsweredSoFar
    <2>4. AllAnswered(read - 1)'
      BY <1>1, <2>3, SameAnswers DEF AllAnswered
    <2>5. \A j : Due(read, j)' <=> Due(read, j)
      BY <1>1, <2>2, DueKept
    <2>6. \A i \in 1..Len(responses') : Due(read, responses[i].msg)'
      BY <1>1, <1>6, <2>5 DEF AnsweredSoFar
    <2>7. QED  BY <1>1, <1>4, <1>6, <2>2, <2>4, <2>6 DEF AnsweredSoFar, Due
  <1>7. CASE pc \notin {"reading", "returned", "handling"}
    BY <1>1, <1>4, <1>7 DEF AnsweredSoFar
  <1>8. QED  BY <1>5, <1>6, <1>7

\* A line that is no JSON is answered at once, an empty one asks for nothing.
LEMMA ReadLineAnswers ==
    ASSUME ServerInv, AnsweredSoFar, ReadLine
    PROVE  AnsweredSoFar'
  <1> DEFINE line == sent[read + 1]
  <1>0. PICK n \in Nat : n = read + 1
    BY LineIsSent DEF ServerInv
  <1>1. /\ read \in Nat /\ read + 1 \in 1..Len(sent) /\ line \in Lines /\ Line' = line
        /\ read' = read + 1 /\ sent' = sent /\ pc = "reading"
        /\ AllAnswered(read) /\ OnlyDue /\ n - 1 = read /\ n \in Nat \ {0} /\ read' = n
    BY <1>0, LineIsSent DEF ServerInv, ReadLine, Line, AnsweredSoFar
  <1>2. line.form \in {"empty", "garbage"} =>
            \A j : Due(n, j) <=> line.form = "garbage" /\ j = 0
    <2>1. line.form \in {"empty", "garbage"} => Len(line.msgs) = 0
      BY <1>1, NoMessages
    <2>2. QED  BY <1>0, <2>1 DEF Due
  <1>3. CASE line.form = "empty"
    <2>1. UNCHANGED <<out, pc>>
      BY <1>3 DEF ReadLine
    <2>2. AllAnswered(n)
      <3>1. \A l \in 1..n : l \in 1..read \/ l = n
        BY <1>1
      <3>2. \A j \in 0..MaxBatch : ~Due(n, j)
        BY <1>2, <1>3
      <3>3. QED  BY <1>1, <3>1, <3>2 DEF AllAnswered
    <2>3. AllAnswered(n)'
      <3>1. \A l \in 1..n : sent'[l] = sent[l]
        BY <1>1
      <3>2. QED  BY <2>1, <2>2, <3>1, SameAnswers
    <2>4. AllAnswered(read)'
      BY <1>1, <2>3 DEF AllAnswered
    <2>5. OnlyDue'
      BY <1>1, <2>1, SameOnlyDue DEF ServerInv
    <2>6. QED  BY <1>1, <2>1, <2>4, <2>5 DEF AnsweredSoFar
  <1>4. CASE line.form = "garbage"
    <2> DEFINE r == <<[line |-> read + 1, msg |-> 0, what |-> "-32700"]>>
    <2>1. pc' = pc /\ out' = Append(out, r)
      BY <1>4 DEF ReadLine
    <2>2. r \in Seq(Answers)
      <3>1. [line |-> read + 1, msg |-> 0, what |-> "-32700"] \in Answers
        BY <1>1, LineIsSent, McpAssumption DEF Answers, ServerInv
      <3>2. QED  BY <3>1
    <2>3. /\ Len(r) = 1 /\ r[1].line = read + 1 /\ r[1].msg = 0
          /\ \A i \in 1..1 : i = 1
      OBVIOUS
    <2> HIDE DEF r
    <2>4. /\ \A i \in 1..Len(r) : r[i].line = n /\ Due(n, r[i].msg)
          /\ \A j \in 0..MaxBatch : Due(n, j) => \E i \in 1..Len(r) : r[i].msg = j
      BY <1>0, <1>2, <1>4, <2>3
    <2>5. AllAnswered(n)' /\ OnlyDue'
      <3>1. read <= n /\ AllAnswered(n - 1) /\ TypeOK
        BY <1>1 DEF ServerInv
      <3>2. QED  BY <1>1, <2>1, <2>2, <2>4, <3>1, AppendAnswers
    <2>6. AllAnswered(read)'
      BY <1>1, <2>5 DEF AllAnswered
    <2>7. QED  BY <1>1, <2>1, <2>5, <2>6 DEF AnsweredSoFar
  <1>5. CASE line.form \notin {"empty", "garbage"}
    <2>1. at' = 1 /\ responses' = <<>> /\ pc' = "handling" /\ out' = out
      BY <1>5 DEF ReadLine
    <2>2. PICK m \in Nat : m = read
      BY <1>1
    <2>3. AllAnswered(read - 1)'
      <3>1. AllAnswered(m) /\ \A l \in 1..m : sent'[l] = sent[l]
        BY <1>1, <2>2
      <3>2. AllAnswered(m)'
        BY <2>1, <3>1, SameAnswers
      <3>3. read' - 1 = m
        BY <1>1, <2>2
      <3>4. QED  BY <3>2, <3>3 DEF AllAnswered
    <2>4. OnlyDue'
      BY <1>1, <2>1, SameOnlyDue DEF ServerInv
    <2>5. Len(responses') = 0 /\ \A j \in 1..Len(line.msgs) : ~(j < at')
      BY <2>1
    <2>6. QED  BY <1>1, <1>5, <2>1, <2>3, <2>4, <2>5 DEF AnsweredSoFar
  <1>6. QED  BY <1>3, <1>4, <1>5

\* A message that asks is answered, one that does not is not.
LEMMA HandleMessageAnswers ==
    ASSUME ServerInv, AnsweredSoFar, HandleMessage
    PROVE  AnsweredSoFar'
  <1> DEFINE kind == Line.msgs[at]
             a == [line |-> read, msg |-> at, what |-> AnswerOf(kind)]
  <1>1. /\ pc = "handling" /\ at <= Len(Line.msgs) /\ at' = at + 1 /\ kind \notin Escaping
        /\ responses' = IF kind \in Silent THEN responses ELSE Append(responses, a)
        /\ UNCHANGED <<sent, eof, read, out, pc>>
    BY DEF HandleMessage
  <1>2. /\ read \in Nat /\ read >= 1 /\ Line \in Lines /\ at \in Nat /\ at >= 1 /\ Line = sent[read]
        /\ responses \in Seq(Answers) /\ Len(responses) \in Nat
    BY <1>1, LineIsSent DEF ServerInv, Handling, Line, TypeOK
  <1>3. at \in 1..Len(Line.msgs) /\ kind \in Kinds
    <2>1. Line.msgs \in Seq(Kinds) /\ Len(Line.msgs) \in Nat
      BY <1>2, MessagesOfLine, McpAssumption
    <2>2. QED  BY <1>1, <1>2, <2>1
  <1>4. kind \in Silent \/ (kind \in Answering /\ kind \notin Silent)
    BY <1>1, <1>3, McpAssumption DEF Silent, Answering
  <1>5. a.msg = at /\ (kind \in Silent => kind \notin Answering)
    BY DEF Silent, Answering
  <1>6. Due(read, at) <=> kind \in Answering \/ (Line.form = "garbage" /\ at = 0)
    BY <1>2, <1>3 DEF Due
  <1>7. Line' = Line
    BY <1>1 DEF Line
  <1>8. /\ Line.form # "garbage" /\ AllAnswered(read - 1) /\ OnlyDue
        /\ \A i \in 1..Len(responses) : Due(read, responses[i].msg)
        /\ \A j \in 1..Len(Line.msgs) :
              j < at /\ Line.msgs[j] \in Answering =>
                  \E i \in 1..Len(responses) : responses[i].msg = j
    BY <1>1 DEF AnsweredSoFar
  <1> HIDE DEF a
  <1>9. /\ \A i \in 1..Len(responses') : Due(read, responses'[i].msg)
        /\ \A j \in 1..Len(Line.msgs) :
              j < at' /\ Line.msgs[j] \in Answering =>
                  \E i \in 1..Len(responses') : responses'[i].msg = j
    <2>1. ASSUME NEW j \in 1..Len(Line.msgs), j < at' PROVE j < at \/ j = at
      BY <1>1, <1>2, <2>1
    <2>2. CASE kind \in Silent
      <3>1. responses' = responses /\ kind \notin Answering
        BY <1>1, <1>5, <2>2
      <3>2. QED  BY <1>8, <2>1, <3>1
    <2>3. CASE kind \notin Silent
      <3>1. responses' = Append(responses, a) /\ kind \in Answering
        BY <1>1, <1>4, <2>3
      <3>2. /\ Len(responses') = Len(responses) + 1
            /\ \A i \in 1..Len(responses) : responses'[i] = responses[i] /\ i \in 1..Len(responses')
            /\ responses'[Len(responses) + 1].msg = at
            /\ Len(responses) + 1 \in 1..Len(responses')
            /\ \A i \in 1..Len(responses') : i \in 1..Len(responses) \/ i = Len(responses) + 1
        BY <1>2, <1>5, <3>1
      <3> HIDE DEF kind
      <3>3. \A i \in 1..Len(responses') : Due(read, responses'[i].msg)
        BY <1>6, <1>8, <3>1, <3>2
      <3>4. ASSUME NEW j \in 1..Len(Line.msgs), j < at', Line.msgs[j] \in Answering
            PROVE  \E i \in 1..Len(responses') : responses'[i].msg = j
        <4>1. CASE j < at
          <5>1. PICK i \in 1..Len(responses) : responses[i].msg = j
            BY <1>8, <3>4, <4>1
          <5>2. QED  BY <3>2, <5>1
        <4>2. CASE j = at
          BY <3>2, <4>2
        <4>3. QED  BY <2>1, <3>4, <4>1, <4>2
      <3>5. QED  BY <3>3, <3>4
    <2>4. QED  BY <2>2, <2>3
  <1>10. AllAnswered(read - 1)' /\ OnlyDue'
    <2>1. AllAnswered(read - 1)'
      BY <1>1, <1>8, SameAnswers DEF AllAnswered
    <2>2. OnlyDue'
      BY <1>1, <1>2, <1>8, SameOnlyDue DEF ServerInv
    <2>3. QED  BY <2>1, <2>2
  <1>11. \A i \in 1..Len(responses') : Due(read, responses[i].msg)' <=> Due(read, responses'[i].msg)
    BY <1>1 DEF Due
  <1>12. QED  BY <1>1, <1>7, <1>8, <1>9, <1>10 DEF AnsweredSoFar, Due

\* When all messages of a line have been visited, all it asked for leaves.
LEMMA EmitAnswers ==
    ASSUME ServerInv, AnsweredSoFar, Emit
    PROVE  AnsweredSoFar'
  <1>1. /\ pc = "handling" /\ pc' = "reading" /\ at > Len(Line.msgs)
        /\ out' = IF responses = <<>> THEN out ELSE Append(out, responses)
        /\ UNCHANGED <<sent, eof, read>>
    BY DEF Emit
  <1>2. /\ read \in Nat /\ read >= 1 /\ Line \in Lines /\ at \in Nat /\ Line = sent[read]
        /\ responses \in Seq(Answers) /\ TypeOK
        /\ \A i \in 1..Len(responses) : responses[i].line = read
    BY <1>1, LineIsSent DEF ServerInv, Handling, Line, TypeOK
  <1>3. /\ Line.form # "garbage" /\ AllAnswered(read - 1) /\ OnlyDue
        /\ \A i \in 1..Len(responses) : Due(read, responses[i].msg)
        /\ \A j \in 1..Len(Line.msgs) :
              j < at /\ Line.msgs[j] \in Answering =>
                  \E i \in 1..Len(responses) : responses[i].msg = j
    BY <1>1 DEF AnsweredSoFar
  <1>4. ASSUME NEW j, Due(read, j)
        PROVE  \E i \in 1..Len(responses) : responses[i].msg = j
    <2>1. j \in 1..Len(Line.msgs) /\ Line.msgs[j] \in Answering
      BY <1>2, <1>3, <1>4 DEF Due
    <2>2. Len(Line.msgs) \in Nat
      BY <1>2, MessagesOfLine, McpAssumption
    <2>3. j < at
      BY <1>1, <1>2, <2>1, <2>2
    <2>4. QED  BY <1>3, <2>1, <2>3
  <1>5. AllAnswered(read)' /\ OnlyDue'
    <2>1. CASE responses = <<>>
      <3>1. \A j : ~Due(read, j)
        BY <1>4, <2>1
      <3>2. \A l \in 1..read : l \in 1..(read - 1) \/ l = read
        BY <1>2
      <3>3. AllAnswered(read) /\ out' = out
        BY <1>1, <1>3, <2>1, <3>1, <3>2 DEF AllAnswered
      <3>4. AllAnswered(read)'
        BY <1>1, <3>3, SameAnswers DEF AllAnswered
      <3>5. OnlyDue'
        BY <1>1, <1>2, <1>3, <3>3, SameOnlyDue
      <3>6. QED  BY <3>4, <3>5
    <2>2. CASE responses # <<>>
      <3>1. /\ out' = Append(out, responses) /\ read <= read /\ read' = read
            /\ read \in Nat \ {0} /\ sent' = sent
        BY <1>1, <1>2, <2>2
      <3>2. /\ \A i \in 1..Len(responses) : responses[i].line = read /\ Due(read, responses[i].msg)
            /\ \A j \in 0..MaxBatch : Due(read, j) => \E i \in 1..Len(responses) : responses[i].msg = j
        BY <1>2, <1>3, <1>4
      <3> DEFINE n == read
      <3>3. AllAnswered(n)' /\ OnlyDue'
        BY <1>2, <1>3, <3>1, <3>2, AppendAnswers
      <3>4. QED  BY <3>3
    <2>3. QED  BY <2>1, <2>2
  <1>6. QED  BY <1>1, <1>5 DEF AnsweredSoFar

\* It holds for ever.
LEMMA ServerInvHolds == Spec => []ServerInv
  BY InitServer, ServerInvKept, PTL DEF Spec

LEMMA AnswersHold == Spec => []AnsweredSoFar
  <1>1. ServerInv /\ AnsweredSoFar /\ [Next]_vars => AnsweredSoFar'
    <2> SUFFICES ASSUME ServerInv, AnsweredSoFar, [Next]_vars PROVE AnsweredSoFar'
      OBVIOUS
    <2>1. CASE ClientCloses \/ \E line \in Lines : ClientWrites(line)
      BY <2>1, ClientAnswers
    <2>2. CASE ReadLine
      BY <2>2, ReadLineAnswers
    <2>3. CASE EndOfInput \/ HandleMessageThrows
      <3>1. UNCHANGED <<sent, read, out>> /\ pc' \in {"returned", "terminated"}
            /\ (pc' = "returned" => pc = "reading")
        BY <2>3 DEF EndOfInput, HandleMessageThrows
      <3>2. OnlyDue'
        BY <3>1, SameOnlyDue, LineIsSent DEF ServerInv, AnsweredSoFar
      <3>3. ASSUME pc = "reading" PROVE AllAnswered(read)'
        BY <3>1, <3>3, SameAnswers DEF AnsweredSoFar, AllAnswered
      <3>4. QED  BY <3>1, <3>2, <3>3 DEF AnsweredSoFar
    <2>4. CASE HandleMessage
      BY <2>4, HandleMessageAnswers
    <2>5. CASE Emit
      BY <2>5, EmitAnswers
    <2>6. CASE UNCHANGED vars
      <3>1. AllAnswered(read)' = AllAnswered(read) /\ AllAnswered(read - 1)' = AllAnswered(read - 1)
        BY <2>6 DEF vars, AllAnswered, Answered, Due
      <3>2. OnlyDue' = OnlyDue
        BY <2>6 DEF vars, OnlyDue, Due
      <3>3. \A i \in 1..Len(responses') : Due(read, responses[i].msg)' = Due(read, responses[i].msg)
        BY <2>6 DEF vars, Due
      <3>4. QED  BY <2>6, <3>1, <3>2, <3>3 DEF vars, AnsweredSoFar, Line
    <2>7. QED  BY <2>1, <2>2, <2>3, <2>4, <2>5, <2>6 DEF Next, ServerStep
  <1>2. QED  BY <1>1, InitAnswers, ServerInvHolds, PTL DEF Spec

-----------------------------------------------------------------------------
(* The theorems.                                                           *)

\* The loop of McpServer::run keeps its place: what it reads, dispatches and
\* answers has its type (mcp_server.cpp:107-159).
THEOREM ServerTypeCorrect == Spec => []TypeOK
  <1>1. ServerInv => TypeOK
    BY DEF ServerInv
  <1>2. QED  BY <1>1, ServerInvHolds, PTL

\* Whatever the client sends: each request of the lines that were read is
\* answered once, in order, in one line with the others of its batch and with
\* those of no other line; what is not a request is not answered; a line that is
\* no JSON is answered by itself (mcp_server.cpp:107-140).
THEOREM EveryRequestIsAnsweredOnce == Spec => []AnswersEveryRequestOnce
  <1>1. ServerInv /\ AnsweredSoFar => AnswersEveryRequestOnce
    BY DEF ServerInv, AnsweredSoFar, AnswersEveryRequestOnce
  <1>2. QED  BY <1>1, ServerInvHolds, AnswersHold, PTL
=============================================================================
