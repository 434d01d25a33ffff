--------------------------- MODULE IniUpsertProofs ---------------------------
(***************************************************************************)
(* For files of any shape and any lists of settings: what upsert_ini_file  *)
(* leaves behind.                                                          *)
(*                                                                         *)
(* What the first n lines of a text say about a setting comes down to five *)
(* things (the section was seen, one is in it, the entry is missing, it is *)
(* there as it should be, no section was left without it), and what a line *)
(* more does to each depends on the line and these five only.  The loop is *)
(* followed through them; line numbers occur in the first lemmas only.     *)
(***************************************************************************)
EXTENDS IniUpsert, SequenceTheorems, TLAPS

In(s, t, n)   == Under(t, n, s.section)
Saw(s, t, n)  == \E k \in 1..n : t[k].kind = "section" /\ t[k].name = s.section
None(s, t, n) == \A k \in 1..n : ~SettingAt(s, t, k)
Has(s, t, n)  == \E k \in 1..n : /\ t[k] = Entry(s.key, s.value)
                                 /\ \A j \in 1..n : SettingAt(s, t, j) <=> j = k
Good(s, t, n) == \A k \in 1..n : t[k].kind = "section" /\ In(s, t, k - 1) => ~None(s, t, k - 1)

\* Two texts that are the same up to line n.
Agree(t, u, n) == \A k \in 1..n : u[k] = t[k]

\* A line that is an entry of the setting, if it comes after line n.
New(s, t, n, line) == line.kind = "entry" /\ line.name = s.key /\ In(s, t, n)

-----------------------------------------------------------------------------
(* A line more.                                                            *)

\* What texts say that are the same so far.
LEMMA AgreeUnder ==
    ASSUME NEW n \in Nat, NEW t, NEW u, Agree(t, u, n)
    PROVE  \A k \in 0..n : \A name : Under(u, k, name) <=> Under(t, k, name)
  <1> TAKE k \in 0..n
  <1> TAKE name
  <1>1. 1..k \subseteq 1..n /\ \A j \in 1..k : (j + 1)..k \subseteq 1..n
    OBVIOUS
  <1>2. QED  BY <1>1 DEF Under, Agree

LEMMA AgreeSettingAt ==
    ASSUME NEW n \in Nat, NEW t, NEW u, Agree(t, u, n), NEW s
    PROVE  \A k \in 1..n : SettingAt(s, u, k) <=> SettingAt(s, t, k)
  <1>1. 1..n \subseteq 0..n
    OBVIOUS
  <1>2. QED  BY <1>1, AgreeUnder DEF SettingAt, Agree

LEMMA AgreeSays ==
    ASSUME NEW n \in Nat, NEW t, NEW u, Agree(t, u, n), NEW s
    PROVE  /\ In(s, u, n) <=> In(s, t, n)
           /\ Saw(s, u, n) <=> Saw(s, t, n)
           /\ None(s, u, n) <=> None(s, t, n)
           /\ Has(s, u, n) <=> Has(s, t, n)
           /\ Good(s, u, n) <=> Good(s, t, n)
  <1>1. \A k \in 1..n : SettingAt(s, u, k) <=> SettingAt(s, t, k)
    BY AgreeSettingAt
  <1>2. \A k \in 0..n : In(s, u, k) <=> In(s, t, k)
    BY AgreeUnder DEF In
  <1>3. \A k \in 0..n : None(s, u, k) <=> None(s, t, k)
    <2>1. \A k \in 0..n : 1..k \subseteq 1..n
      OBVIOUS
    <2>2. QED  BY <1>1, <2>1 DEF None
  <1>4. Saw(s, u, n) <=> Saw(s, t, n)
    BY DEF Saw, Agree
  <1>5. Has(s, u, n) <=> Has(s, t, n)
    BY <1>1 DEF Has, Agree
  <1>6. Good(s, u, n) <=> Good(s, t, n)
    <2>1. \A k \in 1..n : k - 1 \in 0..n /\ u[k] = t[k]
      BY DEF Agree
    <2>2. QED  BY <1>2, <1>3, <2>1 DEF Good
  <1>7. n \in 0..n
    OBVIOUS
  <1>8. QED  BY <1>2, <1>3, <1>4, <1>5, <1>6, <1>7

\* A header opens its section and closes all others.
LEMMA UnderNext ==
    ASSUME NEW n \in Nat, NEW t, NEW name
    PROVE  Under(t, n + 1, name) <=>
               IF t[n + 1].kind = "section" THEN t[n + 1].name = name ELSE Under(t, n, name)
  <1>1. CASE t[n + 1].kind = "section"
    <2>1. ASSUME t[n + 1].name = name PROVE Under(t, n + 1, name)
      <3>1. n + 1 \in 1..(n + 1) /\ ((n + 1) + 1)..(n + 1) = {}
        OBVIOUS
      <3>2. QED  BY <1>1, <2>1, <3>1 DEF Under
    <2>2. ASSUME Under(t, n + 1, name) PROVE t[n + 1].name = name
      <3>1. PICK j \in 1..(n + 1) : /\ t[j].kind = "section" /\ t[j].name = name
                                    /\ \A h \in (j + 1)..(n + 1) : t[h].kind # "section"
        BY <2>2 DEF Under
      <3>2. n + 1 \notin (j + 1)..(n + 1)
        BY <1>1, <3>1
      <3>3. j = n + 1
        BY <3>2
      <3>4. QED  BY <3>1, <3>3
    <2>3. QED  BY <1>1, <2>1, <2>2
  <1>2. CASE t[n + 1].kind # "section"
    <2>1. ASSUME NEW j \in 1..(n + 1), t[j].kind = "section"
          PROVE  /\ j \in 1..n
                 /\ (\A h \in (j + 1)..(n + 1) : t[h].kind # "section")
                       <=> (\A h \in (j + 1)..n : t[h].kind # "section")
      <3>1. j # n + 1
        BY <1>2, <2>1
      <3>2. j \in 1..n
        BY <3>1
      <3>3. \A h \in (j + 1)..(n + 1) : h \in (j + 1)..n \/ h = n + 1
        BY <3>2
      <3>4. \A h \in (j + 1)..n : h \in (j + 1)..(n + 1)
        BY <3>2
      <3>5. QED  BY <1>2, <3>2, <3>3, <3>4
    <2>2. \A j \in 1..n : j \in 1..(n + 1)
      OBVIOUS
    <2>3. Under(t, n + 1, name) <=> Under(t, n, name)
      BY <2>1, <2>2 DEF Under
    <2>4. QED  BY <1>2, <2>3
  <1>3. QED  BY <1>1, <1>2

LEMMA SettingNext ==
    ASSUME NEW n \in Nat, NEW t, NEW s
    PROVE  SettingAt(s, t, n + 1) <=> New(s, t, n, t[n + 1])
  <1>1. t[n + 1].kind = "entry" => t[n + 1].kind # "section"
    OBVIOUS
  <1>2. QED  BY <1>1, UnderNext DEF SettingAt, New, In

\* What the first n + 1 lines say.
LEMMA Next1 ==
    ASSUME NEW n \in Nat, NEW t, NEW s
    PROVE  LET line == t[n + 1]
               header == line.kind = "section"
           IN  /\ In(s, t, n + 1) <=> IF header THEN line.name = s.section ELSE In(s, t, n)
               /\ Saw(s, t, n + 1) <=> Saw(s, t, n) \/ (header /\ line.name = s.section)
               /\ None(s, t, n + 1) <=> None(s, t, n) /\ ~New(s, t, n, line)
               /\ Has(s, t, n + 1) <=>
                     \/ Has(s, t, n) /\ ~New(s, t, n, line)
                     \/ None(s, t, n) /\ New(s, t, n, line) /\ line = Entry(s.key, s.value)
               /\ Good(s, t, n + 1) <=>
                     Good(s, t, n) /\ (header /\ In(s, t, n) => ~None(s, t, n))
  <1> DEFINE line == t[n + 1]
             header == line.kind = "section"
  <1>1. /\ \A k \in 1..(n + 1) : k \in 1..n \/ k = n + 1
        /\ \A k \in 1..n : k \in 1..(n + 1) /\ k # n + 1
        /\ n + 1 \in 1..(n + 1) /\ (n + 1) - 1 = n
    OBVIOUS
  <1>2. SettingAt(s, t, n + 1) <=> New(s, t, n, line)
    BY SettingNext
  <1>3. In(s, t, n + 1) <=> IF header THEN line.name = s.section ELSE In(s, t, n)
    BY UnderNext DEF In
  <1>4. Saw(s, t, n + 1) <=> Saw(s, t, n) \/ (header /\ line.name = s.section)
    BY <1>1 DEF Saw
  <1>5. None(s, t, n + 1) <=> None(s, t, n) /\ ~New(s, t, n, line)
    BY <1>1, <1>2 DEF None
  <1>6. Has(s, t, n + 1) <=>
            \/ Has(s, t, n) /\ ~New(s, t, n, line)
            \/ None(s, t, n) /\ New(s, t, n, line) /\ line = Entry(s.key, s.value)
    <2>1. ASSUME Has(s, t, n), ~New(s, t, n, line) PROVE Has(s, t, n + 1)
      <3>1. PICK k \in 1..n : /\ t[k] = Entry(s.key, s.value)
                              /\ \A j \in 1..n : SettingAt(s, t, j) <=> j = k
        BY <2>1 DEF Has
      <3>2. \A j \in 1..(n + 1) : SettingAt(s, t, j) <=> j = k
        BY <1>1, <1>2, <2>1, <3>1
      <3>3. QED  BY <1>1, <3>1, <3>2 DEF Has
    <2>2. ASSUME None(s, t, n), New(s, t, n, line), line = Entry(s.key, s.value)
          PROVE  Has(s, t, n + 1)
      <3>1. \A j \in 1..(n + 1) : SettingAt(s, t, j) <=> j = n + 1
        BY <1>1, <1>2, <2>2 DEF None
      <3>2. QED  BY <1>1, <2>2, <3>1 DEF Has
    <2>3. ASSUME Has(s, t, n + 1)
          PROVE  \/ Has(s, t, n) /\ ~New(s, t, n, line)
                 \/ None(s, t, n) /\ New(s, t, n, line) /\ line = Entry(s.key, s.value)
      <3>1. PICK k \in 1..(n + 1) : /\ t[k] = Entry(s.key, s.value)
                                    /\ \A j \in 1..(n + 1) : SettingAt(s, t, j) <=> j = k
        BY <2>3 DEF Has
      <3>2. CASE k \in 1..n
        BY <1>1, <1>2, <3>1, <3>2 DEF Has
      <3>3. CASE k = n + 1
        BY <1>1, <1>2, <3>1, <3>3 DEF None
      <3>4. QED  BY <1>1, <3>2, <3>3
    <2>4. QED  BY <2>1, <2>2, <2>3
  <1>7. Good(s, t, n + 1) <=> Good(s, t, n) /\ (header /\ In(s, t, n) => ~None(s, t, n))
    BY <1>1 DEF Good
  <1>8. QED  BY <1>3, <1>4, <1>5, <1>6, <1>7

\* An entry, too, is in one section only.
LEMMA OneSection ==
    ASSUME NEW n \in Nat, NEW t, NEW a, NEW b, Under(t, n, a), Under(t, n, b)
    PROVE  a = b
  <1>1. PICK i \in 1..n : /\ t[i].kind = "section" /\ t[i].name = a
                          /\ \A h \in (i + 1)..n : t[h].kind # "section"
    BY DEF Under
  <1>2. PICK j \in 1..n : /\ t[j].kind = "section" /\ t[j].name = b
                          /\ \A h \in (j + 1)..n : t[h].kind # "section"
    BY DEF Under
  <1>3. ~(i < j) /\ ~(j < i)
    BY <1>1, <1>2
  <1>4. i = j
    BY <1>3
  <1>5. QED  BY <1>1, <1>2, <1>4

LEMMA AppendedLine ==
    ASSUME NEW t \in Seq(TextLines), NEW line \in TextLines
    PROVE  LET u == Append(t, line)
           IN  /\ u \in Seq(TextLines) /\ Len(t) \in Nat /\ Len(u) = Len(t) + 1
               /\ u[Len(t) + 1] = line /\ Agree(t, u, Len(t))
  BY DEF Agree

\* What a text says with a line appended to it.
LEMMA Appended ==
    ASSUME NEW t \in Seq(TextLines), NEW line \in TextLines, NEW s
    PROVE  LET u == Append(t, line)
               n == Len(t)
               header == line.kind = "section"
           IN  /\ In(s, u, Len(u)) <=> IF header THEN line.name = s.section ELSE In(s, t, n)
               /\ Saw(s, u, Len(u)) <=> Saw(s, t, n) \/ (header /\ line.name = s.section)
               /\ None(s, u, Len(u)) <=> None(s, t, n) /\ ~New(s, t, n, line)
               /\ Has(s, u, Len(u)) <=>
                     \/ Has(s, t, n) /\ ~New(s, t, n, line)
                     \/ None(s, t, n) /\ New(s, t, n, line) /\ line = Entry(s.key, s.value)
               /\ Good(s, u, Len(u)) <=>
                     Good(s, t, n) /\ (header /\ In(s, t, n) => ~None(s, t, n))
  <1> DEFINE u == Append(t, line)
             n == Len(t)
  <1>1. n \in Nat /\ Len(u) = n + 1 /\ u[n + 1] = line /\ Agree(t, u, n)
    BY AppendedLine
  <1> HIDE DEF u, n
  <1>2. /\ In(s, u, n) <=> In(s, t, n)
        /\ Saw(s, u, n) <=> Saw(s, t, n)
        /\ None(s, u, n) <=> None(s, t, n)
        /\ Has(s, u, n) <=> Has(s, t, n)
        /\ Good(s, u, n) <=> Good(s, t, n)
    BY <1>1, AgreeSays
  <1>3. New(s, u, n, line) <=> New(s, t, n, line)
    BY <1>2 DEF New
  <1>4. /\ In(s, u, n + 1) <=> IF line.kind = "section" THEN line.name = s.section ELSE In(s, u, n)
        /\ Saw(s, u, n + 1) <=> Saw(s, u, n) \/ (line.kind = "section" /\ line.name = s.section)
        /\ None(s, u, n + 1) <=> None(s, u, n) /\ ~New(s, u, n, line)
        /\ Has(s, u, n + 1) <=>
              \/ Has(s, u, n) /\ ~New(s, u, n, line)
              \/ None(s, u, n) /\ New(s, u, n, line) /\ line = Entry(s.key, s.value)
        /\ Good(s, u, n + 1) <=>
              Good(s, u, n) /\ (line.kind = "section" /\ In(s, u, n) => ~None(s, u, n))
    BY <1>1, Next1
  <1>5. QED  BY <1>1, <1>2, <1>3, <1>4 DEF u, n

LEMMA AppendedUnder ==
    ASSUME NEW t \in Seq(TextLines), NEW line \in TextLines, NEW name
    PROVE  LET u == Append(t, line)
           IN  Under(u, Len(u), name) <=>
                   IF line.kind = "section" THEN line.name = name ELSE Under(t, Len(t), name)
  <1> DEFINE u == Append(t, line)
             n == Len(t)
  <1>1. n \in Nat /\ Len(u) = n + 1 /\ u[n + 1] = line /\ Agree(t, u, n)
    BY AppendedLine
  <1> HIDE DEF u, n
  <1>2. n \in 0..n
    BY <1>1
  <1>3. Under(u, n, name) <=> Under(t, n, name)
    BY <1>1, <1>2, AgreeUnder
  <1>4. Under(u, n + 1, name) <=>
            IF line.kind = "section" THEN line.name = name ELSE Under(u, n, name)
    BY <1>1, UnderNext
  <1>5. Under(u, Len(u), name) <=>
            IF line.kind = "section" THEN line.name = name ELSE Under(t, n, name)
    BY <1>1, <1>3, <1>4
  <1>6. QED  BY <1>5 DEF u, n

-----------------------------------------------------------------------------
(* The first n lines of t, and what the loop has made of them.             *)

SameUnder(t, n, u, m) == \A name : Under(t, n, name) <=> Under(u, m, name)

SaysSame(s, t, n, u, m) ==
    /\ None(s, t, n) <=> None(s, u, m)
    /\ Has(s, t, n) <=> Has(s, u, m)
    /\ Good(s, t, n) <=> Good(s, u, m)

LEMMA SameIn ==
    ASSUME NEW t, NEW n, NEW u, NEW m, SameUnder(t, n, u, m), NEW s, NEW line
    PROVE  (In(s, t, n) <=> In(s, u, m)) /\ (New(s, t, n, line) <=> New(s, u, m, line))
  BY DEF SameUnder, In, New

\* A line is taken over.
LEMMA TakeOver ==
    ASSUME NEW t, NEW n \in Nat, t[n + 1] \in TextLines, NEW u \in Seq(TextLines),
           SameUnder(t, n, u, Len(u))
    PROVE  LET v == Append(u, t[n + 1])
           IN  /\ SameUnder(t, n + 1, v, Len(v))
               /\ \A s : SaysSame(s, t, n, u, Len(u)) => SaysSame(s, t, n + 1, v, Len(v))
  <1> DEFINE line == t[n + 1]
             v == Append(u, line)
  <1>1. SameUnder(t, n + 1, v, Len(v))
    BY UnderNext, AppendedUnder DEF SameUnder
  <1>2. ASSUME NEW s, SaysSame(s, t, n, u, Len(u)) PROVE SaysSame(s, t, n + 1, v, Len(v))
    <2>1. /\ None(s, t, n + 1) <=> None(s, t, n) /\ ~New(s, t, n, line)
          /\ Has(s, t, n + 1) <=>
                \/ Has(s, t, n) /\ ~New(s, t, n, line)
                \/ None(s, t, n) /\ New(s, t, n, line) /\ line = Entry(s.key, s.value)
          /\ Good(s, t, n + 1) <=>
                Good(s, t, n) /\ (line.kind = "section" /\ In(s, t, n) => ~None(s, t, n))
      BY Next1
    <2>2. /\ None(s, v, Len(v)) <=> None(s, u, Len(u)) /\ ~New(s, u, Len(u), line)
          /\ Has(s, v, Len(v)) <=>
                \/ Has(s, u, Len(u)) /\ ~New(s, u, Len(u), line)
                \/ None(s, u, Len(u)) /\ New(s, u, Len(u), line) /\ line = Entry(s.key, s.value)
          /\ Good(s, v, Len(v)) <=>
                Good(s, u, Len(u)) /\ (line.kind = "section" /\ In(s, u, Len(u)) => ~None(s, u, Len(u)))
      BY Appended
    <2>3. /\ In(s, t, n) <=> In(s, u, Len(u))
          /\ New(s, t, n, line) <=> New(s, u, Len(u), line)
      BY SameIn
    <2> HIDE DEF line, v
    <2>4. QED  BY <1>2, <2>1, <2>2, <2>3 DEF SaysSame
  <1>3. QED  BY <1>1, <1>2

\* An entry goes in that other settings do not care for.
LEMMA PutIn ==
    ASSUME NEW t, NEW n \in Nat, NEW line \in TextLines, line.kind # "section",
           NEW u \in Seq(TextLines), SameUnder(t, n, u, Len(u))
    PROVE  LET v == Append(u, line)
           IN  /\ SameUnder(t, n, v, Len(v))
               /\ \A s : SaysSame(s, t, n, u, Len(u)) /\ ~New(s, u, Len(u), line)
                            => SaysSame(s, t, n, v, Len(v))
  <1> DEFINE v == Append(u, line)
  <1>1. SameUnder(t, n, v, Len(v))
    BY AppendedUnder DEF SameUnder
  <1>2. ASSUME NEW s, SaysSame(s, t, n, u, Len(u)), ~New(s, u, Len(u), line)
        PROVE  SaysSame(s, t, n, v, Len(v))
    <2>1. /\ None(s, v, Len(v)) <=> None(s, u, Len(u)) /\ ~New(s, u, Len(u), line)
          /\ Has(s, v, Len(v)) <=>
                \/ Has(s, u, Len(u)) /\ ~New(s, u, Len(u), line)
                \/ None(s, u, Len(u)) /\ New(s, u, Len(u), line) /\ line = Entry(s.key, s.value)
          /\ Good(s, v, Len(v)) <=>
                Good(s, u, Len(u)) /\ (line.kind = "section" /\ In(s, u, Len(u)) => ~None(s, u, Len(u)))
      BY Appended
    <2> HIDE DEF v
    <2>2. QED  BY <1>2, <2>1 DEF SaysSame
  <1>3. QED  BY <1>1, <1>2

\* An entry is left out that other settings do not care for.
LEMMA LeaveOut ==
    ASSUME NEW t, NEW n \in Nat, t[n + 1].kind # "section", NEW u, NEW m,
           SameUnder(t, n, u, m)
    PROVE  /\ SameUnder(t, n + 1, u, m)
           /\ \A s : SaysSame(s, t, n, u, m) /\ ~New(s, t, n, t[n + 1])
                        => SaysSame(s, t, n + 1, u, m)
  <1>1. SameUnder(t, n + 1, u, m)
    BY UnderNext DEF SameUnder
  <1>2. ASSUME NEW s, SaysSame(s, t, n, u, m), ~New(s, t, n, t[n + 1])
        PROVE  SaysSame(s, t, n + 1, u, m)
    <2>1. /\ None(s, t, n + 1) <=> None(s, t, n) /\ ~New(s, t, n, t[n + 1])
          /\ Has(s, t, n + 1) <=>
                \/ Has(s, t, n) /\ ~New(s, t, n, t[n + 1])
                \/ /\ None(s, t, n) /\ New(s, t, n, t[n + 1])
                   /\ t[n + 1] = Entry(s.key, s.value)
          /\ Good(s, t, n + 1) <=>
                Good(s, t, n) /\ (t[n + 1].kind = "section" /\ In(s, t, n) => ~None(s, t, n))
      BY Next1
    <2>2. QED  BY <1>2, <2>1 DEF SaysSame
  <1>3. QED  BY <1>1, <1>2

-----------------------------------------------------------------------------
(* One setting, followed over the lines.                                   *)

LEMMA HasOrNone ==
    ASSUME NEW s, NEW t, NEW n \in Nat, Has(s, t, n)
    PROVE  ~None(s, t, n)
  BY DEF Has, None

LEMMA SettingType ==
    ASSUME NEW m \in DOMAIN Settings
    PROVE  /\ Settings[m].section \in Words
           /\ Settings[m].key \in Words
           /\ Settings[m].value \in Words
           /\ Entry(Settings[m].key, Settings[m].value) \in TextLines
           /\ Header(Settings[m].section) \in TextLines
           /\ Blank \in TextLines
  <1>1. Settings \in Seq([section : Words, key : Words, value : Words])
    BY SettingsAssumption
  <1>2. \A S : \A q \in Seq(S) : \A k \in DOMAIN q : q[k] \in S
    OBVIOUS
  <1>setting. Settings[m] \in [section : Words, key : Words, value : Words]
    BY <1>1, <1>2, Zenon
  <1>3. \A kind \in {"section", "entry", "text"} : \A name, value \in Words :
           Line(kind, name, value, TRUE) \in TextLines
    BY DEF Line, TextLines
  <1>4. /\ Settings[m].section \in Words
        /\ Settings[m].key \in Words
        /\ Settings[m].value \in Words
    BY <1>setting
  <1>5. "none" \in Words /\ "blank" \in Words
    BY SettingsAssumption
  <1>6. /\ Entry(Settings[m].key, Settings[m].value) \in TextLines
        /\ Header(Settings[m].section) \in TextLines
        /\ Blank \in TextLines
    BY <1>3, <1>4, <1>5, Zenon DEF Entry, Header, Blank
  <1>7. QED  BY <1>4, <1>6

\* An entry of a setting is none of another.
LEMMA Foreign ==
    ASSUME NEW m \in DOMAIN Settings, NEW n \in DOMAIN Settings, m # n,
           NEW t, NEW k \in Nat, NEW line, New(Settings[m], t, k, line)
    PROVE  ~New(Settings[n], t, k, line)
  <1> SUFFICES ASSUME New(Settings[n], t, k, line) PROVE FALSE
    OBVIOUS
  <1>1. Settings[m].key = Settings[n].key
    BY DEF New
  <1>2. Settings[m].section = Settings[n].section
    BY OneSection DEF New, In
  <1>3. QED  BY <1>1, <1>2, SettingsAssumption

\* The loop of setting m has made u of the first n lines of t.
SoFar(m, t, n, u, in_s, saw, wrote) ==
    /\ SameUnder(t, n, u, Len(u))
    /\ in_s <=> In(Settings[m], u, Len(u))
    /\ saw <=> Saw(Settings[m], t, n)
    /\ wrote => Has(Settings[m], u, Len(u)) /\ saw
    /\ ~wrote => None(Settings[m], u, Len(u)) /\ None(Settings[m], t, n)
    /\ Good(Settings[m], u, Len(u))
    /\ saw => in_s \/ wrote
    /\ \A k \in DOMAIN Settings \ {m} : SaysSame(Settings[k], t, n, u, Len(u))

\* The wanted entry goes in.
LEMMA WantedGoesIn ==
    ASSUME NEW m \in DOMAIN Settings, NEW t, NEW n \in Nat, NEW u \in Seq(TextLines),
           SameUnder(t, n, u, Len(u)),
           In(Settings[m], u, Len(u)), None(Settings[m], u, Len(u)),
           Good(Settings[m], u, Len(u)),
           \A k \in DOMAIN Settings \ {m} : SaysSame(Settings[k], t, n, u, Len(u))
    PROVE  LET v == Append(u, Entry(Settings[m].key, Settings[m].value))
           IN  /\ v \in Seq(TextLines)
               /\ SameUnder(t, n, v, Len(v))
               /\ In(Settings[m], v, Len(v))
               /\ Has(Settings[m], v, Len(v))
               /\ Good(Settings[m], v, Len(v))
               /\ \A k \in DOMAIN Settings \ {m} : SaysSame(Settings[k], t, n, v, Len(v))
  <1> DEFINE s == Settings[m]
             line == Entry(s.key, s.value)
             v == Append(u, line)
  <1>1. line \in TextLines /\ line.kind # "section" /\ line.kind = "entry" /\ line.name = s.key
    BY SettingType DEF Entry, Line
  <1>2. Len(u) \in Nat /\ v \in Seq(TextLines)
    BY <1>1
  <1>3. New(s, u, Len(u), line)
    BY <1>1 DEF New
  <1>4. \A k \in DOMAIN Settings \ {m} : ~New(Settings[k], u, Len(u), line)
    BY <1>2, <1>3, Foreign
  <1>5. /\ In(s, v, Len(v)) <=> IF line.kind = "section" THEN line.name = s.section ELSE In(s, u, Len(u))
        /\ Has(s, v, Len(v)) <=>
              \/ Has(s, u, Len(u)) /\ ~New(s, u, Len(u), line)
              \/ None(s, u, Len(u)) /\ New(s, u, Len(u), line) /\ line = Entry(s.key, s.value)
        /\ Good(s, v, Len(v)) <=>
              Good(s, u, Len(u)) /\ (line.kind = "section" /\ In(s, u, Len(u)) => ~None(s, u, Len(u)))
    BY <1>1, Appended
  <1>6. /\ SameUnder(t, n, v, Len(v))
        /\ \A x : SaysSame(x, t, n, u, Len(u)) /\ ~New(x, u, Len(u), line)
                     => SaysSame(x, t, n, v, Len(v))
    BY <1>1, PutIn
  <1>7. In(s, v, Len(v)) /\ Has(s, v, Len(v)) /\ Good(s, v, Len(v))
    BY <1>1, <1>3, <1>5
  <1>8. QED  BY <1>2, <1>4, <1>6, <1>7

\* A header is visited: v and the flags with a t are what comes of it.
AtHeader(m, t, n, u, in_s, saw, wrote, v, in_t, saw_t, wrote_t) ==
    /\ SoFar(m, t, n, u, in_s, saw, wrote)
    /\ t[n + 1] \in TextLines /\ t[n + 1].kind = "section"
    /\ u \in Seq(TextLines)
    /\ v = IF in_s /\ ~wrote THEN Append(u, Entry(Settings[m].key, Settings[m].value)) ELSE u
    /\ in_s \in BOOLEAN /\ saw \in BOOLEAN /\ wrote \in BOOLEAN
    /\ in_t \in BOOLEAN /\ saw_t \in BOOLEAN /\ wrote_t \in BOOLEAN
    /\ in_t <=> t[n + 1].name = Settings[m].section
    /\ saw_t <=> saw \/ in_t
    /\ wrote_t <=> wrote \/ (in_s /\ ~wrote)

LEMMA HeaderSoFar ==
    ASSUME NEW m \in DOMAIN Settings, NEW t, NEW n \in Nat, NEW u, NEW in_s, NEW saw, NEW wrote,
           NEW v, NEW in_t, NEW saw_t, NEW wrote_t,
           AtHeader(m, t, n, u, in_s, saw, wrote, v, in_t, saw_t, wrote_t)
    PROVE  SoFar(m, t, n + 1, Append(v, t[n + 1]), in_t, saw_t, wrote_t)
  <1> USE DEF AtHeader
  <1> DEFINE s == Settings[m]
             line == t[n + 1]
             w == Append(v, line)
  <1>1. /\ v \in Seq(TextLines)
        /\ SameUnder(t, n, v, Len(v))
        /\ wrote \/ in_s => Has(s, v, Len(v)) /\ saw
        /\ ~wrote /\ ~in_s => None(s, v, Len(v)) /\ None(s, t, n)
        /\ Good(s, v, Len(v))
        /\ In(s, v, Len(v)) <=> in_s
        /\ \A k \in DOMAIN Settings \ {m} : SaysSame(Settings[k], t, n, v, Len(v))
    <2>1. CASE in_s /\ ~wrote
      <3>1. saw
        <4>1. In(s, t, n)
          BY <2>1, SameIn DEF SoFar
        <4>2. QED  BY <4>1, <2>1 DEF SoFar, Saw, In, Under
      <3>2. QED  BY <2>1, <3>1, WantedGoesIn DEF SoFar
    <2>2. CASE ~(in_s /\ ~wrote)
      BY <2>2 DEF SoFar
    <2>3. QED  BY <2>1, <2>2
  <1>2. ~New(s, v, Len(v), line) /\ ~New(s, t, n, line)
    BY DEF New
  <1>0. line \in TextLines
    OBVIOUS
  <1> HIDE DEF s, line
  <1>3. /\ In(s, w, Len(w)) <=> IF line.kind = "section" THEN line.name = s.section ELSE In(s, v, Len(v))
        /\ None(s, w, Len(w)) <=> None(s, v, Len(v)) /\ ~New(s, v, Len(v), line)
        /\ Has(s, w, Len(w)) <=>
              \/ Has(s, v, Len(v)) /\ ~New(s, v, Len(v), line)
              \/ None(s, v, Len(v)) /\ New(s, v, Len(v), line) /\ line = Entry(s.key, s.value)
        /\ Good(s, w, Len(w)) <=>
              Good(s, v, Len(v)) /\ (line.kind = "section" /\ In(s, v, Len(v)) => ~None(s, v, Len(v)))
    BY <1>0, <1>1, Appended
  <1> USE DEF s, line
  <1>4. /\ Saw(s, t, n + 1) <=> Saw(s, t, n) \/ (line.kind = "section" /\ line.name = s.section)
        /\ None(s, t, n + 1) <=> None(s, t, n) /\ ~New(s, t, n, line)
    BY Next1
  <1>5. /\ SameUnder(t, n + 1, w, Len(w))
        /\ \A x : SaysSame(x, t, n, v, Len(v)) => SaysSame(x, t, n + 1, w, Len(w))
    BY <1>1, TakeOver
  <1>6. in_s => ~None(s, v, Len(v))
    BY <1>1, HasOrNone
  <1>7. Good(s, w, Len(w))
    BY <1>1, <1>3, <1>6
  <1>8. in_t <=> In(s, w, Len(w))
    BY <1>3
  <1>9. saw_t <=> Saw(s, t, n + 1)
    BY <1>4 DEF SoFar
  <1>10. wrote_t => Has(s, w, Len(w)) /\ saw_t
    BY <1>1, <1>2, <1>3
  <1>11. ~wrote_t => None(s, w, Len(w)) /\ None(s, t, n + 1)
    BY <1>1, <1>2, <1>3, <1>4
  <1>12. saw_t => in_t \/ wrote_t
    BY DEF SoFar
  <1>13. \A k \in DOMAIN Settings \ {m} : SaysSame(Settings[k], t, n + 1, w, Len(w))
    BY <1>1, <1>5
  <1> HIDE DEF s, line, w
  <1>14. QED
    BY <1>5, <1>7, <1>8, <1>9, <1>10, <1>11, <1>12, <1>13 DEF SoFar, s, w, line

LEMMA InSaw ==
    ASSUME NEW m, NEW t, NEW n \in Nat, NEW u, NEW in_s \in BOOLEAN, NEW saw \in BOOLEAN,
           NEW wrote \in BOOLEAN, SoFar(m, t, n, u, in_s, saw, wrote), in_s
    PROVE  In(Settings[m], u, Len(u)) /\ In(Settings[m], t, n) /\ saw
  <1>1. In(Settings[m], u, Len(u)) /\ In(Settings[m], t, n)
    BY SameIn DEF SoFar
  <1>2. Saw(Settings[m], t, n)
    BY <1>1 DEF Saw, In, Under
  <1>3. QED  BY <1>1, <1>2 DEF SoFar

LEMMA KeySoFar ==
    ASSUME NEW m \in DOMAIN Settings, NEW t, NEW n \in Nat,
           NEW u \in Seq(TextLines), NEW in_s \in BOOLEAN, NEW saw \in BOOLEAN,
           NEW wrote \in BOOLEAN, SoFar(m, t, n, u, in_s, saw, wrote),
           in_s, t[n + 1].kind = "entry", t[n + 1].name = Settings[m].key,
           NEW v, v = IF wrote THEN u
                      ELSE Append(u, Entry(Settings[m].key, Settings[m].value))
    PROVE  SoFar(m, t, n + 1, v, in_s, saw, TRUE)
  <1> DEFINE s == Settings[m]
             line == t[n + 1]
  <1>1. In(s, u, Len(u)) /\ In(s, t, n) /\ saw
    BY InSaw
  <1>2. New(s, t, n, line) /\ line.kind # "section"
    BY <1>1 DEF New
  <1>3. \A k \in DOMAIN Settings \ {m} : ~New(Settings[k], t, n, line)
    BY <1>2, Foreign
  <1>4. /\ SameUnder(t, n + 1, u, Len(u))
        /\ \A x : SaysSame(x, t, n, u, Len(u)) /\ ~New(x, t, n, line)
                     => SaysSame(x, t, n + 1, u, Len(u))
    BY <1>2, LeaveOut DEF SoFar
  <1>5. \A k \in DOMAIN Settings \ {m} : SaysSame(Settings[k], t, n + 1, u, Len(u))
    BY <1>3, <1>4 DEF SoFar
  <1>6. /\ SameUnder(t, n + 1, v, Len(v))
        /\ In(s, v, Len(v))
        /\ Has(s, v, Len(v))
        /\ Good(s, v, Len(v))
        /\ \A k \in DOMAIN Settings \ {m} : SaysSame(Settings[k], t, n + 1, v, Len(v))
    <2>1. CASE wrote
      BY <2>1, <1>1, <1>4, <1>5 DEF SoFar
    <2>2. CASE ~wrote
      BY <2>2, <1>1, <1>4, <1>5, WantedGoesIn DEF SoFar
    <2>3. QED  BY <2>1, <2>2
  <1>7. Saw(s, t, n + 1)
    BY <1>1, Next1 DEF SoFar
  <1> HIDE DEF s
  <1>8. QED  BY <1>1, <1>6, <1>7 DEF SoFar, s

LEMMA OtherSoFar ==
    ASSUME NEW m \in DOMAIN Settings, NEW t, NEW n \in Nat, t[n + 1] \in TextLines,
           NEW u \in Seq(TextLines), NEW in_s \in BOOLEAN, NEW saw \in BOOLEAN,
           NEW wrote \in BOOLEAN, SoFar(m, t, n, u, in_s, saw, wrote),
           t[n + 1].kind # "section",
           ~(in_s /\ t[n + 1].kind = "entry" /\ t[n + 1].name = Settings[m].key)
    PROVE  SoFar(m, t, n + 1, Append(u, t[n + 1]), in_s, saw, wrote)
  <1> DEFINE s == Settings[m]
             line == t[n + 1]
             v == Append(u, line)
  <1>1. ~New(s, u, Len(u), line)
    BY DEF SoFar, New
  <1>2. ~New(s, t, n, line)
    BY <1>1, SameIn DEF SoFar
  <1>3. /\ In(s, v, Len(v)) <=> IF line.kind = "section" THEN line.name = s.section ELSE In(s, u, Len(u))
        /\ None(s, v, Len(v)) <=> None(s, u, Len(u)) /\ ~New(s, u, Len(u), line)
        /\ Has(s, v, Len(v)) <=>
              \/ Has(s, u, Len(u)) /\ ~New(s, u, Len(u), line)
              \/ None(s, u, Len(u)) /\ New(s, u, Len(u), line) /\ line = Entry(s.key, s.value)
        /\ Good(s, v, Len(v)) <=>
              Good(s, u, Len(u)) /\ (line.kind = "section" /\ In(s, u, Len(u)) => ~None(s, u, Len(u)))
    BY Appended
  <1>4. /\ Saw(s, t, n + 1) <=> Saw(s, t, n) \/ (line.kind = "section" /\ line.name = s.section)
        /\ None(s, t, n + 1) <=> None(s, t, n) /\ ~New(s, t, n, line)
    BY Next1
  <1>5. /\ SameUnder(t, n + 1, v, Len(v))
        /\ \A x : SaysSame(x, t, n, u, Len(u)) => SaysSame(x, t, n + 1, v, Len(v))
    BY TakeOver DEF SoFar
  <1>6. line.kind # "section"
    OBVIOUS
  <1> HIDE DEF s, line, v
  <1>7. SoFar(m, t, n + 1, v, in_s, saw, wrote)
    BY <1>1, <1>2, <1>3, <1>4, <1>5, <1>6 DEF SoFar, s
  <1>8. QED  BY <1>7 DEF v, line

-----------------------------------------------------------------------------
(* A setting that the text has, once and for all.                          *)

Settled(s, t) == Has(s, t, Len(t)) /\ Good(s, t, Len(t))

LEMMA BlankSettles ==
    ASSUME NEW s, NEW t \in Seq(TextLines), Blank \in TextLines
    PROVE  /\ In(s, Append(t, Blank), Len(Append(t, Blank))) <=> In(s, t, Len(t))
           /\ None(s, Append(t, Blank), Len(Append(t, Blank))) <=> None(s, t, Len(t))
           /\ Has(s, Append(t, Blank), Len(Append(t, Blank))) <=> Has(s, t, Len(t))
           /\ Good(s, Append(t, Blank), Len(Append(t, Blank))) <=> Good(s, t, Len(t))
  <1>1. Blank.kind # "section" /\ Blank.kind # "entry"
    BY DEF Blank, Line
  <1>2. ~New(s, t, Len(t), Blank)
    BY <1>1 DEF New
  <1>3. /\ In(s, Append(t, Blank), Len(Append(t, Blank)))
              <=> IF Blank.kind = "section" THEN Blank.name = s.section ELSE In(s, t, Len(t))
        /\ None(s, Append(t, Blank), Len(Append(t, Blank)))
              <=> None(s, t, Len(t)) /\ ~New(s, t, Len(t), Blank)
        /\ Has(s, Append(t, Blank), Len(Append(t, Blank))) <=>
              \/ Has(s, t, Len(t)) /\ ~New(s, t, Len(t), Blank)
              \/ None(s, t, Len(t)) /\ New(s, t, Len(t), Blank) /\ Blank = Entry(s.key, s.value)
        /\ Good(s, Append(t, Blank), Len(Append(t, Blank))) <=>
              Good(s, t, Len(t)) /\ (Blank.kind = "section" /\ In(s, t, Len(t)) => ~None(s, t, Len(t)))
    BY Appended
  <1>4. QED  BY <1>1, <1>2, <1>3

LEMMA HeaderSettles ==
    ASSUME NEW s, NEW t \in Seq(TextLines), NEW line \in TextLines, line.kind = "section"
    PROVE  LET u == Append(t, line)
           IN  /\ In(s, u, Len(u)) <=> line.name = s.section
               /\ None(s, u, Len(u)) <=> None(s, t, Len(t))
               /\ Has(s, u, Len(u)) <=> Has(s, t, Len(t))
               /\ Good(s, t, Len(t)) /\ (Has(s, t, Len(t)) \/ ~In(s, t, Len(t)))
                     => Good(s, u, Len(u))
  <1> DEFINE u == Append(t, line)
  <1>1. ~New(s, t, Len(t), line)
    BY DEF New
  <1>2. /\ In(s, u, Len(u)) <=> IF line.kind = "section" THEN line.name = s.section ELSE In(s, t, Len(t))
        /\ None(s, u, Len(u)) <=> None(s, t, Len(t)) /\ ~New(s, t, Len(t), line)
        /\ Has(s, u, Len(u)) <=>
              \/ Has(s, t, Len(t)) /\ ~New(s, t, Len(t), line)
              \/ None(s, t, Len(t)) /\ New(s, t, Len(t), line) /\ line = Entry(s.key, s.value)
        /\ Good(s, u, Len(u)) <=>
              Good(s, t, Len(t)) /\ (line.kind = "section" /\ In(s, t, Len(t)) => ~None(s, t, Len(t)))
    BY Appended
  <1>3. Has(s, t, Len(t)) => ~None(s, t, Len(t))
    BY HasOrNone
  <1> HIDE DEF u
  <1>4. QED  BY <1>1, <1>2, <1>3 DEF u

\* The file is the lines up to an empty one at the end.
LEMMA SplitSettles ==
    ASSUME NEW s, NEW t \in Seq(TextLines), Blank \in TextLines
    PROVE  split_lines(t) \in Seq(TextLines) /\ (Settled(s, split_lines(t)) <=> Settled(s, t))
  <1>1. CASE t = <<>>
    BY <1>1 DEF split_lines
  <1>2. CASE t # <<>>
    BY <1>2, BlankSettles DEF split_lines, Settled
  <1>3. QED  BY <1>1, <1>2

\* What the lines are when the loop is over.
Ended(m, u, in_s, saw, wrote) ==
    LET s      == Settings[m]
        wanted_s == Entry(s.key, s.value)
        apart  == IF u # <<>> /\ u[Len(u)] # Blank THEN Append(u, Blank) ELSE u
    IN  IF in_s /\ ~wrote THEN Append(u, wanted_s)
        ELSE IF ~saw THEN Append(Append(apart, Header(s.section)), wanted_s)
        ELSE u

LEMMA EndSettles ==
    ASSUME NEW m \in DOMAIN Settings, NEW t \in Seq(TextLines),
           NEW u \in Seq(TextLines), NEW in_s \in BOOLEAN, NEW saw \in BOOLEAN,
           NEW wrote \in BOOLEAN, SoFar(m, t, Len(t), u, in_s, saw, wrote)
    PROVE  LET v == Ended(m, u, in_s, saw, wrote)
           IN  /\ v \in Seq(TextLines)
               /\ Settled(Settings[m], v)
               /\ \A k \in DOMAIN Settings \ {m} : Settled(Settings[k], t) => Settled(Settings[k], v)
  <1> DEFINE s == Settings[m]
             want == Entry(s.key, s.value)
             v == Ended(m, u, in_s, saw, wrote)
  <1>0. want \in TextLines /\ Header(s.section) \in TextLines /\ Blank \in TextLines
    BY SettingType
  <1>1. CASE in_s /\ ~wrote
    <2>1. v = Append(u, want)
      BY <1>1 DEF Ended
    <2>2. In(s, u, Len(u))
      BY <1>1 DEF SoFar
    <2>3. /\ Append(u, want) \in Seq(TextLines)
          /\ Has(s, Append(u, want), Len(Append(u, want)))
          /\ Good(s, Append(u, want), Len(Append(u, want)))
          /\ \A k \in DOMAIN Settings \ {m} :
                SaysSame(Settings[k], t, Len(t), Append(u, want), Len(Append(u, want)))
      BY <1>1, <2>2, WantedGoesIn DEF SoFar
    <2> HIDE DEF v, want
    <2>4. QED  BY <2>1, <2>3 DEF Settled, SaysSame, v
  <1>2. CASE ~(in_s /\ ~wrote) /\ ~saw
    <2> DEFINE a == IF u # <<>> /\ u[Len(u)] # Blank THEN Append(u, Blank) ELSE u
               b == Append(a, Header(s.section))
               c == Append(b, want)
    <2>1. v = c
      BY <1>2 DEF Ended
    <2>2. ~wrote /\ ~in_s
      BY <1>2, InSaw DEF SoFar
    <2>3. /\ a \in Seq(TextLines)
          /\ \A x : /\ In(x, a, Len(a)) <=> In(x, u, Len(u))
                    /\ None(x, a, Len(a)) <=> None(x, u, Len(u))
                    /\ Has(x, a, Len(a)) <=> Has(x, u, Len(u))
                    /\ Good(x, a, Len(a)) <=> Good(x, u, Len(u))
      <3>1. CASE u # <<>> /\ u[Len(u)] # Blank
        <4>1. a = Append(u, Blank)
          BY <3>1
        <4> HIDE DEF a
        <4>2. QED  BY <1>0, <4>1, BlankSettles
      <3>2. CASE ~(u # <<>> /\ u[Len(u)] # Blank)
        <4>1. a = u
          BY <3>2
        <4> HIDE DEF a
        <4>2. QED  BY <4>1
      <3>3. QED  BY <3>1, <3>2
    <2> HIDE DEF a, v, want
    <2>4. Header(s.section).kind = "section" /\ Header(s.section).name = s.section
      BY DEF Header, Line
    <2>5. /\ b \in Seq(TextLines)
          /\ \A x : /\ In(x, b, Len(b)) <=> Header(s.section).name = x.section
                    /\ None(x, b, Len(b)) <=> None(x, a, Len(a))
                    /\ Has(x, b, Len(b)) <=> Has(x, a, Len(a))
                    /\ Good(x, a, Len(a)) /\ (Has(x, a, Len(a)) \/ ~In(x, a, Len(a)))
                          => Good(x, b, Len(b))
      <3>1. b \in Seq(TextLines)
        BY <1>0, <2>3
      <3>2. ASSUME NEW x
            PROVE  /\ In(x, b, Len(b)) <=> Header(s.section).name = x.section
                   /\ None(x, b, Len(b)) <=> None(x, a, Len(a))
                   /\ Has(x, b, Len(b)) <=> Has(x, a, Len(a))
                   /\ Good(x, a, Len(a)) /\ (Has(x, a, Len(a)) \/ ~In(x, a, Len(a)))
                         => Good(x, b, Len(b))
        BY <1>0, <2>3, <2>4, HeaderSettles
      <3> HIDE DEF b
      <3>3. QED  BY <3>1, <3>2
    <2> HIDE DEF b
    <2>6. In(s, b, Len(b)) /\ None(s, b, Len(b)) /\ Good(s, b, Len(b))
      <3>1. None(s, u, Len(u)) /\ Good(s, u, Len(u)) /\ ~In(s, u, Len(u))
        BY <2>2 DEF SoFar
      <3>2. None(s, a, Len(a)) /\ Good(s, a, Len(a)) /\ ~In(s, a, Len(a))
        BY <2>3, <3>1
      <3>3. QED  BY <2>4, <2>5, <3>2
    <2>7. ASSUME NEW k \in DOMAIN Settings \ {m}, Settled(Settings[k], t)
          PROVE  Settled(Settings[k], b)
      <3>1. Has(Settings[k], u, Len(u)) /\ Good(Settings[k], u, Len(u))
        BY <2>7 DEF Settled, SoFar, SaysSame
      <3>2. Has(Settings[k], a, Len(a)) /\ Good(Settings[k], a, Len(a))
        BY <2>3, <3>1
      <3>3. QED  BY <2>5, <3>2 DEF Settled
    <2>8. Len(b) \in Nat /\ SameUnder(b, Len(b), b, Len(b)) /\ \A x : SaysSame(x, b, Len(b), b, Len(b))
      BY <2>5 DEF SameUnder, SaysSame
    <2>9. /\ c \in Seq(TextLines)
          /\ Has(s, c, Len(c))
          /\ Good(s, c, Len(c))
          /\ \A k \in DOMAIN Settings \ {m} : SaysSame(Settings[k], b, Len(b), c, Len(c))
      BY <2>5, <2>6, <2>8, WantedGoesIn DEF want
    <2> HIDE DEF c
    <2>10. QED  BY <2>1, <2>7, <2>9 DEF Settled, SaysSame, v
  <1>3. CASE ~(in_s /\ ~wrote) /\ saw
    <2>1. v = u
      BY <1>3 DEF Ended
    <2>2. wrote
      BY <1>3 DEF SoFar
    <2> HIDE DEF v
    <2>3. QED  BY <2>1, <2>2 DEF Settled, SoFar, SaysSame, v
  <1>4. QED  BY <1>1, <1>2, <1>3

-----------------------------------------------------------------------------
(* What is none of the setup's business.                                   *)

\* A line that is, if it comes after line n.
Another(t, n, line) ==
    /\ line # Blank
    /\ line.kind # "section"
    /\ \A k \in DOMAIN Settings : ~New(Settings[k], t, n, line)

\* `to' says where those of the first n lines of t are in the first m of u.
Match(to, t, n, u, m) ==
    /\ to \in [Others(t, n) -> Others(u, m)]
    /\ \A l \in Others(u, m) : \E k \in Others(t, n) : to[k] = l
    /\ \A j, k \in Others(t, n) : j < k => to[j] < to[k]
    /\ \A k \in Others(t, n) :
          /\ u[to[k]] = t[k]
          /\ \A name : Under(t, k, name) <=> Under(u, to[k], name)

Kept(t, n, u, m) == \E to : Match(to, t, n, u, m)

LEMMA OthersNext ==
    ASSUME NEW n \in Nat, NEW t
    PROVE  Others(t, n + 1) = IF Another(t, n, t[n + 1]) THEN Others(t, n) \cup {n + 1}
                              ELSE Others(t, n)
  <1>1. /\ \A k \in 1..(n + 1) : k \in 1..n \/ k = n + 1
        /\ \A k \in 1..n : k \in 1..(n + 1) /\ k # n + 1
        /\ n + 1 \in 1..(n + 1)
    OBVIOUS
  <1>2. \A s : SettingAt(s, t, n + 1) <=> New(s, t, n, t[n + 1])
    BY SettingNext
  <1> DEFINE IsOther(k) == /\ t[k] # Blank
                           /\ t[k].kind # "section"
                           /\ \A m \in DOMAIN Settings : ~SettingAt(Settings[m], t, k)
  <1>3. IsOther(n + 1) <=> Another(t, n, t[n + 1])
    BY <1>2 DEF Another
  <1>4. Others(t, n + 1) = {k \in 1..(n + 1) : IsOther(k)} /\ Others(t, n) = {k \in 1..n : IsOther(k)}
    BY DEF Others
  <1> HIDE DEF IsOther
  <1>5. QED  BY <1>1, <1>3, <1>4

LEMMA OthersAgree ==
    ASSUME NEW n \in Nat, NEW t, NEW u, Agree(t, u, n)
    PROVE  Others(u, n) = Others(t, n)
  <1>1. \A s : \A k \in 1..n : SettingAt(s, u, k) <=> SettingAt(s, t, k)
    BY AgreeSettingAt
  <1>2. \A k \in 1..n : u[k] = t[k]
    BY DEF Agree
  <1>3. \A k \in 1..n : (\A m \in DOMAIN Settings : ~SettingAt(Settings[m], u, k))
                          <=> (\A m \in DOMAIN Settings : ~SettingAt(Settings[m], t, k))
    BY <1>1
  <1>4. QED  BY <1>2, <1>3 DEF Others

LEMMA KeptRefl ==
    ASSUME NEW t, NEW n \in Nat
    PROVE  Kept(t, n, t, n)
  <1> DEFINE to == [k \in Others(t, n) |-> k]
  <1>1. Match(to, t, n, t, n)
    BY DEF Match
  <1>2. QED  BY <1>1 DEF Kept

LEMMA KeptAgree ==
    ASSUME NEW t, NEW n, NEW u, NEW m \in Nat, NEW v, Kept(t, n, u, m), Agree(u, v, m)
    PROVE  Kept(t, n, v, m)
  <1>1. PICK to : Match(to, t, n, u, m)
    BY DEF Kept
  <1>2. Others(v, m) = Others(u, m)
    BY OthersAgree
  <1>3. \A l \in Others(u, m) : l \in 1..m /\ l \in 0..m
    BY DEF Others
  <1>4. \A l \in Others(u, m) : v[l] = u[l] /\ \A name : Under(v, l, name) <=> Under(u, l, name)
    BY <1>3, AgreeUnder DEF Agree
  <1>5. \A k \in Others(t, n) : to[k] \in Others(u, m)
    BY <1>1 DEF Match
  <1>6. \A k \in Others(t, n) : /\ v[to[k]] = t[k]
                                /\ \A name : Under(t, k, name) <=> Under(v, to[k], name)
    BY <1>1, <1>4, <1>5 DEF Match
  <1>7. Match(to, t, n, v, m)
    BY <1>1, <1>2, <1>6 DEF Match
  <1>8. QED  BY <1>7 DEF Kept

LEMMA KeptTrans ==
    ASSUME NEW t, NEW n, NEW u, NEW m, NEW v, NEW l, Kept(t, n, u, m), Kept(u, m, v, l)
    PROVE  Kept(t, n, v, l)
  <1>1. PICK f : Match(f, t, n, u, m)
    BY DEF Kept
  <1>2. PICK g : Match(g, u, m, v, l)
    BY DEF Kept
  <1> DEFINE h == [k \in Others(t, n) |-> g[f[k]]]
  <1>3. \A k \in Others(t, n) : f[k] \in Others(u, m) /\ h[k] = g[f[k]]
    BY <1>1 DEF Match
  <1>4. h \in [Others(t, n) -> Others(v, l)]
    BY <1>2, <1>3 DEF Match
  <1> HIDE DEF h
  <1>5. \A i \in Others(v, l) : \E k \in Others(t, n) : h[k] = i
    <2> TAKE i \in Others(v, l)
    <2>1. PICK j \in Others(u, m) : g[j] = i
      BY <1>2 DEF Match
    <2>2. PICK k \in Others(t, n) : f[k] = j
      BY <1>1 DEF Match
    <2>3. QED  BY <1>3, <2>1, <2>2
  <1>6. \A j, k \in Others(t, n) : j < k => h[j] < h[k]
    BY <1>1, <1>2, <1>3 DEF Match
  <1>7. \A k \in Others(t, n) : /\ v[h[k]] = t[k]
                                /\ \A name : Under(t, k, name) <=> Under(v, h[k], name)
    BY <1>1, <1>2, <1>3 DEF Match
  <1>8. Match(h, t, n, v, l)
    BY <1>4, <1>5, <1>6, <1>7 DEF Match
  <1>9. QED  BY <1>8 DEF Kept

\* A line more of u that is the setup's business, or of t.
LEMMA KeptMore ==
    ASSUME NEW t, NEW n, NEW u, NEW m \in Nat, Kept(t, n, u, m), ~Another(u, m, u[m + 1])
    PROVE  Kept(t, n, u, m + 1)
  BY OthersNext DEF Kept, Match

LEMMA KeptLess ==
    ASSUME NEW t, NEW n \in Nat, NEW u, NEW m, Kept(t, n, u, m), ~Another(t, n, t[n + 1])
    PROVE  Kept(t, n + 1, u, m)
  BY OthersNext DEF Kept, Match

\* The same line more of both.
LEMMA KeptBoth ==
    ASSUME NEW t, NEW n \in Nat, NEW u, NEW m \in Nat, Kept(t, n, u, m),
           SameUnder(t, n, u, m), u[m + 1] = t[n + 1]
    PROVE  Kept(t, n + 1, u, m + 1)
  <1>1. Another(t, n, t[n + 1]) <=> Another(u, m, u[m + 1])
    BY SameIn DEF Another
  <1>2. CASE ~Another(t, n, t[n + 1])
    <2>1. Others(t, n + 1) = Others(t, n) /\ Others(u, m + 1) = Others(u, m)
      BY <1>1, <1>2, OthersNext
    <2>2. QED  BY <2>1 DEF Kept, Match
  <1>3. CASE Another(t, n, t[n + 1])
    <2>1. PICK f : Match(f, t, n, u, m)
      BY DEF Kept
    <2>2. Others(t, n + 1) = Others(t, n) \cup {n + 1} /\ Others(u, m + 1) = Others(u, m) \cup {m + 1}
      BY <1>1, <1>3, OthersNext
    <2>3. Others(t, n) \subseteq 1..n /\ Others(u, m) \subseteq 1..m
      BY DEF Others
    <2> DEFINE h == [k \in Others(t, n + 1) |-> IF k = n + 1 THEN m + 1 ELSE f[k]]
    <2>4. h[n + 1] = m + 1
      BY <2>2
    <2>5. \A k \in Others(t, n) : h[k] = f[k] /\ f[k] \in Others(u, m) /\ k # n + 1
      BY <2>1, <2>2, <2>3 DEF Match
    <2>6. h \in [Others(t, n + 1) -> Others(u, m + 1)]
      BY <2>2, <2>5
    <2> HIDE DEF h
    <2>7. \A l \in Others(u, m + 1) : \E k \in Others(t, n + 1) : h[k] = l
      BY <2>1, <2>2, <2>4, <2>5 DEF Match
    <2>8. \A j, k \in Others(t, n + 1) : j < k => h[j] < h[k]
      <3>1. ASSUME NEW j \in Others(t, n), NEW k \in Others(t, n), j < k PROVE h[j] < h[k]
        BY <2>1, <2>5, <3>1 DEF Match
      <3>2. ASSUME NEW j \in Others(t, n) PROVE h[j] < h[n + 1] /\ ~(n + 1 < j)
        <4>1. j \in 1..n /\ f[j] \in 1..m
          BY <2>3, <2>5
        <4>2. QED  BY <4>1, <2>4, <2>5
      <3>3. QED  BY <2>2, <3>1, <3>2
    <2>9. ASSUME NEW name PROVE Under(t, n + 1, name) <=> Under(u, m + 1, name)
      <3>1. Under(t, n + 1, name) <=>
                IF t[n + 1].kind = "section" THEN t[n + 1].name = name ELSE Under(t, n, name)
        BY UnderNext
      <3>2. Under(u, m + 1, name) <=>
                IF u[m + 1].kind = "section" THEN u[m + 1].name = name ELSE Under(u, m, name)
        BY UnderNext
      <3>3. QED  BY <3>1, <3>2 DEF SameUnder
    <2>10. \A k \in Others(t, n + 1) : /\ u[h[k]] = t[k]
                                       /\ \A name : Under(t, k, name) <=> Under(u, h[k], name)
      BY <2>1, <2>2, <2>4, <2>5, <2>9 DEF Match
    <2>11. Match(h, t, n + 1, u, m + 1)
      BY <2>6, <2>7, <2>8, <2>10 DEF Match
    <2>12. QED  BY <2>11 DEF Kept
  <1>4. QED  BY <1>2, <1>3

LEMMA KeptPut ==
    ASSUME NEW t, NEW n, NEW u \in Seq(TextLines), NEW line \in TextLines,
           Kept(t, n, u, Len(u)), ~Another(u, Len(u), line)
    PROVE  Kept(t, n, Append(u, line), Len(Append(u, line)))
  <1> DEFINE v == Append(u, line)
  <1>1. /\ v \in Seq(TextLines) /\ Len(u) \in Nat /\ Len(v) = Len(u) + 1
        /\ v[Len(u) + 1] = line /\ Agree(u, v, Len(u))
    BY AppendedLine
  <1> HIDE DEF v
  <1>2. Kept(t, n, v, Len(u))
    BY <1>1, KeptAgree
  <1>3. \A s : New(s, v, Len(u), line) <=> New(s, u, Len(u), line)
    BY <1>1, AgreeSays DEF New
  <1>4. ~Another(v, Len(u), v[Len(u) + 1])
    BY <1>1, <1>3 DEF Another
  <1>5. Kept(t, n, v, Len(u) + 1)
    BY <1>1, <1>2, <1>4, KeptMore
  <1>6. QED  BY <1>1, <1>5 DEF v

LEMMA KeptTake ==
    ASSUME NEW t, NEW n \in Nat, t[n + 1] \in TextLines, NEW u \in Seq(TextLines),
           Kept(t, n, u, Len(u)), SameUnder(t, n, u, Len(u))
    PROVE  Kept(t, n + 1, Append(u, t[n + 1]), Len(Append(u, t[n + 1])))
  <1> DEFINE v == Append(u, t[n + 1])
  <1>1. /\ v \in Seq(TextLines) /\ Len(u) \in Nat /\ Len(v) = Len(u) + 1
        /\ v[Len(u) + 1] = t[n + 1] /\ Agree(u, v, Len(u))
    BY AppendedLine
  <1> HIDE DEF v
  <1>2. Kept(t, n, v, Len(u))
    BY <1>1, KeptAgree
  <1>3. Len(u) \in 0..Len(u)
    BY <1>1
  <1>4. SameUnder(t, n, v, Len(u))
    BY <1>1, <1>3, AgreeUnder DEF SameUnder
  <1>5. Kept(t, n + 1, v, Len(u) + 1)
    BY <1>1, <1>2, <1>4, KeptBoth
  <1>6. QED  BY <1>1, <1>5 DEF v

\* A setting's entry, a header and an empty line are the setup's business.
LEMMA Business ==
    ASSUME NEW t, NEW n
    PROVE  /\ ~Another(t, n, Blank)
           /\ \A line : line.kind = "section" => ~Another(t, n, line)
           /\ \A m \in DOMAIN Settings : \A line :
                 New(Settings[m], t, n, line) => ~Another(t, n, line)
  BY DEF Another

LEMMA WantedIsNew ==
    ASSUME NEW m, NEW u, NEW k, In(Settings[m], u, k)
    PROVE  New(Settings[m], u, k, Entry(Settings[m].key, Settings[m].value))
  BY DEF New, Entry, Line

LEMMA HeaderKept ==
    ASSUME NEW m \in DOMAIN Settings, NEW t, NEW n \in Nat, t[n + 1] \in TextLines,
           NEW u \in Seq(TextLines), NEW in_s \in BOOLEAN, NEW saw \in BOOLEAN,
           NEW wrote \in BOOLEAN, SoFar(m, t, n, u, in_s, saw, wrote),
           Kept(t, n, u, Len(u)),
           NEW v, v = IF in_s /\ ~wrote THEN Append(u, Entry(Settings[m].key, Settings[m].value))
                      ELSE u
    PROVE  Kept(t, n + 1, Append(v, t[n + 1]), Len(Append(v, t[n + 1])))
  <1>1. CASE in_s /\ ~wrote
    <2> DEFINE want == Entry(Settings[m].key, Settings[m].value)
    <2>1. v = Append(u, want) /\ want \in TextLines
      BY <1>1, SettingType
    <2>2. ~Another(u, Len(u), want)
      BY <1>1, WantedIsNew, Business DEF SoFar
    <2>3. want.kind # "section"
      BY DEF Entry, Line
    <2> HIDE DEF want
    <2>4. v \in Seq(TextLines) /\ Kept(t, n, v, Len(v))
      BY <2>1, <2>2, KeptPut
    <2>5. SameUnder(t, n, v, Len(v))
      BY <2>1, <2>3, PutIn DEF SoFar
    <2>6. QED  BY <2>4, <2>5, KeptTake
  <1>2. CASE ~(in_s /\ ~wrote)
    BY <1>2, KeptTake DEF SoFar
  <1>3. QED  BY <1>1, <1>2

LEMMA KeyKept ==
    ASSUME NEW m \in DOMAIN Settings, NEW t, NEW n \in Nat,
           NEW u \in Seq(TextLines), NEW in_s \in BOOLEAN, NEW saw \in BOOLEAN,
           NEW wrote \in BOOLEAN, SoFar(m, t, n, u, in_s, saw, wrote),
           Kept(t, n, u, Len(u)),
           in_s, t[n + 1].kind = "entry", t[n + 1].name = Settings[m].key,
           NEW v, v = IF wrote THEN u
                      ELSE Append(u, Entry(Settings[m].key, Settings[m].value))
    PROVE  Kept(t, n + 1, v, Len(v))
  <1>1. In(Settings[m], u, Len(u)) /\ In(Settings[m], t, n)
    BY InSaw
  <1>2. New(Settings[m], t, n, t[n + 1])
    BY <1>1 DEF New
  <1>3. Kept(t, n + 1, u, Len(u))
    BY <1>2, Business, KeptLess
  <1>4. CASE wrote
    BY <1>3, <1>4
  <1>5. CASE ~wrote
    BY <1>1, <1>3, <1>5, SettingType, WantedIsNew, Business, KeptPut
  <1>6. QED  BY <1>4, <1>5

LEMMA EndKept ==
    ASSUME NEW m \in DOMAIN Settings, NEW t \in Seq(TextLines),
           NEW u \in Seq(TextLines), NEW in_s \in BOOLEAN, NEW saw \in BOOLEAN,
           NEW wrote \in BOOLEAN, SoFar(m, t, Len(t), u, in_s, saw, wrote),
           Kept(t, Len(t), u, Len(u))
    PROVE  LET v == Ended(m, u, in_s, saw, wrote) IN Kept(t, Len(t), v, Len(v))
  <1> DEFINE s == Settings[m]
             want == Entry(s.key, s.value)
             v == Ended(m, u, in_s, saw, wrote)
  <1>0. want \in TextLines /\ Header(s.section) \in TextLines /\ Blank \in TextLines
    BY SettingType
  <1>1. CASE in_s /\ ~wrote
    <2>1. v = Append(u, want)
      BY <1>1 DEF Ended
    <2>2. ~Another(u, Len(u), want)
      BY <1>1, WantedIsNew, Business DEF SoFar
    <2> HIDE DEF v, want
    <2>3. QED  BY <1>0, <2>1, <2>2, KeptPut DEF v
  <1>2. CASE ~(in_s /\ ~wrote) /\ ~saw
    <2> DEFINE a == IF u # <<>> /\ u[Len(u)] # Blank THEN Append(u, Blank) ELSE u
               b == Append(a, Header(s.section))
               c == Append(b, want)
    <2>1. v = c
      BY <1>2 DEF Ended
    <2>2. a \in Seq(TextLines) /\ Kept(t, Len(t), a, Len(a))
      <3>1. CASE u # <<>> /\ u[Len(u)] # Blank
        <4>1. a = Append(u, Blank)
          BY <3>1
        <4> HIDE DEF a
        <4>2. QED  BY <1>0, <4>1, Business, KeptPut
      <3>2. CASE ~(u # <<>> /\ u[Len(u)] # Blank)
        BY <3>2
      <3>3. QED  BY <3>1, <3>2
    <2> HIDE DEF a, v, want
    <2>3. Header(s.section).kind = "section" /\ Header(s.section).name = s.section
      BY DEF Header, Line
    <2>4. b \in Seq(TextLines) /\ Kept(t, Len(t), b, Len(b))
      <3>1. ~Another(a, Len(a), Header(s.section))
        BY <2>3, Business
      <3>2. QED  BY <1>0, <2>2, <3>1, KeptPut
    <2>5. In(s, b, Len(b))
      BY <1>0, <2>2, <2>3, HeaderSettles
    <2> HIDE DEF b
    <2>6. ~Another(b, Len(b), want)
      BY <2>5, WantedIsNew, Business DEF want
    <2>7. Kept(t, Len(t), c, Len(c))
      BY <1>0, <2>4, <2>6, KeptPut
    <2> HIDE DEF c
    <2>8. QED  BY <2>1, <2>7 DEF v
  <1>3. CASE ~(in_s /\ ~wrote) /\ saw
    <2>1. v = u
      BY <1>3 DEF Ended
    <2> HIDE DEF v
    <2>2. QED  BY <2>1 DEF v
  <1>4. QED  BY <1>1, <1>2, <1>3

LEMMA SplitKept ==
    ASSUME NEW t \in Seq(TextLines), Blank \in TextLines
    PROVE  Kept(t, Len(t), split_lines(t), Len(split_lines(t)))
  <1>1. Kept(t, Len(t), t, Len(t))
    BY KeptRefl
  <1>2. CASE t = <<>>
    BY <1>1, <1>2 DEF split_lines
  <1>3. CASE t # <<>>
    BY <1>1, <1>3, Business, KeptPut DEF split_lines
  <1>4. QED  BY <1>2, <1>3

-----------------------------------------------------------------------------
(* A setting that the text has already: the loop has nothing to do.        *)

LEMMA NothingAtHeader ==
    ASSUME NEW m \in DOMAIN Settings, NEW t \in Seq(TextLines), NEW n \in Nat, n + 1 \in 1..Len(t),
           NEW u, NEW in_s \in BOOLEAN, NEW saw \in BOOLEAN, NEW wrote \in BOOLEAN,
           SoFar(m, t, n, u, in_s, saw, wrote), Settled(Settings[m], t),
           t[n + 1].kind = "section"
    PROVE  ~(in_s /\ ~wrote)
  <1> SUFFICES ASSUME in_s, ~wrote PROVE FALSE
    OBVIOUS
  <1>1. In(Settings[m], t, n) /\ None(Settings[m], t, n)
    BY SameIn DEF SoFar
  <1>2. (n + 1) - 1 = n
    OBVIOUS
  <1>3. QED  BY <1>1, <1>2 DEF Settled, Good

LEMMA NothingAtKey ==
    ASSUME NEW m \in DOMAIN Settings, NEW t \in Seq(TextLines), NEW n \in Nat, n + 1 \in 1..Len(t),
           NEW u, NEW in_s \in BOOLEAN, NEW saw \in BOOLEAN, NEW wrote \in BOOLEAN,
           SoFar(m, t, n, u, in_s, saw, wrote), Settled(Settings[m], t),
           Len(u) = n, Agree(t, u, n),
           in_s, t[n + 1].kind = "entry", t[n + 1].name = Settings[m].key
    PROVE  ~wrote /\ t[n + 1] = Entry(Settings[m].key, Settings[m].value)
  <1> DEFINE s == Settings[m]
  <1>1. In(s, t, n)
    BY SameIn DEF SoFar
  <1>2. SettingAt(s, t, n + 1)
    BY <1>1, SettingNext DEF New
  <1>3. PICK k \in 1..Len(t) : /\ t[k] = Entry(s.key, s.value)
                               /\ \A j \in 1..Len(t) : SettingAt(s, t, j) <=> j = k
    BY DEF Settled, Has
  <1>4. k = n + 1
    BY <1>2, <1>3
  <1>5. ASSUME wrote PROVE FALSE
    <2>1. Has(s, t, n)
      BY <1>5, AgreeSays DEF SoFar
    <2>2. PICK j \in 1..n : SettingAt(s, t, j)
      BY <2>1 DEF Has
    <2>3. j \in 1..Len(t) /\ j # n + 1
      OBVIOUS
    <2>4. QED  BY <1>3, <1>4, <2>2, <2>3
  <1>6. QED  BY <1>3, <1>4, <1>5

LEMMA NothingAtEnd ==
    ASSUME NEW m \in DOMAIN Settings, NEW t \in Seq(TextLines),
           NEW u, NEW in_s \in BOOLEAN, NEW saw \in BOOLEAN, NEW wrote \in BOOLEAN,
           SoFar(m, t, Len(t), u, in_s, saw, wrote), Settled(Settings[m], t)
    PROVE  wrote /\ saw
  <1>1. ~None(Settings[m], t, Len(t))
    BY HasOrNone DEF Settled
  <1>2. QED  BY <1>1 DEF SoFar

-----------------------------------------------------------------------------
(* The invariant: what the loop has done, what the passes have.            *)

TypeInv ==
    /\ file \in Seq(TextLines) /\ found \in Seq(TextLines)
    /\ lines \in Seq(TextLines) /\ out \in Seq(TextLines)
    /\ next \in 0..(Len(Settings) + 1)
    /\ passes \in 0..2 /\ (next > 0 => passes < 2)
    /\ at \in 1..(Len(lines) + 1)
    /\ changed \in BOOLEAN
    /\ in_section \in BOOLEAN /\ saw_section \in BOOLEAN /\ wrote_key \in BOOLEAN
    /\ next \notin DOMAIN Settings =>
          at = 1 /\ out = <<>> /\ ~in_section /\ ~saw_section /\ ~wrote_key

LoopInv ==
    next \in DOMAIN Settings =>
        /\ SoFar(next, lines, at - 1, out, in_section, saw_section, wrote_key)
        /\ Kept(lines, at - 1, out, Len(out))

\* Nothing has changed: neither in the settings before, nor so far in this one.
Untouched ==
    /\ lines = split_lines(file)
    /\ next \in DOMAIN Settings => Len(out) = at - 1 /\ Agree(lines, out, at - 1)

AllSettled(t) == \A k \in DOMAIN Settings : Settled(Settings[k], t)

PassInv ==
    /\ Kept(found, Len(found), file, Len(file))
    /\ next > 0 => /\ Kept(found, Len(found), lines, Len(lines))
                   /\ \A k \in DOMAIN Settings : k < next => Settled(Settings[k], lines)
                   /\ ~changed => Untouched
                   /\ AllSettled(file) => ~changed
    /\ passes > 0 => AllSettled(file)
    /\ passes = 2 => ~changed

Inv == TypeInv /\ LoopInv /\ PassInv

LEMMA SettingsLength ==
    /\ Len(Settings) \in Nat /\ Len(Settings) > 0
    /\ DOMAIN Settings = 1..Len(Settings)
  <1>1. \A S : \A q \in Seq(S) : Len(q) \in Nat /\ DOMAIN q = 1..Len(q) /\ (q # <<>> => Len(q) > 0)
    OBVIOUS
  <1>2. Settings \in Seq([section : Words, key : Words, value : Words]) /\ Settings # <<>>
    BY SettingsAssumption
  <1>3. QED  BY <1>1, <1>2, Zenon

\* The loop of a setting that has not begun.
LEMMA SoFarNothing ==
    ASSUME NEW m \in DOMAIN Settings, NEW t
    PROVE  /\ SoFar(m, t, 0, <<>>, FALSE, FALSE, FALSE)
           /\ Kept(t, 0, <<>>, Len(<<>>))
           /\ Agree(t, <<>>, 0)
  <1>1. Len(<<>>) = 0 /\ 1..0 = {}
    OBVIOUS
  <1>2. Agree(t, <<>>, 0)
    BY <1>1 DEF Agree
  <1>3. \A u : \A name : ~Under(u, 0, name)
    BY <1>1 DEF Under
  <1>4. \A s : \A u : None(s, u, 0) /\ ~Has(s, u, 0) /\ Good(s, u, 0) /\ ~Saw(s, u, 0)
    BY <1>1 DEF None, Has, Good, Saw
  <1>5. SoFar(m, t, 0, <<>>, FALSE, FALSE, FALSE)
    BY <1>1, <1>3, <1>4 DEF SoFar, SameUnder, SaysSame, In
  <1>6. Kept(t, 0, <<>>, 0)
    BY <1>2, KeptRefl, KeptAgree
  <1>7. QED  BY <1>1, <1>2, <1>5, <1>6

LEMMA InitInv ==
    ASSUME Init
    PROVE  Inv
  <1>1. file \in Seq(TextLines) /\ found = file
    BY SettingsAssumption DEF Init
  <1>2. TypeInv
    <2>1. <<>> \in Seq(TextLines) /\ Len(<<>>) = 0 /\ 1 \in 1..(0 + 1) /\ 0 \in 0..2
      OBVIOUS
    <2>2. 0 \in 0..(Len(Settings) + 1)
      BY SettingsLength
    <2>3. at \in 1..(Len(lines) + 1) /\ lines \in Seq(TextLines) /\ out \in Seq(TextLines)
      BY <2>1 DEF Init
    <2>4. next \in 0..(Len(Settings) + 1) /\ passes \in 0..2 /\ ~(next > 0)
      BY <2>2 DEF Init
    <2>5. QED  BY <1>1, <2>3, <2>4 DEF Init, TypeInv
  <1>3. Kept(found, Len(found), file, Len(file))
    BY <1>1, KeptRefl
  <1>4. PassInv
    BY <1>3 DEF Init, PassInv
  <1>5. LoopInv
    BY SettingsLength DEF Init, LoopInv
  <1>6. QED  BY <1>2, <1>4, <1>5 DEF Inv

LEMMA VisitingLine ==
    ASSUME Inv, Visiting
    PROVE  /\ next \in DOMAIN Settings /\ next > 0
           /\ at - 1 \in Nat /\ (at - 1) + 1 = at /\ (at + 1) - 1 = at
           /\ at \in 1..Len(lines) /\ at + 1 \in 1..(Len(lines) + 1)
           /\ lines[at] \in TextLines
           /\ SoFar(next, lines, at - 1, out, in_section, saw_section, wrote_key)
           /\ Kept(lines, at - 1, out, Len(out))
           /\ out \in Seq(TextLines) /\ Len(out) \in Nat
           /\ lines \in Seq(TextLines)
           /\ wanted \in TextLines
  <1>1. next \in DOMAIN Settings /\ next > 0
    BY SettingsLength DEF Visiting
  <1>2. lines \in Seq(TextLines) /\ out \in Seq(TextLines) /\ at \in DOMAIN lines
    BY DEF Inv, TypeInv, Visiting
  <1>3. at \in 1..Len(lines) /\ lines[at] \in TextLines /\ Len(out) \in Nat
    BY <1>2
  <1>4. at - 1 \in Nat /\ (at - 1) + 1 = at /\ (at + 1) - 1 = at /\ at + 1 \in 1..(Len(lines) + 1)
    BY <1>2, <1>3
  <1>5. wanted \in TextLines
    BY <1>1, SettingType DEF wanted, Setting
  <1>6. QED  BY <1>1, <1>2, <1>3, <1>4, <1>5 DEF Inv, LoopInv

\* If the file has the settings, a line is taken over as it is.
LEMMA IdleVisit ==
    ASSUME Inv, Visiting, AllSettled(file)
    PROVE  /\ ~changed /\ lines = split_lines(file)
           /\ Len(out) = at - 1 /\ Agree(lines, out, at - 1)
           /\ Settled(Setting, lines)
  <1>1. next \in DOMAIN Settings /\ next > 0
    BY VisitingLine
  <1>2. ~changed /\ lines = split_lines(file)
    BY <1>1 DEF Inv, PassInv, Untouched
  <1>3. Len(out) = at - 1 /\ Agree(lines, out, at - 1)
    BY <1>1, <1>2 DEF Inv, PassInv, Untouched
  <1>4. Settled(Setting, file)
    BY <1>1 DEF AllSettled, Setting
  <1>5. file \in Seq(TextLines) /\ Blank \in TextLines
    BY <1>1, SettingType DEF Inv, TypeInv
  <1>6. Settled(Setting, lines)
    BY <1>2, <1>4, <1>5, SplitSettles
  <1>7. QED  BY <1>2, <1>3, <1>6

\* A line is taken over as it is.
LEMMA Unchanged1 ==
    ASSUME NEW t, NEW n \in Nat, NEW u \in Seq(TextLines), t[n + 1] \in TextLines,
           Len(u) = n, Agree(t, u, n)
    PROVE  Len(Append(u, t[n + 1])) = n + 1 /\ Agree(t, Append(u, t[n + 1]), n + 1)
  <1>1. /\ Len(Append(u, t[n + 1])) = n + 1
        /\ Append(u, t[n + 1])[n + 1] = t[n + 1]
        /\ \A k \in 1..n : Append(u, t[n + 1])[k] = u[k]
        /\ \A k \in 1..(n + 1) : k \in 1..n \/ k = n + 1
    OBVIOUS
  <1>2. QED  BY <1>1 DEF Agree

\* What a visit has to show: the loop goes on, and what it has not changed is so.
LEMMA VisitInv ==
    ASSUME Inv, Visiting,
           at' = at + 1, UNCHANGED <<file, found, lines, next, passes>>,
           out' \in Seq(TextLines), changed' \in BOOLEAN,
           in_section' \in BOOLEAN, saw_section' \in BOOLEAN, wrote_key' \in BOOLEAN,
           SoFar(next, lines, at, out', in_section', saw_section', wrote_key'),
           Kept(lines, at, out', Len(out')),
           ~changed' => ~changed /\ out' = Append(out, lines[at]),
           AllSettled(file) => ~changed'
    PROVE  Inv'
  <1>1. /\ next \in DOMAIN Settings /\ next > 0
        /\ at - 1 \in Nat /\ (at - 1) + 1 = at /\ (at + 1) - 1 = at
        /\ at + 1 \in 1..(Len(lines) + 1)
        /\ lines[at] \in TextLines /\ out \in Seq(TextLines)
    BY VisitingLine
  <1>2. TypeInv'
    BY <1>1 DEF Inv, TypeInv
  <1>3. LoopInv'
    BY <1>1 DEF LoopInv
  <1>4. PassInv'
    <2>1. ~changed' => Untouched'
      <3>1. SUFFICES ASSUME ~changed' PROVE Untouched'
        OBVIOUS
      <3>2. Untouched /\ out' = Append(out, lines[at])
        BY <1>1, <3>1 DEF Inv, PassInv
      <3>3. Len(out) = at - 1 /\ Agree(lines, out, at - 1)
        BY <1>1, <3>2 DEF Untouched
      <3>4. PICK n \in Nat : n = at - 1
        BY <1>1
      <3>5. Len(out') = at /\ Agree(lines, out', at)
        BY <1>1, <3>2, <3>3, <3>4, Unchanged1
      <3>6. QED  BY <1>1, <3>2, <3>5 DEF Untouched
    <2>2. passes' < 2
      BY <1>1 DEF Inv, TypeInv
    <2>3. AllSettled(file)' <=> AllSettled(file)
      BY DEF AllSettled
    <2>4. QED  BY <1>1, <2>1, <2>2, <2>3 DEF Inv, PassInv
  <1>5. QED  BY <1>2, <1>3, <1>4 DEF Inv

LEMMA VisitHeaderInv ==
    ASSUME Inv, VisitHeader
    PROVE  Inv'
  <1> DEFINE closing == in_section /\ ~wrote_key
             line == lines[at]
             v == IF closing THEN Append(out, wanted) ELSE out
  <1>1. Visiting /\ line.kind = "section"
    BY DEF VisitHeader
  <1>2. /\ next \in DOMAIN Settings /\ at - 1 \in Nat /\ (at - 1) + 1 = at
        /\ at \in 1..Len(lines) /\ line \in TextLines
        /\ SoFar(next, lines, at - 1, out, in_section, saw_section, wrote_key)
        /\ Kept(lines, at - 1, out, Len(out))
        /\ out \in Seq(TextLines) /\ wanted \in TextLines /\ lines \in Seq(TextLines)
    BY <1>1, VisitingLine
  <1>3. in_section \in BOOLEAN /\ saw_section \in BOOLEAN /\ wrote_key \in BOOLEAN /\ changed \in BOOLEAN
    BY DEF Inv, TypeInv
  <1>4. /\ out' = Append(v, line)
        /\ in_section' = (line.name = Setting.section)
        /\ saw_section' = (saw_section \/ line.name = Setting.section)
        /\ wrote_key' = (wrote_key \/ closing)
        /\ changed' = (changed \/ closing)
        /\ at' = at + 1 /\ UNCHANGED <<file, found, lines, next, passes>>
    BY DEF VisitHeader
  <1>5. PICK n \in Nat : n = at - 1 /\ n + 1 = at
    BY <1>2
  <1>6. v = IF in_section /\ ~wrote_key
            THEN Append(out, Entry(Settings[next].key, Settings[next].value)) ELSE out
    BY DEF wanted, Setting
  <1>7. v \in Seq(TextLines) /\ Append(v, line) \in Seq(TextLines)
    BY <1>2
  <1> HIDE DEF v
  <1>8. SoFar(next, lines, n + 1, Append(v, lines[n + 1]), in_section', saw_section', wrote_key')
    <2>1. /\ lines[n + 1] \in TextLines /\ lines[n + 1].kind = "section"
          /\ SoFar(next, lines, n, out, in_section, saw_section, wrote_key)
      BY <1>1, <1>2, <1>5
    <2>2. /\ in_section' \in BOOLEAN /\ saw_section' \in BOOLEAN /\ wrote_key' \in BOOLEAN
          /\ in_section' <=> lines[n + 1].name = Settings[next].section
          /\ saw_section' <=> saw_section \/ in_section'
          /\ wrote_key' <=> wrote_key \/ (in_section /\ ~wrote_key)
      BY <1>3, <1>4, <1>5 DEF Setting
    <2> HIDE DEF line, closing
    <2>3. AtHeader(next, lines, n, out, in_section, saw_section, wrote_key, v,
                   in_section', saw_section', wrote_key')
      BY <2>1, <2>2, <1>2, <1>3, <1>6 DEF AtHeader
    <2>4. QED  BY <2>3, <1>2, HeaderSoFar
  <1>9. Kept(lines, n + 1, Append(v, lines[n + 1]), Len(Append(v, lines[n + 1])))
    BY <1>2, <1>3, <1>5, <1>6, HeaderKept
  <1>10. SoFar(next, lines, at, out', in_section', saw_section', wrote_key')
    BY <1>4, <1>5, <1>8
  <1>11. Kept(lines, at, out', Len(out'))
    BY <1>4, <1>5, <1>9
  <1>12. ~changed' => ~changed /\ out' = Append(out, lines[at])
    BY <1>4 DEF v
  <1>13. AllSettled(file) => ~changed'
    <2>1. SUFFICES ASSUME AllSettled(file) PROVE ~changed /\ ~closing
      BY <1>4
    <2>2. ~changed /\ Settled(Settings[next], lines)
      BY <1>1, <2>1, IdleVisit DEF Setting
    <2>3. ~(in_section /\ ~wrote_key)
      BY <1>1, <1>2, <1>3, <1>5, <2>2, NothingAtHeader
    <2>4. QED  BY <2>2, <2>3
  <1>14. /\ out' \in Seq(TextLines) /\ changed' \in BOOLEAN
         /\ in_section' \in BOOLEAN /\ saw_section' \in BOOLEAN /\ wrote_key' \in BOOLEAN
    BY <1>3, <1>4, <1>7
  <1>15. QED  BY <1>1, <1>4, <1>10, <1>11, <1>12, <1>13, <1>14, VisitInv

LEMMA VisitKeyInv ==
    ASSUME Inv, VisitKey
    PROVE  Inv'
  <1> DEFINE line == lines[at]
             v == IF wrote_key THEN out ELSE Append(out, wanted)
  <1>1. /\ Visiting /\ in_section /\ line.kind = "entry" /\ line.name = Settings[next].key
    BY DEF VisitKey, IsTarget, Setting
  <1>2. /\ next \in DOMAIN Settings /\ at - 1 \in Nat /\ (at - 1) + 1 = at
        /\ at \in 1..Len(lines) /\ line \in TextLines
        /\ SoFar(next, lines, at - 1, out, in_section, saw_section, wrote_key)
        /\ Kept(lines, at - 1, out, Len(out))
        /\ out \in Seq(TextLines) /\ wanted \in TextLines /\ lines \in Seq(TextLines)
    BY <1>1, VisitingLine
  <1>3. in_section \in BOOLEAN /\ saw_section \in BOOLEAN /\ wrote_key \in BOOLEAN /\ changed \in BOOLEAN
    BY DEF Inv, TypeInv
  <1>4. /\ out' = v
        /\ wrote_key' = TRUE
        /\ changed' = (changed \/ wrote_key \/ line # wanted)
        /\ at' = at + 1
        /\ UNCHANGED <<file, found, lines, next, passes, in_section, saw_section>>
    BY DEF VisitKey
  <1>5. PICK n \in Nat : n = at - 1 /\ n + 1 = at
    BY <1>2
  <1>6. v = IF wrote_key THEN out
            ELSE Append(out, Entry(Settings[next].key, Settings[next].value))
    BY DEF wanted, Setting
  <1>7. v \in Seq(TextLines)
    BY <1>2
  <1> HIDE DEF v
  <1>8. SoFar(next, lines, n + 1, v, in_section, saw_section, TRUE)
    BY <1>1, <1>2, <1>3, <1>5, <1>6, KeySoFar
  <1>9. Kept(lines, n + 1, v, Len(v))
    BY <1>1, <1>2, <1>3, <1>5, <1>6, KeyKept
  <1>10. SoFar(next, lines, at, out', in_section', saw_section', wrote_key')
    BY <1>4, <1>5, <1>8
  <1>11. Kept(lines, at, out', Len(out'))
    BY <1>4, <1>5, <1>9
  <1>12. ~changed' => ~changed /\ out' = Append(out, lines[at])
    BY <1>4 DEF v
  <1>13. AllSettled(file) => ~changed'
    <2>1. SUFFICES ASSUME AllSettled(file) PROVE ~changed /\ ~wrote_key /\ line = wanted
      BY <1>4
    <2>2. /\ ~changed /\ Settled(Settings[next], lines)
          /\ Len(out) = at - 1 /\ Agree(lines, out, at - 1)
      BY <1>1, <2>1, IdleVisit DEF Setting
    <2>3. ~wrote_key /\ lines[n + 1] = Entry(Settings[next].key, Settings[next].value)
      BY <1>1, <1>2, <1>3, <1>5, <2>2, NothingAtKey
    <2>4. QED  BY <1>5, <2>2, <2>3 DEF wanted, Setting
  <1>14. /\ out' \in Seq(TextLines) /\ changed' \in BOOLEAN
         /\ in_section' \in BOOLEAN /\ saw_section' \in BOOLEAN /\ wrote_key' \in BOOLEAN
    BY <1>3, <1>4, <1>7
  <1>15. QED  BY <1>1, <1>4, <1>10, <1>11, <1>12, <1>13, <1>14, VisitInv

LEMMA VisitOtherInv ==
    ASSUME Inv, VisitOther
    PROVE  Inv'
  <1> DEFINE line == lines[at]
             v == Append(out, line)
  <1>1. /\ Visiting /\ line.kind # "section"
        /\ ~(in_section /\ line.kind = "entry" /\ line.name = Settings[next].key)
    BY DEF VisitOther, IsTarget, Setting
  <1>2. /\ next \in DOMAIN Settings /\ at - 1 \in Nat /\ (at - 1) + 1 = at
        /\ at \in 1..Len(lines) /\ line \in TextLines
        /\ SoFar(next, lines, at - 1, out, in_section, saw_section, wrote_key)
        /\ Kept(lines, at - 1, out, Len(out))
        /\ out \in Seq(TextLines) /\ lines \in Seq(TextLines)
    BY <1>1, VisitingLine
  <1>3. in_section \in BOOLEAN /\ saw_section \in BOOLEAN /\ wrote_key \in BOOLEAN /\ changed \in BOOLEAN
    BY DEF Inv, TypeInv
  <1>4. /\ out' = v /\ at' = at + 1
        /\ UNCHANGED <<file, found, lines, next, changed, passes, in_section, saw_section,
                       wrote_key>>
    BY DEF VisitOther
  <1>5. PICK n \in Nat : n = at - 1 /\ n + 1 = at
    BY <1>2
  <1>6. v \in Seq(TextLines)
    BY <1>2
  <1>7. SoFar(next, lines, n + 1, Append(out, lines[n + 1]), in_section, saw_section, wrote_key)
    BY <1>1, <1>2, <1>3, <1>5, OtherSoFar
  <1>8. Kept(lines, n + 1, Append(out, lines[n + 1]), Len(Append(out, lines[n + 1])))
    BY <1>2, <1>5, KeptTake DEF SoFar
  <1>9. SoFar(next, lines, at, out', in_section', saw_section', wrote_key')
    BY <1>4, <1>5, <1>7
  <1>10. Kept(lines, at, out', Len(out'))
    BY <1>4, <1>5, <1>8
  <1>11. ~changed' => ~changed /\ out' = Append(out, lines[at])
    BY <1>4
  <1>12. AllSettled(file) => ~changed'
    BY <1>1, <1>4, IdleVisit
  <1>13. /\ out' \in Seq(TextLines) /\ changed' \in BOOLEAN
         /\ in_section' \in BOOLEAN /\ saw_section' \in BOOLEAN /\ wrote_key' \in BOOLEAN
    BY <1>3, <1>4, <1>6
  <1>14. QED  BY <1>1, <1>4, <1>9, <1>10, <1>11, <1>12, <1>13, VisitInv

LEMMA EndOfLinesInv ==
    ASSUME Inv, EndOfLines
    PROVE  Inv'
  <1> DEFINE v == Ended(next, out, in_section, saw_section, wrote_key)
             adds == in_section /\ ~wrote_key
  <1>1. next \in DOMAIN Settings /\ at = Len(lines) + 1
    BY DEF EndOfLines
  <1>2. /\ next > 0 /\ next + 1 > 0 /\ next \in 1..Len(Settings) /\ next + 1 \in 0..(Len(Settings) + 1)
        /\ \A k \in DOMAIN Settings : k < next + 1 <=> k < next \/ k = next
    BY <1>1, SettingsLength
  <1>3. /\ lines \in Seq(TextLines) /\ out \in Seq(TextLines)
        /\ in_section \in BOOLEAN /\ saw_section \in BOOLEAN /\ wrote_key \in BOOLEAN
        /\ changed \in BOOLEAN
    BY DEF Inv, TypeInv
  <1>4. Len(lines) \in Nat /\ at - 1 = Len(lines)
    BY <1>1, <1>3
  <1>5. /\ SoFar(next, lines, Len(lines), out, in_section, saw_section, wrote_key)
        /\ Kept(lines, Len(lines), out, Len(out))
    BY <1>1, <1>4 DEF Inv, LoopInv
  <1>6. /\ lines' = v
        /\ changed' = (changed \/ adds \/ ~saw_section)
        /\ next' = next + 1
        /\ at' = 1 /\ out' = <<>>
        /\ in_section' = FALSE /\ saw_section' = FALSE /\ wrote_key' = FALSE
        /\ UNCHANGED <<file, found, passes>>
    BY DEF EndOfLines, Ended, Missing, Apart, wanted, Setting
  <1>7. ~adds /\ saw_section => v = out
    BY DEF Ended
  <1> HIDE DEF v
  <1>8. /\ v \in Seq(TextLines)
        /\ Settled(Settings[next], v)
        /\ \A k \in DOMAIN Settings \ {next} : Settled(Settings[k], lines) => Settled(Settings[k], v)
    BY <1>1, <1>3, <1>5, EndSettles DEF v
  <1>9. Kept(lines, Len(lines), v, Len(v))
    BY <1>1, <1>3, <1>5, EndKept DEF v
  <1>10. TypeInv'
    <2>1. 1 \in 1..(Len(v) + 1) /\ <<>> \in Seq(TextLines)
      BY <1>8
    <2>2. passes < 2
      BY <1>2 DEF Inv, TypeInv
    <2>3. QED  BY <1>2, <1>3, <1>6, <1>8, <2>1, <2>2 DEF Inv, TypeInv
  <1>11. LoopInv'
    <2>1. SUFFICES ASSUME next + 1 \in DOMAIN Settings
                   PROVE  /\ SoFar(next + 1, v, 0, <<>>, FALSE, FALSE, FALSE)
                          /\ Kept(v, 0, <<>>, Len(<<>>))
      <3>1. 1 - 1 = 0
        OBVIOUS
      <3>2. QED  BY <1>6, <3>1 DEF LoopInv
    <2>2. QED  BY <2>1, SoFarNothing
  <1>12. PassInv'
    <2>1. Kept(found, Len(found), lines, Len(lines)) /\ Kept(found, Len(found), file, Len(file))
      BY <1>2 DEF Inv, PassInv
    <2>2. Kept(found, Len(found), v, Len(v))
      BY <1>9, <2>1, KeptTrans
    <2>3. ASSUME NEW k \in DOMAIN Settings, k < next + 1 PROVE Settled(Settings[k], v)
      BY <1>2, <1>8, <2>3 DEF Inv, PassInv
    <2>4. ASSUME ~changed' PROVE Untouched'
      <3>1. ~changed /\ ~adds /\ saw_section
        BY <1>3, <1>6, <2>4
      <3>2. lines = split_lines(file) /\ Len(out) = Len(lines) /\ Agree(lines, out, Len(lines))
        BY <1>1, <1>2, <1>4, <3>1 DEF Inv, PassInv, Untouched
      <3>3. out = lines
        <4>1. \A k \in 1..Len(lines) : out[k] = lines[k]
          BY <3>2 DEF Agree
        <4>2. QED  BY <1>3, <3>2, <4>1
      <3>4. v = split_lines(file)
        BY <1>7, <3>1, <3>2, <3>3
      <3>5. Len(<<>>) = 0 /\ 1 - 1 = 0 /\ Agree(v, <<>>, 0)
        BY DEF Agree
      <3>6. QED  BY <1>6, <3>4, <3>5 DEF Untouched
    <2>5. ASSUME AllSettled(file) PROVE ~changed'
      <3>1. ~changed /\ lines = split_lines(file) /\ Settled(Settings[next], file)
        BY <1>1, <1>2, <2>5 DEF Inv, PassInv, Untouched, AllSettled
      <3>2. Settled(Settings[next], lines)
        BY <1>1, <3>1, SettingType, SplitSettles DEF Inv, TypeInv
      <3>3. wrote_key /\ saw_section
        BY <1>1, <1>3, <1>5, <3>2, NothingAtEnd
      <3>4. QED  BY <1>6, <3>1, <3>3
    <2>6. passes \in 0..2 /\ passes < 2
      BY <1>2 DEF Inv, TypeInv
    <2>7. passes > 0 => AllSettled(file)
      BY DEF Inv, PassInv
    <2>8. AllSettled(file)' <=> AllSettled(file)
      BY <1>6 DEF AllSettled
    <2>9. QED  BY <1>6, <2>1, <2>2, <2>3, <2>4, <2>5, <2>6, <2>7, <2>8 DEF PassInv
  <1>13. QED  BY <1>10, <1>11, <1>12 DEF Inv

LEMMA ReadFileInv ==
    ASSUME Inv, ReadFile
    PROVE  Inv'
  <1>1. /\ next = 0 /\ passes < 2
        /\ lines' = split_lines(file) /\ next' = 1 /\ changed' = FALSE
        /\ UNCHANGED <<file, found, passes, at, out, in_section, saw_section, wrote_key>>
    BY DEF ReadFile, loop
  <1>2. 1 \in DOMAIN Settings /\ 0 \notin DOMAIN Settings /\ 1 \in 0..(Len(Settings) + 1)
    BY SettingsLength
  <1>3. file \in Seq(TextLines) /\ Blank \in TextLines
    BY <1>2, SettingType DEF Inv, TypeInv
  <1>4. at = 1 /\ out = <<>> /\ in_section = FALSE /\ saw_section = FALSE /\ wrote_key = FALSE
    BY <1>1, <1>2 DEF Inv, TypeInv
  <1>5. split_lines(file) \in Seq(TextLines)
    BY <1>3, SplitSettles
  <1>6. TypeInv'
    <2>1. 1 \in 1..(Len(split_lines(file)) + 1)
      BY <1>5
    <2>2. QED  BY <1>1, <1>2, <1>3, <1>4, <1>5, <2>1 DEF Inv, TypeInv
  <1>7. LoopInv'
    <2>1. SUFFICES /\ SoFar(1, split_lines(file), 0, <<>>, FALSE, FALSE, FALSE)
                   /\ Kept(split_lines(file), 0, <<>>, Len(<<>>))
      <3>1. 1 - 1 = 0
        OBVIOUS
      <3>2. QED  BY <1>1, <1>4, <3>1 DEF LoopInv
    <2>2. QED  BY <1>2, SoFarNothing
  <1>8. PassInv'
    <2>1. Kept(found, Len(found), file, Len(file))
      BY DEF Inv, PassInv
    <2>2. Kept(found, Len(found), split_lines(file), Len(split_lines(file)))
      BY <1>3, <2>1, SplitKept, KeptTrans
    <2>3. Untouched'
      <3>1. Len(<<>>) = 0 /\ 1 - 1 = 0 /\ Agree(split_lines(file), <<>>, 0)
        BY DEF Agree
      <3>2. QED  BY <1>1, <1>4, <3>1 DEF Untouched
    <2>4. \A k \in DOMAIN Settings : ~(k < 1)
      BY SettingsLength
    <2>5. passes > 0 => AllSettled(file)
      BY DEF Inv, PassInv
    <2>6. AllSettled(file)' <=> AllSettled(file)
      BY <1>1 DEF AllSettled
    <2>7. QED  BY <1>1, <2>1, <2>2, <2>3, <2>4, <2>5, <2>6 DEF PassInv
  <1>9. QED  BY <1>6, <1>7, <1>8 DEF Inv

\* The end of a pass: what was lacking was written.
LEMMA WhatIsWritten ==
    ASSUME Inv, WriteFile
    PROVE  /\ changed <=> ~AllSettled(file)
           /\ \A k \in DOMAIN Settings : Settled(Settings[k], file')
  <1>1. next = Len(Settings) + 1 /\ file' = IF changed THEN lines ELSE file
    BY DEF WriteFile
  <1>2. next > 0 /\ (\A k \in DOMAIN Settings : k < next) /\ 1 \in DOMAIN Settings
    BY <1>1, SettingsLength
  <1>3. file \in Seq(TextLines) /\ Blank \in TextLines
    BY <1>2, SettingType DEF Inv, TypeInv
  <1>4. /\ \A k \in DOMAIN Settings : Settled(Settings[k], lines)
        /\ ~changed => lines = split_lines(file)
        /\ AllSettled(file) => ~changed
    BY <1>2 DEF Inv, PassInv, Untouched
  <1>5. ~changed => \A k \in DOMAIN Settings : Settled(Settings[k], file)
    BY <1>3, <1>4, SplitSettles
  <1>6. QED  BY <1>1, <1>4, <1>5 DEF AllSettled

LEMMA WriteFileInv ==
    ASSUME Inv, WriteFile
    PROVE  Inv'
  <1>1. /\ next = Len(Settings) + 1
        /\ file' = IF changed THEN lines ELSE file
        /\ next' = 0 /\ passes' = passes + 1
        /\ UNCHANGED <<found, lines, changed, at, out, in_section, saw_section, wrote_key>>
    BY DEF WriteFile, loop
  <1>2. /\ next > 0 /\ next \notin DOMAIN Settings /\ 0 \notin DOMAIN Settings
        /\ 0 \in 0..(Len(Settings) + 1)
    BY <1>1, SettingsLength
  <1>3. file \in Seq(TextLines) /\ lines \in Seq(TextLines)
    BY DEF Inv, TypeInv
  <1>4. passes \in 0..2 /\ passes < 2 /\ passes + 1 \in 0..2
    BY <1>2 DEF Inv, TypeInv
  <1>5. TypeInv'
    BY <1>1, <1>2, <1>3, <1>4 DEF Inv, TypeInv
  <1>6. LoopInv'
    BY <1>1, <1>2 DEF LoopInv
  <1>7. PassInv'
    <2>1. Kept(found, Len(found), file, Len(file)) /\ Kept(found, Len(found), lines, Len(lines))
      BY <1>2 DEF Inv, PassInv
    <2>2. Kept(found, Len(found), file', Len(file'))
      BY <1>1, <2>1
    <2>3. AllSettled(file)'
      BY WhatIsWritten DEF AllSettled
    <2>4. passes + 1 = 2 => passes > 0
      BY <1>4
    <2>5. passes > 0 => ~changed
      BY WhatIsWritten DEF Inv, PassInv
    <2>6. QED  BY <1>1, <2>2, <2>3, <2>4, <2>5 DEF PassInv
  <1>8. QED  BY <1>5, <1>6, <1>7 DEF Inv

THEOREM Invariance == Spec => []Inv
  <1>1. Init => Inv
    BY InitInv
  <1>2. Inv /\ [Next]_vars => Inv'
    <2> SUFFICES ASSUME Inv, [Next]_vars PROVE Inv'
      OBVIOUS
    <2>1. CASE ReadFile
      BY <2>1, ReadFileInv
    <2>2. CASE VisitHeader
      BY <2>2, VisitHeaderInv
    <2>3. CASE VisitKey
      BY <2>3, VisitKeyInv
    <2>4. CASE VisitOther
      BY <2>4, VisitOtherInv
    <2>5. CASE EndOfLines
      BY <2>5, EndOfLinesInv
    <2>6. CASE WriteFile
      BY <2>6, WriteFileInv
    <2>7. CASE UNCHANGED vars
      BY <2>7 DEF vars, loop, Inv, TypeInv, LoopInv, PassInv, Untouched, AllSettled
    <2>8. QED  BY <2>1, <2>2, <2>3, <2>4, <2>5, <2>6, <2>7 DEF Next
  <1>3. QED  BY <1>1, <1>2, PTL DEF Spec

-----------------------------------------------------------------------------

\* Whatever shape the file had, each setting is in its section once and with
\* its value (upsert_ini_value, the erasing of the further entries included).
THEOREM SettingsAreSet == Spec => []SettingsTakeEffect
  <1>1. Inv => SettingsTakeEffect
    <2> SUFFICES ASSUME Inv, Written, NEW n \in DOMAIN Settings
                 PROVE  Has(Settings[n], file, Len(file))
      BY DEF SettingsTakeEffect, Has
    <2>1. QED  BY DEF Inv, PassInv, Written, Settled, AllSettled
  <1>2. QED  BY <1>1, Invariance, PTL

\* Every entry and comment that is no setting's is kept, in its section and
\* its order, and no other line of that kind comes in.
THEOREM TheRestIsKept == Spec => []OthersKept
  <1>1. Inv => OthersKept
    <2> SUFFICES ASSUME Inv PROVE OthersKept
      OBVIOUS
    <2>1. PICK to : Match(to, found, Len(found), file, Len(file))
      BY DEF Inv, PassInv, Kept
    <2>2. to \in [Others(found, Len(found)) -> Others(file, Len(file))]
      BY <2>1 DEF Match
    <2>3. DOMAIN to = Others(found, Len(found))
      BY <2>2
    <2>4. QED  BY <2>1, <2>2, <2>3 DEF OthersKept, Match
  <1>2. QED  BY <1>1, Invariance, PTL

\* The second pass finds every setting as it should be and writes nothing.
THEOREM SecondPassIsIdle == Spec => []SecondPassChangesNothing
  <1>1. Inv => SecondPassChangesNothing
    BY DEF Inv, PassInv, SecondPassChangesNothing
  <1>2. QED  BY <1>1, Invariance, PTL

\* What ProjectSetup takes from here (FileIsUpToDate and ChangeFile): a pass
\* writes the file if and only if it lacks one of the settings, and then it has
\* them all.  To have a setting is to have it once, with its value, and no
\* section of that name before without it.
THEOREM LackingIsWritten ==
    Spec => [][ passes' # passes => /\ changed <=> ~AllSettled(file)
                                    /\ AllSettled(file') ]_vars
  <1> DEFINE Ends == passes' # passes => (changed <=> ~AllSettled(file)) /\ AllSettled(file')
  <1>1. ASSUME Inv, [Next]_vars, passes' # passes
        PROVE  (changed <=> ~AllSettled(file)) /\ AllSettled(file')
    <2>1. WriteFile
      BY <1>1 DEF Next, ReadFile, VisitHeader, VisitKey, VisitOther, EndOfLines, vars
    <2>2. QED  BY <1>1, <2>1, WhatIsWritten DEF AllSettled
  <1>2. Inv /\ [Next]_vars => [Ends]_vars
    BY <1>1
  <1>3. QED  BY <1>2, Invariance, PTL DEF Spec
=============================================================================
