---------------------------- MODULE VersionText ----------------------------
(***************************************************************************)
(* How the two parsers of the repository read an engine version.  A text   *)
(* is a sequence of tokens: a number below Dot for a run of digits, Dot,   *)
(* and Letter for any other character.                                     *)
(***************************************************************************)
EXTENDS Naturals, Sequences, SequencesExt

Dot    == 1000
Letter == 1001

IsNumber(text, k) == k \in DOMAIN text /\ text[k] < Dot
IsDot(text, k)    == k \in DOMAIN text /\ text[k] = Dot

(***************************************************************************)
(* CapabilityRegistry::parse_version, of what the editor reports, such as  *)
(* "5.5.4-40574608+++UE5+Release-5.5": up to three numbers, from the first *)
(* character on, each but the first behind a dot.                          *)
(***************************************************************************)
parse_version(text) ==
    LET has_major == IsNumber(text, 1)
        has_minor == has_major /\ IsDot(text, 2) /\ IsNumber(text, 3)
        has_patch == has_minor /\ IsDot(text, 4) /\ IsNumber(text, 5)
    IN  [major |-> IF has_major THEN text[1] ELSE 0,
         minor |-> IF has_minor THEN text[3] ELSE 0,
         patch |-> IF has_patch THEN text[5] ELSE 0]

(***************************************************************************)
(* parse_association, of a project's EngineAssociation: the first number,  *)
(* wherever it is, and a number behind a dot that follows it.              *)
(***************************************************************************)
parse_association(text) ==
    LET first == SelectInSeq(text, LAMBDA t : t < Dot)
        minor == IF IsDot(text, first + 1) /\ IsNumber(text, first + 2)
                 THEN text[first + 2] ELSE 0
    IN  IF first = 0 THEN [known |-> FALSE, major |-> 0, minor |-> 0]
        ELSE [known |-> TRUE, major |-> text[first], minor |-> minor]
=============================================================================
