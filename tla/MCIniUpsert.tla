---------------------------- MODULE MCIniUpsert ----------------------------
(* Two keys of one section S, as every settings list of the setup has it,  *)
(* and every file of up to MaxLines lines made of their like.              *)
EXTENDS IniUpsert

CONSTANT MaxLines

MCWords == {"S", "T", "K", "L", "True", "False", "80", "30010", "comment", "blank", "none"}

MCSettings == <<[section |-> "S", key |-> "K", value |-> "True"],
                [section |-> "S", key |-> "L", value |-> "30010"]>>

MCLines == {Header("S"), Header("T"), Entry("K", "True"), Spelt("K", "True"),
            Entry("K", "False"), Entry("L", "80"), Comment, Blank}

MCFiles == UNION {[1..n -> MCLines] : n \in 0..MaxLines}
=============================================================================
