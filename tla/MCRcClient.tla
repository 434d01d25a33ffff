---------------------------- MODULE MCRcClient ----------------------------
(* Two requests with legal verbs and one without, over the two ports of    *)
(* RcConfig's default.                                                     *)
EXTENDS RcClient

CONSTANTS r1, r2, bad

MCRequests == {r1, r2, bad}
MCBadVerbs == {bad}
=============================================================================
