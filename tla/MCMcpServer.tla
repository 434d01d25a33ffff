---------------------------- MODULE MCMcpServer ----------------------------
(* Two lines, batches of two: an answer lost, repeated or moved to the     *)
(* neighbouring message or line shows with that.                           *)
EXTENDS McpServer

MCAll == Answering \cup Silent \cup Escaping
=============================================================================
