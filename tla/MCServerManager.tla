-------------------------- MODULE MCServerManager --------------------------
(* Two requests, and two servers that may follow each other.               *)
EXTENDS ServerManager
=============================================================================
