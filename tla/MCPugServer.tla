---------------------------- MODULE MCPugServer ----------------------------
(* Values for the constants of PugServer. *)
EXTENDS PugServer

MCNames == {"home", "home/x"}
MCPrefix == {<<n, n>> : n \in MCNames} \cup {<<"home/x", "home">>}
=============================================================================
