---------------------------- MODULE MCPugEngine ----------------------------
(* Values for the constants of PugEngine. *)
EXTENDS PugEngine, TLC

MCNames == {"home", "home/x"}
MCPrefix == {<<n, n>> : n \in MCNames} \cup {<<"home/x", "home">>}

MCOneName == {"home"}
MCOnePrefix == {<<"home", "home">>}

\* Requests are interchangeable; used by runs without liveness only.
MCSymmetry == Permutations(Requests)
=============================================================================
