------------------------ MODULE MCApplicationFactory ------------------------
(***************************************************************************)
(* Instance of ApplicationFactory: two command-line processes, two lanes,   *)
(* the first with a candidate and its replacement.                          *)
(***************************************************************************)
EXTENDS ApplicationFactory, TLC

CONSTANTS c1, c2, k1, k2, k3, codex, gemini, r1, r2, r3

MCLaneOf == (k1 :> 1) @@ (k2 :> 1) @@ (k3 :> 2)
MCCommits == {k1, k2, k3}
MCLanes == [k \in MCCommits |-> MCLaneOf[k]]
Symmetric ==
    Permutations({c1, c2}) \cup Permutations({r1, r2, r3}) \cup Permutations({codex, gemini})
=============================================================================
