---------------------------- MODULE MCWorkspace ----------------------------
(***************************************************************************)
(* Instance of Workspace: three commands at a time, any number one after    *)
(* another.                                                                 *)
(***************************************************************************)
EXTENDS Workspace, TLC

CONSTANTS c1, c2, c3

MCCallers == {c1, c2, c3}
MCSymmetry == Permutations(MCCallers)
=============================================================================
