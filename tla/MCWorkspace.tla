---------------------------- MODULE MCWorkspace ----------------------------
(* Two folders that exist and one that may be created, one project with    *)
(* one course.                                                             *)
EXTENDS Workspace, TLC

CONSTANTS p1, c1

MCProjectOf == c1 :> p1

CallSymmetry == Permutations(Calls)
=============================================================================
