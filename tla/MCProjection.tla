---------------------------- MODULE MCProjection ----------------------------
(***************************************************************************)
(* Instances of Projection: two events of one course, a live one and a     *)
(* final one (or two live ones), and one or two section notes.             *)
(***************************************************************************)
EXTENDS Projection

CONSTANTS a, b

MCEvents == {a, b}
MCLast == {b}
MCNoFinal == {}
MCOneSection == <<{a, b}>>
MCTwoSections == <<{b}, {a, b}>>
=============================================================================
