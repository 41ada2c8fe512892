---------------------------- MODULE MCCourseText ----------------------------
(***************************************************************************)
(* Instance of CourseText: two pages, an original that may be revised and  *)
(* revised back, and two wordings of a translation.                        *)
(***************************************************************************)
EXTENDS CourseText, TLC

CONSTANTS page1, page2, t0, t1, t2, h1, h2

MCPages == {page1, page2}
MCTexts == {t0, t1}
MCWordings == {h1, h2}
MCWording == {h1}
MCSymmetry == Permutations(MCPages)
=============================================================================
