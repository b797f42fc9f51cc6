------------------------- MODULE MCCoursePublishing -------------------------
(* Instances of CoursePublishing.                                          *)
EXTENDS CoursePublishing, TLC
MCSymmetry == Permutations(Requests)
=============================================================================
