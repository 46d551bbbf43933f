---------------------------- MODULE MCCoursesStore ----------------------------
(* An instance of CoursesStore for TLC. *)
EXTENDS CoursesStore, TLC

CONSTANTS t1, t2, v1, v2, v3, c1, c2

Symmetry == Permutations(Tabs) \cup Permutations(Versions)
            \cup Permutations(Contents)

=============================================================================
