----------------------------- MODULE MCCoursesPage -----------------------------
(* An instance of CoursesPage for TLC. *)
EXTENDS CoursesPage, TLC

CONSTANTS go, rust, monday, tuesday

\* On Monday one query has two batches and the other one; on Tuesday the first
\* has one and the second none.
TwoDays ==
  monday :> (go :> 2 @@ rust :> 1) @@ tuesday :> (go :> 1 @@ rust :> 0)

==================================================================================
