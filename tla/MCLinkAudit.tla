----------------------------- MODULE MCLinkAudit -----------------------------
(* Instances of LinkAudit for TLC. *)
EXTENDS LinkAudit, TLC

CONSTANTS l1, l2, r1, r2

Alive    == [state |-> "live", status |-> "valid"]
Expired  == [state |-> "expired", status |-> "valid"]
Mismatch == [state |-> "content_mismatch", status |-> "valid"]
Odd      == [state |-> "unknown", status |-> "out_of_range"]

DeadOrNot == {Alive, Expired}
AnyAnswer == {Alive, Expired, Mismatch, Odd}

OneCatalogue == {Links}

Symmetry == Permutations(Links) \cup Permutations(Runs)

=============================================================================
