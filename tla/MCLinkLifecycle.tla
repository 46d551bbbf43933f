--------------------------- MODULE MCLinkLifecycle ---------------------------
(* An instance of LinkLifecycle for TLC. *)
EXTENDS LinkLifecycle, TLC

CONSTANTS l1, l2, r1

\* A live link, two ways to be dead, and a status that nobody expected.
AnyAnswer ==
  {[state |-> "live", status |-> "valid"],
   [state |-> "expired", status |-> "valid"],
   [state |-> "content_mismatch", status |-> "valid"],
   [state |-> "unknown", status |-> "out_of_range"]}

AnyCatalogue == SUBSET Links

Symmetry == Permutations(Links)

=============================================================================
