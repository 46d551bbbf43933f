----------------------------- MODULE MCAuditPool -----------------------------
(* An instance of AuditPool for TLC: three links under three rules. *)
EXTENDS AuditPool, TLC

CONSTANTS w1, w2

ThreeRules ==
  << [dead_body |-> FALSE, success_body |-> FALSE],
     [dead_body |-> TRUE,  success_body |-> FALSE],
     [dead_body |-> FALSE, success_body |-> TRUE] >>

=============================================================================
