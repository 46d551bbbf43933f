------------------------------- MODULE AuditOnce -------------------------------
(***************************************************************************)
(* What AuditCatalogLinks promises its caller: one verdict for every       *)
(* candidate, all at once, or an error, and an error only when the run was *)
(* interrupted: no answer of a server, and no failure to get one, fails an *)
(* audit.                                                                  *)
(***************************************************************************)
CONSTANTS Indices, Verdicts, Nothing

VARIABLES
  outcome,      \* "none" until the call returns, then "report" or "error"
  verdicts,     \* the returned report, Nothing without one
  cancelled     \* has the context been cancelled

Init ==
  /\ outcome = "none"
  /\ verdicts = Nothing
  /\ cancelled \in BOOLEAN

Report ==
  /\ outcome = "none"
  /\ outcome' = "report"
  /\ verdicts' \in [Indices -> Verdicts]
  /\ UNCHANGED cancelled

Fail ==
  /\ outcome = "none"
  /\ cancelled
  /\ outcome' = "error"
  /\ UNCHANGED <<verdicts, cancelled>>

Interrupt ==
  /\ cancelled' = TRUE
  /\ UNCHANGED <<outcome, verdicts>>

Next == Report \/ Fail \/ Interrupt

Spec == Init /\ [][Next]_<<outcome, verdicts, cancelled>>

================================================================================
