------------------------------- MODULE LocalCopy -------------------------------
(***************************************************************************)
(* What the search worker promises about the copy of the catalogue in the  *)
(* browser.  A request replaces or removes the copy in one step, and its   *)
(* answer tells the truth about that step: "ok" only after it, "failed"    *)
(* only when it did not happen.  Closing the tab may fall on either side.  *)
(***************************************************************************)
CONSTANTS Contents, None

VARIABLES
  copy,      \* the stored catalogue, None without one
  request,   \* "none", "boot", "import" or "forget"
  wanted,    \* the catalogue an import brings
  done,      \* has the request in progress taken effect
  answer     \* of the last request: "none" until there is one, "ok", "failed"

Init ==
  /\ copy = None
  /\ request = "none"
  /\ wanted = None
  /\ done = FALSE
  /\ answer = "none"

Ask ==
  /\ request = "none"
  /\ request' \in {"boot", "import", "forget"}
  /\ wanted' \in Contents \cup {None}
  /\ done' = FALSE
  /\ answer' = "none"
  /\ UNCHANGED copy

Effect ==
  /\ request \in {"import", "forget"}
  /\ ~ done
  /\ copy' = IF request = "import" THEN wanted ELSE None
  /\ done' = TRUE
  /\ UNCHANGED <<request, wanted, answer>>

\* A boot changes nothing and may find the copy unreadable.
Answer ==
  /\ request # "none"
  /\ answer' \in {"ok", "failed"}
  /\ request # "boot" => (answer' = "ok" <=> done)
  /\ request' = "none"
  /\ wanted' = None
  /\ done' = FALSE
  /\ UNCHANGED copy

Close ==
  /\ request' = "none"
  /\ wanted' = None
  /\ done' = FALSE
  /\ answer' = "none"
  /\ UNCHANGED copy

Next == Ask \/ Effect \/ Answer \/ Close

Spec == Init /\ [][Next]_<<copy, request, wanted, done, answer>>

================================================================================
