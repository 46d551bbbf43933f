----------------------------- MODULE MCAuditClient -----------------------------
(* An instance of AuditClient for TLC. *)
EXTENDS AuditClient, TLC

\* a may redirect to b, b to c and d; d is written as an address that is not public.
MCAllowed == [h \in {"a", "b", "c", "d"} |->
                CASE h = "a" -> {"b"} [] h = "b" -> {"c", "d"} [] OTHER -> {}]
MCLiteral == [h \in {"d"} |-> "private"]
MCAnswers == {<< >>, << "public" >>, << "private" >>, << "public", "private" >>, << "private", "public" >>}
Symmetry == Permutations(Callers)
================================================================================
