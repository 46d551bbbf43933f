---------------------------- MODULE MCEnrichment ----------------------------
(* Bodies of each kind: nothing in it, what the first marker finds is broken,   *)
(* is unfit, and nothing but a broken object.                                  *)
EXTENDS Enrichment

CONSTANTS good, unfit

At(m, f) == [marker |-> m, found |-> f]

MCBodies ==
    {<<At(1, "no object")>>,
     <<At(2, good), At(1, "broken object")>>,
     <<At(2, good), At(1, unfit)>>,
     <<At(1, "no object"), At(1, "broken object")>>}
=============================================================================
