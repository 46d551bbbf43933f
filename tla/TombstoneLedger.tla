--------------------------- MODULE TombstoneLedger ---------------------------
(***************************************************************************)
(* What the audit tool promises about the links it condemns, whatever      *)
(* happens between its two output files: a condemned link stays condemned, *)
(* and it is only ever condemned while the published evidence about it     *)
(* ends in ConfirmationsRequired audits in a row that found it in one and  *)
(* the same dead state.                                                    *)
(***************************************************************************)
EXTENDS Naturals, Sequences

CONSTANTS Links, ConfirmationsRequired, States, DeadStates

VARIABLES
  evidence,    \* Links -> what the audits in a row that list the link found
  condemned    \* links that are tombstoned

Proves(history) ==
  /\ Len(history) >= ConfirmationsRequired
  /\ \E dead \in DeadStates :
       \A i \in (Len(history) - ConfirmationsRequired + 1)..Len(history) :
         history[i] = dead

Init ==
  /\ evidence = [link \in Links |-> << >>]
  /\ condemned = {}

\* An audit is published or taken back: the evidence changes, nobody is
\* condemned by the same step.
Revise ==
  /\ evidence' \in [Links -> Seq(States)]
  /\ UNCHANGED condemned

Condemn ==
  \E dead \in SUBSET Links :
    /\ \A link \in dead \ condemned : Proves(evidence[link])
    /\ condemned' = condemned \cup dead
    /\ UNCHANGED evidence

Next == Revise \/ Condemn

Spec == Init /\ [][Next]_<<evidence, condemned>>

=============================================================================
