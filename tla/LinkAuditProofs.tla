--------------------------- MODULE LinkAuditProofs ---------------------------
(***************************************************************************)
(* Proofs about LinkAudit, for every set of links, runs and answers, every *)
(* confirmations_required and every bound; and about LinkLifecycle: with   *)
(* one run of the audit and one build at a time, a dropped link never      *)
(* comes back.                                                             *)
(***************************************************************************)
EXTENDS LinkLifecycle, TLAPS

-----------------------------------------------------------------------------
(* The data operators.                                                     *)

LEMMA InitialValues ==
  /\ NoResult \in Result /\ NoTombstone \in Tombstone
  /\ EmptyReport \in [Links -> Result]
  /\ EmptyTombstones \in [Links -> Tombstone]
  /\ Honest(NoResult) /\ Proven(NoTombstone)
<1>1. << >> \in Seq(LinkAuditState) /\ Len(<< >>) = 0
  OBVIOUS
<1>2. NoResult \in Result /\ NoTombstone \in Tombstone
  BY <1>1 DEF NoResult, NoTombstone, Result, Tombstone, Status
<1>3. Honest(NoResult)
  BY DEF Honest, NoResult, Deletable
<1>4. QED
  BY <1>2, <1>3 DEF EmptyReport, EmptyTombstones, Proven

LEMMA MergedResultType ==
  ASSUME NEW last \in Result, NEW answer \in Answer
  PROVE  MergeAuditResult(last, answer) \in Result
<1>1. Append(last.seen, answer.state) \in Seq(LinkAuditState)
  BY DEF Result, Answer
<1>2. last.confirmations + 1 \in Nat
  BY DEF Result
<1>3. QED
  BY <1>1, <1>2 DEF MergeAuditResult, Result, Answer

\* One more audit keeps the count honest: the counter grows only over the very
\* same dead state, and then the stretch it counts grows by one at its end.
LEMMA MergedResultHonest ==
  ASSUME NEW last \in Result, NEW answer \in Answer, Honest(last)
  PROVE  Honest(MergeAuditResult(last, answer))
<1> DEFINE new == MergeAuditResult(last, answer)
           n   == Len(last.seen)
           k   == last.confirmations
<1>1. /\ last.seen \in Seq(LinkAuditState) /\ n \in Nat /\ k \in Nat
      /\ answer.state \in LinkAuditState
  BY DEF Result, Answer
<1>2. /\ new.state = answer.state
      /\ Len(new.seen) = n + 1
      /\ new.seen[n + 1] = answer.state
      /\ \A i \in 1..n : new.seen[i] = last.seen[i]
  BY <1>1 DEF MergeAuditResult
<1>3. new.state # "none"
  BY <1>1, <1>2 DEF LinkAuditState
<1>4. CASE ~ Deletable(answer)
  <2>1. new.confirmations = 0 /\ ~ Deletable(new)
    BY <1>2, <1>4 DEF MergeAuditResult, Deletable
  <2>2. QED
    BY <1>1, <1>2, <1>3, <2>1 DEF Honest
<1>5. CASE Deletable(answer) /\ last.state = answer.state
  <2>1. new.confirmations = k + 1 /\ Deletable(new) /\ Deletable(last)
    BY <1>2, <1>5 DEF MergeAuditResult, Deletable
  <2>2. /\ k >= 1 /\ k <= n
        /\ \A i \in (n - k + 1)..n : last.seen[i] = last.state
        /\ k < n => last.seen[n - k] # last.state
    BY <1>1, <2>1 DEF Honest
  <2>3. \A i \in (n + 1 - (k + 1) + 1)..(n + 1) : new.seen[i] = new.state
    <3>1. SUFFICES ASSUME NEW i \in (n + 1 - (k + 1) + 1)..(n + 1)
                   PROVE  new.seen[i] = new.state
      OBVIOUS
    <3>2. CASE i = n + 1
      BY <1>2, <3>2
    <3>3. CASE i # n + 1
      <4>1. i \in 1..n /\ i \in (n - k + 1)..n
        BY <1>1, <2>2, <3>3
      <4>2. last.seen[i] = last.state /\ new.seen[i] = last.seen[i]
        BY <1>2, <2>2, <4>1
      <4>3. QED
        BY <1>2, <1>5, <4>2
    <3>4. QED
      BY <3>2, <3>3
  <2>4. k + 1 < n + 1 => new.seen[n + 1 - (k + 1)] # new.state
    <3>1. n + 1 - (k + 1) = n - k
      BY <1>1
    <3>2. k < n => n - k \in 1..n /\ last.seen[n - k] # last.state
      BY <1>1, <2>2
    <3>3. QED
      BY <1>1, <1>2, <1>5, <3>1, <3>2
  <2>5. /\ n + 1 >= 1 /\ k + 1 >= 1 /\ k + 1 <= n + 1
    BY <1>1, <2>2
  <2> HIDE DEF new, n, k
  <2>6. Honest(new)
    BY <1>1, <1>2, <1>3, <2>1, <2>3, <2>4, <2>5 DEF Honest
  <2>7. QED
    BY <2>6 DEF new
<1>6. CASE Deletable(answer) /\ last.state # answer.state
  <2>1. new.confirmations = 1 /\ Deletable(new)
    BY <1>2, <1>6 DEF MergeAuditResult, Deletable
  <2>2. 1 < n + 1 => new.seen[n] # new.state
    <3>1. n >= 1 => last.seen[n] = last.state
      BY <1>1 DEF Honest
    <3>2. QED
      BY <1>1, <1>2, <1>6, <3>1
  <2>3. QED
    BY <1>1, <1>2, <1>3, <2>1, <2>2 DEF Honest
<1>7. QED
  BY <1>4, <1>5, <1>6

\* What MergeEligibleAuditResults adds is proven, what it keeps stays as it was.
LEMMA MergedTombstones ==
  ASSUME NEW records \in [Links -> Tombstone], NEW audit \in [Links -> Result],
         HonestReport(audit), ProvenTombstones(records)
  PROVE  LET new == MergeEligibleAuditResults(records, audit)
         IN  /\ new \in [Links -> Tombstone]
             /\ ProvenTombstones(new)
             /\ \A link \in Links :
                  records[link] # NoTombstone => new[link] = records[link]
<1> DEFINE new == MergeEligibleAuditResults(records, audit)
<1>1. ASSUME NEW link \in Links
      PROVE  /\ new[link] \in Tombstone
             /\ Proven(new[link])
             /\ records[link] # NoTombstone => new[link] = records[link]
  <2>1. CASE records[link] = NoTombstone /\ EligibleForTombstone(audit[link])
    <3> DEFINE result == audit[link]
               n == Len(result.seen)
    <3>1. new[link] = [reason |-> result.state, seen |-> result.seen]
      BY <2>1 DEF MergeEligibleAuditResults
    <3>2. result \in Result /\ Honest(result)
      BY DEF HonestReport
    <3>3. /\ result.state \in {"expired", "content_mismatch"}
          /\ result.confirmations >= ConfirmationsRequired
      BY <2>1 DEF EligibleForTombstone, Deletable
    <3>4. result.seen \in Seq(LinkAuditState) /\ n \in Nat
          /\ result.confirmations \in Nat
      BY <3>2 DEF Result
    <3>5. /\ result.confirmations <= n
          /\ \A i \in (n - result.confirmations + 1)..n :
               result.seen[i] = result.state
      BY <3>2 DEF Honest
    <3>6. /\ n >= ConfirmationsRequired
          /\ \A i \in (n - ConfirmationsRequired + 1)..n :
               result.seen[i] = result.state
      BY <3>3, <3>4, <3>5, AuditAssumption
    <3>7. new[link] \in Tombstone
      BY <3>1, <3>3, <3>4 DEF Tombstone
    <3>8. Proven(new[link])
      BY <3>1, <3>3, <3>6 DEF Proven
    <3>9. QED
      BY <2>1, <3>7, <3>8
  <2>2. CASE ~ (records[link] = NoTombstone /\ EligibleForTombstone(audit[link]))
    BY <2>2 DEF MergeEligibleAuditResults, ProvenTombstones
  <2>3. QED
    BY <2>1, <2>2
<1>2. new = [link \in Links |-> new[link]]
  BY DEF MergeEligibleAuditResults
<1> HIDE DEF new
<1>3. new \in [Links -> Tombstone] /\ ProvenTombstones(new)
  BY <1>1, <1>2 DEF ProvenTombstones
<1>4. QED
  BY <1>1, <1>3 DEF new

LEMMA AuditReportGood ==
  ASSUME NEW links \in SUBSET Links, NEW last \in [Links -> Result],
         NEW answer \in [Links -> Answers], HonestReport(last)
  PROVE  /\ AuditReport(links, last, answer) \in [Links -> Result]
         /\ HonestReport(AuditReport(links, last, answer))
<1>1. ASSUME NEW link \in Links
      PROVE  /\ AuditReport(links, last, answer)[link] \in Result
             /\ Honest(AuditReport(links, last, answer)[link])
  <2>1. answer[link] \in Answer /\ last[link] \in Result /\ Honest(last[link])
    BY AuditAssumption DEF HonestReport
  <2>2. /\ MergeAuditResult(last[link], answer[link]) \in Result
        /\ Honest(MergeAuditResult(last[link], answer[link]))
    BY <2>1, MergedResultType, MergedResultHonest
  <2>3. QED
    BY <2>2, InitialValues DEF AuditReport
<1>2. QED
  BY <1>1 DEF AuditReport, HonestReport

-----------------------------------------------------------------------------
(* The evidence: any number of runs, overlapping as they like.             *)

LEMMA InitGood == Init => TypeOK /\ EvidenceInv
<1>1. SUFFICES ASSUME Init PROVE TypeOK /\ EvidenceInv
  OBVIOUS
<1>2. HonestReport(EmptyReport) /\ ProvenTombstones(EmptyTombstones)
  BY InitialValues
     DEF HonestReport, ProvenTombstones, EmptyReport, EmptyTombstones
<1>3. TypeOK
  BY <1>1, InitialValues, AuditAssumption DEF Init, TypeOK, Ended
<1>4. EvidenceInv
  BY <1>1, <1>2 DEF Init, EvidenceInv
<1>5. QED
  BY <1>3, <1>4

\* One step of one run: the actions that compute or copy a file, then those
\* that only move the run along.
LEMMA RunStepGood ==
  ASSUME TypeOK, EvidenceInv, NEW r \in Runs, RunStep(r)
  PROVE  TypeOK' /\ EvidenceInv'
<1> USE DEF Goto, Ended, Running, files, locals
<1>1. CASE Start(r)
  <2>1. HonestReport(EmptyReport) /\ ProvenTombstones(EmptyTombstones)
    BY InitialValues
       DEF HonestReport, ProvenTombstones, EmptyReport, EmptyTombstones
  <2>2. TypeOK'
    BY <1>1, InitialValues DEF TypeOK, Start
  <2>3. EvidenceInv'
    BY <1>1, <2>1 DEF TypeOK, EvidenceInv, Start, HonestReport, ProvenTombstones
  <2>4. QED
    BY <2>2, <2>3
<1>2. CASE LoadReport(r)
  <2>1. TypeOK'
    BY <1>2 DEF TypeOK, LoadReport
  <2>2. EvidenceInv'
    BY <1>2 DEF TypeOK, EvidenceInv, LoadReport, HonestReport, ProvenTombstones
  <2>3. QED
    BY <2>1, <2>2
<1>3. CASE LoadTombstones(r)
  <2>1. TypeOK'
    BY <1>3 DEF TypeOK, LoadTombstones
  <2>2. EvidenceInv'
    BY <1>3
       DEF TypeOK, EvidenceInv, LoadTombstones, HonestReport, ProvenTombstones
  <2>3. QED
    BY <2>1, <2>2
<1>4. CASE Audit(r)
  <2>1. PICK answer \in [Links -> Answers] :
          results' = [results EXCEPT
                        ![r] = AuditReport(candidates[r], previous[r], answer)]
    BY <1>4 DEF Audit
  <2>2. /\ candidates[r] \in SUBSET Links
        /\ previous[r] \in [Links -> Result]
        /\ HonestReport(previous[r])
    BY DEF TypeOK, EvidenceInv
  <2> DEFINE new == AuditReport(candidates[r], previous[r], answer)
  <2>3. new \in [Links -> Result] /\ HonestReport(new)
    BY <2>2, AuditReportGood
  <2> HIDE DEF new
  <2>4. results' = [results EXCEPT ![r] = new]
    BY <2>1 DEF new
  <2>5. TypeOK'
    BY <1>4, <2>3, <2>4 DEF TypeOK, Audit
  <2>6. EvidenceInv'
    BY <1>4, <2>3, <2>4
       DEF TypeOK, EvidenceInv, Audit, HonestReport, ProvenTombstones
  <2>7. QED
    BY <2>5, <2>6
<1>5. CASE MergeTombstones(r)
  <2> DEFINE new == MergeEligibleAuditResults(known[r], results[r])
  <2>1. /\ known[r] \in [Links -> Tombstone] /\ results[r] \in [Links -> Result]
        /\ HonestReport(results[r]) /\ ProvenTombstones(known[r])
    BY DEF TypeOK, EvidenceInv
  <2>2. new \in [Links -> Tombstone] /\ ProvenTombstones(new)
    BY <2>1, MergedTombstones
  <2>3. merged' = [merged EXCEPT ![r] = new]
    BY <1>5 DEF MergeTombstones
  <2> HIDE DEF new
  <2>4. TypeOK'
    BY <1>5, <2>2, <2>3 DEF TypeOK, MergeTombstones
  <2>5. EvidenceInv'
    BY <1>5, <2>2, <2>3
       DEF TypeOK, EvidenceInv, MergeTombstones, HonestReport, ProvenTombstones
  <2>6. QED
    BY <2>4, <2>5
<1>6. CASE Prepare(r)
  <2>1. TypeOK'
    BY <1>6 DEF TypeOK, Prepare
  <2>2. EvidenceInv'
    BY <1>6 DEF TypeOK, EvidenceInv, Prepare, HonestReport, ProvenTombstones
  <2>3. QED
    BY <2>1, <2>2
<1>7. CASE SwapReport(r)
  <2>1. TypeOK'
    <3>1. results[r] \in [Links -> Result]
      BY DEF TypeOK
    <3>2. report' \in [Links -> Result]
      BY <1>7, <3>1 DEF TypeOK, SwapReport
    <3>3. QED
      BY <1>7, <3>2 DEF TypeOK, SwapReport
  <2>2. EvidenceInv'
    BY <1>7 DEF EvidenceInv, SwapReport, HonestReport, ProvenTombstones
  <2>3. QED
    BY <2>1, <2>2
<1>8. CASE SwapTombstones(r)
  <2>1. TypeOK'
    <3>1. merged[r] \in [Links -> Tombstone]
      BY DEF TypeOK
    <3>2. tombstones' \in [Links -> Tombstone]
      BY <1>8, <3>1 DEF TypeOK, SwapTombstones
    <3>3. QED
      BY <1>8, <3>2 DEF TypeOK, SwapTombstones
  <2>2. EvidenceInv'
    BY <1>8 DEF EvidenceInv, SwapTombstones, HonestReport, ProvenTombstones
  <2>3. QED
    BY <2>1, <2>2
<1>9. CASE RestoreReport(r)
  <2>1. TypeOK'
    <3>1. backup[r] \in [Links -> Result]
      BY DEF TypeOK
    <3>2. report' \in [Links -> Result]
      BY <1>9, <3>1 DEF TypeOK, RestoreReport
    <3>3. QED
      BY <1>9, <3>2 DEF TypeOK, RestoreReport
  <2>2. EvidenceInv'
    BY <1>9 DEF EvidenceInv, RestoreReport, HonestReport, ProvenTombstones
  <2>3. QED
    BY <2>1, <2>2
<1>10. CASE Abort(r) \/ CheckContext(r) \/ Cancel(r) \/ Kill(r)
  <2>1. TypeOK'
    BY <1>10 DEF TypeOK, Abort, CheckContext, Cancel, Kill
  <2>2. EvidenceInv'
    BY <1>10 DEF EvidenceInv, HonestReport, ProvenTombstones, Abort,
                 CheckContext, Cancel, Kill
  <2>3. QED
    BY <2>1, <2>2
<1>11. QED
  BY <1>1, <1>2, <1>3, <1>4, <1>5, <1>6, <1>7, <1>8, <1>9, <1>10 DEF RunStep

LEMMA NextGood ==
  ASSUME TypeOK, EvidenceInv, [Next]_vars
  PROVE  TypeOK' /\ EvidenceInv'
<1>1. CASE Republish
  BY <1>1, AuditAssumption DEF Republish, TypeOK, EvidenceInv, HonestReport,
     ProvenTombstones, files, locals
<1>2. CASE \E r \in Runs : RunStep(r)
  BY <1>2, RunStepGood
<1>3. CASE UNCHANGED vars
  BY <1>3 DEF vars, TypeOK, EvidenceInv, HonestReport, ProvenTombstones, files,
     locals
<1>4. QED
  BY <1>1, <1>2, <1>3 DEF Next

\* Every file and every copy keeps its shape, for any number of runs.
THEOREM TypeCorrect == Spec => []TypeOK
<1>1. Init => TypeOK /\ EvidenceInv
  BY InitGood
<1>2. (TypeOK /\ EvidenceInv) /\ [Next]_vars => (TypeOK /\ EvidenceInv)'
  BY NextGood
<1>3. QED
  BY <1>1, <1>2, PTL DEF Spec

\* Every count in every report and every tombstone rests on the audits it
\* claims, also when runs overlap, roll back and overwrite each other.
THEOREM EvidenceCorrect == Spec => []EvidenceInv
<1>1. Init => TypeOK /\ EvidenceInv
  BY InitGood
<1>2. (TypeOK /\ EvidenceInv) /\ [Next]_vars => (TypeOK /\ EvidenceInv)'
  BY NextGood
<1>3. QED
  BY <1>1, <1>2, PTL DEF Spec

\* The count of a result is the number of latest audits in a row that found
\* the link dead in its present way (mergeAuditResult).
THEOREM CountsAlwaysHonest == Spec => []CountsAreHonest
<1>1. EvidenceInv => CountsAreHonest
  BY DEF EvidenceInv, CountsAreHonest
<1>2. QED
  BY <1>1, EvidenceCorrect, PTL

\* No link is tombstoned on less than confirmations_required audits in a row
\* that found it dead in the one way its tombstone names.
THEOREM TombstonesAlwaysProven == Spec => []TombstonesProven
<1>1. EvidenceInv => TombstonesProven
  BY DEF EvidenceInv, TombstonesProven
<1>2. QED
  BY <1>1, EvidenceCorrect, PTL

-----------------------------------------------------------------------------
(* Publication: one run at a time.                                         *)

LEMMA InitPublication == Init => PublicationInv /\ AllOrNothing
  BY DEF Init, PublicationInv, AllOrNothing

LEMMA RunStepPublication ==
  ASSUME Sequential, TypeOK, PublicationInv, AllOrNothing,
         NEW r \in Runs, RunStep(r)
  PROVE  PublicationInv' /\ AllOrNothing'
<1> USE DEF Goto, Ended, Running, files, locals, PublicationInv, AllOrNothing
<1>1. /\ \A s \in Runs : s = r
      /\ pc \in [Runs -> Ended \cup Running]
      /\ previous \in [Runs -> [Links -> Result]]
      /\ known \in [Runs -> [Links -> Tombstone]]
      /\ results \in [Runs -> [Links -> Result]]
      /\ merged \in [Runs -> [Links -> Tombstone]]
      /\ backup \in [Runs -> [Links -> Result]]
  BY DEF Sequential, TypeOK
<1>2. CASE Start(r)
  BY <1>1, <1>2 DEF Start
<1>3. CASE LoadReport(r)
  BY <1>1, <1>3 DEF LoadReport
<1>4. CASE LoadTombstones(r)
  BY <1>1, <1>4 DEF LoadTombstones
<1>5. CASE Audit(r)
  BY <1>1, <1>5 DEF Audit
<1>6. CASE MergeTombstones(r)
  BY <1>1, <1>6 DEF MergeTombstones
<1>7. CASE Prepare(r)
  BY <1>1, <1>7 DEF Prepare
<1>8. CASE Abort(r)
  BY <1>1, <1>8 DEF Abort
<1>9. CASE SwapReport(r)
  BY <1>1, <1>9 DEF SwapReport
<1>10. CASE CheckContext(r)
  BY <1>1, <1>10 DEF CheckContext
<1>11. CASE SwapTombstones(r)
  BY <1>1, <1>11 DEF SwapTombstones
<1>12. CASE RestoreReport(r)
  BY <1>1, <1>12 DEF RestoreReport
<1>13. CASE Cancel(r)
  BY <1>1, <1>13 DEF Cancel
<1>14. CASE Kill(r)
  BY <1>1, <1>14 DEF Kill
<1>15. QED
  BY <1>2, <1>3, <1>4, <1>5, <1>6, <1>7, <1>8, <1>9, <1>10, <1>11, <1>12, <1>13, <1>14 DEF RunStep

LEMMA NextPublication ==
  ASSUME Sequential, TypeOK, PublicationInv, AllOrNothing, [Next]_vars
  PROVE  PublicationInv' /\ AllOrNothing'
<1>1. CASE Republish
  BY <1>1 DEF Republish, PublicationInv, AllOrNothing, files, locals
<1>2. CASE \E r \in Runs : RunStep(r)
  BY <1>2, RunStepPublication
<1>3. CASE UNCHANGED vars
  BY <1>3 DEF vars, PublicationInv, AllOrNothing, files, locals
<1>4. QED
  BY <1>1, <1>2, <1>3 DEF Next

LEMMA SequentialInv ==
  ASSUME Sequential
  PROVE  Spec => [](TypeOK /\ EvidenceInv /\ PublicationInv /\ AllOrNothing)
<1> DEFINE Inv == TypeOK /\ EvidenceInv /\ PublicationInv /\ AllOrNothing
<1>1. Init => Inv
  BY InitGood, InitPublication
<1>2. Inv /\ [Next]_vars => Inv'
  BY NextGood, NextPublication
<1>3. QED
  BY <1>1, <1>2, PTL DEF Spec

\* One run at a time: a run that ends normally published both files, one that
\* reports failure published nothing, one that died in between left the
\* tombstones alone (writeAtomicPairWithRename).
THEOREM PublicationIsAllOrNothing ==
  ASSUME Sequential PROVE Spec => []AllOrNothing
  BY SequentialInv, PTL

\* One run at a time: nothing is due and untombstoned after a run that ended
\* normally, whatever the runs before it left behind.
THEOREM NothingStaysOverdue ==
  ASSUME Sequential PROVE Spec => []NothingOverdue
<1>1. PublicationInv /\ AllOrNothing /\ TypeOK => NothingOverdue
  <2>1. SUFFICES ASSUME PublicationInv, AllOrNothing, TypeOK,
                        NEW r \in Runs, pc[r] = "done",
                        NEW link \in Links, EligibleForTombstone(report[link])
                 PROVE  tombstones[link] # NoTombstone
    BY DEF NothingOverdue
  <2>2. /\ report = results[r] /\ tombstones = merged[r]
        /\ merged[r] = MergeEligibleAuditResults(known[r], results[r])
    BY <2>1 DEF PublicationInv, AllOrNothing
  <2>3. CASE known[r][link] = NoTombstone
    <3>1. tombstones[link] = [reason |-> report[link].state,
                              seen |-> report[link].seen]
      BY <2>1, <2>2, <2>3 DEF MergeEligibleAuditResults
    <3>2. report[link].state \in {"expired", "content_mismatch"}
      BY <2>1 DEF EligibleForTombstone, Deletable
    <3>3. QED
      BY <3>1, <3>2 DEF NoTombstone
  <2>4. CASE known[r][link] # NoTombstone
    BY <2>2, <2>4 DEF MergeEligibleAuditResults
  <2>5. QED
    BY <2>3, <2>4
<1>2. QED
  BY <1>1, SequentialInv, PTL

\* A step either leaves the tombstones alone or is the second rename, which
\* adds records to the very file the run loaded.
LEMMA TombstoneSteps ==
  ASSUME Sequential, TypeOK, EvidenceInv, PublicationInv, [Next]_vars,
         tombstones' # tombstones
  PROVE  \E r \in Runs :
           /\ SwapTombstones(r)
           /\ tombstones' = MergeEligibleAuditResults(tombstones, report)
<1>1. PICK r \in Runs : SwapTombstones(r)
  BY DEF Next, vars, files, Republish, RunStep, Start, LoadReport,
         LoadTombstones, Audit, MergeTombstones, Prepare, Abort, SwapReport,
         CheckContext, RestoreReport, Cancel, Kill
<1>2. /\ pc[r] = "swap_tombstones"
      /\ tombstones' = merged[r]
  BY <1>1 DEF SwapTombstones
<1>3. /\ merged[r] = MergeEligibleAuditResults(known[r], results[r])
      /\ known[r] = tombstones
      /\ report = results[r]
  BY <1>2 DEF PublicationInv
<1>4. QED
  BY <1>1, <1>2, <1>3

\* One run at a time: a tombstone is never taken away or rewritten.
THEOREM TombstonesNeverShrink ==
  ASSUME Sequential PROVE Spec => TombstonesOnlyGrow
<1> DEFINE Inv == TypeOK /\ EvidenceInv /\ PublicationInv /\ AllOrNothing
           Kept == \A link \in Links : tombstones[link] # NoTombstone =>
                     tombstones'[link] = tombstones[link]
<1>1. Inv /\ [Next]_vars => [Kept]_vars
  <2>1. SUFFICES ASSUME Inv, [Next]_vars, tombstones' # tombstones PROVE Kept
    OBVIOUS
  <2>2. tombstones' = MergeEligibleAuditResults(tombstones, report)
    BY <2>1, TombstoneSteps
  <2>3. QED
    BY <2>2 DEF MergeEligibleAuditResults
<1>2. QED
  BY <1>1, SequentialInv, PTL DEF Spec, TombstonesOnlyGrow

-----------------------------------------------------------------------------
(* The tool implements the ledger.                                         *)

LEMMA InitLedger == Init => Ledger!Init
<1>1. SUFFICES ASSUME Init PROVE Ledger!Init
  OBVIOUS
<1>2. \A link \in Links : report[link].seen = << >>
  BY <1>1 DEF Init, EmptyReport, NoResult
<1>3. \A link \in Links : tombstones[link] = NoTombstone
  BY <1>1 DEF Init, EmptyTombstones
<1>4. QED
  BY <1>2, <1>3 DEF Ledger!Init

\* The second rename condemns: what it adds is due in the published report.
LEMMA CondemnLedger ==
  ASSUME TypeOK, EvidenceInv, UNCHANGED report,
         tombstones' = MergeEligibleAuditResults(tombstones, report)
  PROVE  Ledger!Condemn
<1> DEFINE dead == {link \in Links : tombstones'[link] # NoTombstone}
           old  == {link \in Links : tombstones[link] # NoTombstone}
<1>1. ASSUME NEW link \in dead \ old PROVE Ledger!Proves(report[link].seen)
  <2> DEFINE n == Len(report[link].seen)
  <2>1. link \in Links /\ EligibleForTombstone(report[link])
        /\ tombstones'[link] = [reason |-> report[link].state,
                                seen |-> report[link].seen]
    BY <1>1 DEF MergeEligibleAuditResults
  <2>2. report[link].state \in {"expired", "content_mismatch"}
    BY <2>1 DEF EligibleForTombstone, Deletable
  <2>3. /\ tombstones \in [Links -> Tombstone] /\ report \in [Links -> Result]
        /\ HonestReport(report) /\ ProvenTombstones(tombstones)
    BY DEF TypeOK, EvidenceInv
  <2>4. Proven(tombstones'[link])
    BY <2>1, <2>3, MergedTombstones DEF ProvenTombstones
  <2>5. /\ n >= ConfirmationsRequired
        /\ \A i \in (n - ConfirmationsRequired + 1)..n :
             report[link].seen[i] = report[link].state
    BY <2>1, <2>2, <2>4 DEF Proven, NoTombstone
  <2>6. QED
    BY <2>2, <2>5 DEF Ledger!Proves
<1>2. old \subseteq dead
  BY DEF MergeEligibleAuditResults
<1>3. dead \in SUBSET Links /\ dead = old \cup dead
  BY <1>2
<1>4. \A link \in dead \ old :
        Ledger!Proves([l \in Links |-> report[l].seen][link])
  BY <1>1
<1> HIDE DEF dead
<1>5. QED
  BY <1>3, <1>4 DEF Ledger!Condemn, dead

\* Every other step revises the evidence or stutters.
LEMMA ReviseLedger ==
  ASSUME TypeOK, TypeOK', UNCHANGED tombstones
  PROVE  Ledger!Revise
<1>1. \A link \in Links : report'[link].seen \in Seq(LinkAuditState)
  BY DEF TypeOK, Result
<1>2. [link \in Links |-> report'[link].seen] \in [Links -> Seq(LinkAuditState)]
  BY <1>1
<1>3. QED
  BY <1>2 DEF Ledger!Revise

\* One run at a time, the tool implements the ledger: condemned links stay
\* condemned, and each was condemned under a published report that proves it.
THEOREM ImplementsLedger ==
  ASSUME Sequential PROVE Spec => LedgerSpec
<1> DEFINE Inv == TypeOK /\ EvidenceInv /\ PublicationInv /\ AllOrNothing
<1>1. Init => Ledger!Init
  BY InitLedger
<1>2. Inv /\ [Next]_vars => Ledger!Next
  <2>1. SUFFICES ASSUME Inv, [Next]_vars PROVE Ledger!Next
    OBVIOUS
  <2>2. CASE tombstones' = tombstones
    BY <2>1, <2>2, NextGood, ReviseLedger DEF Ledger!Next
  <2>3. CASE tombstones' # tombstones
    <3>1. PICK r \in Runs :
            /\ SwapTombstones(r)
            /\ tombstones' = MergeEligibleAuditResults(tombstones, report)
      BY <2>1, <2>3, TombstoneSteps
    <3>2. UNCHANGED report
      BY <3>1 DEF SwapTombstones
    <3>3. QED
      BY <2>1, <3>1, <3>2, CondemnLedger DEF Ledger!Next
  <2>4. QED
    BY <2>2, <2>3
<1>3. QED
  BY <1>1, <1>2, SequentialInv, PTL DEF Spec, LedgerSpec, Ledger!Spec

-----------------------------------------------------------------------------
(* LinkLifecycle.                                                          *)

\* The files and the runs take steps of LinkAudit only: publishing what was
\* built is one of the catalogues Republish may choose.
LEMMA LifecycleStepsAudit ==
  ASSUME LifecycleTypeOK, [LifecycleNext]_allVars
  PROVE  [Next]_vars
<1>1. CASE PublishCatalog
  BY <1>1, CataloguesAssumption
     DEF PublishCatalog, LifecycleTypeOK, Next, Republish
<1>2. CASE \E r \in Runs : RunStep(r) /\ UNCHANGED builderVars
  BY <1>2 DEF Next
<1>3. CASE NewSnapshot \/ LoadFilters \/ BuildCatalog \/ AbandonBuild
  BY <1>3 DEF NewSnapshot, LoadFilters, BuildCatalog, AbandonBuild
<1>4. CASE UNCHANGED allVars
  BY <1>4 DEF allVars
<1>5. QED
  BY <1>1, <1>2, <1>3, <1>4 DEF LifecycleNext

LEMMA TombstonedGrows ==
  ASSUME Sequential, TypeOK, EvidenceInv, PublicationInv, [Next]_vars
  PROVE  Tombstoned \subseteq Tombstoned'
<1>1. CASE tombstones' = tombstones
  BY <1>1 DEF Tombstoned
<1>2. CASE tombstones' # tombstones
  <2>1. tombstones' = MergeEligibleAuditResults(tombstones, report)
    BY <1>2, TombstoneSteps
  <2>2. QED
    BY <2>1 DEF Tombstoned, MergeEligibleAuditResults
<1>3. QED
  BY <1>1, <1>2

LifecycleInv ==
  BuildInv /\ EvidenceInv /\ PublicationInv /\ AllOrNothing

LEMMA LifecycleInitInv == LifecycleInit => LifecycleInv
<1>1. SUFFICES ASSUME LifecycleInit PROVE LifecycleInv
  OBVIOUS
<1>2. TypeOK /\ EvidenceInv /\ PublicationInv /\ AllOrNothing
  BY <1>1, InitGood, InitPublication DEF LifecycleInit
<1>3. BuildInv
  BY <1>1, <1>2 DEF LifecycleInit, BuildInv, LifecycleTypeOK, TypeOK
<1>4. QED
  BY <1>2, <1>3 DEF LifecycleInv

LEMMA LifecycleStepInv ==
  ASSUME Sequential, LifecycleInv, [LifecycleNext]_allVars
  PROVE  LifecycleInv' /\ catalog' \cap dropped = {}
<1>1. [Next]_vars
  BY LifecycleStepsAudit DEF LifecycleInv, BuildInv
<1>2. /\ TypeOK' /\ EvidenceInv' /\ PublicationInv' /\ AllOrNothing'
      /\ Tombstoned \subseteq Tombstoned'
  BY <1>1, NextGood, NextPublication, TombstonedGrows
     DEF LifecycleInv, BuildInv, LifecycleTypeOK
<1>3. BuildInv' /\ catalog' \cap dropped = {}
  <2> USE DEF LifecycleInv, BuildInv, LifecycleTypeOK
  <2>1. CASE NewSnapshot
    BY <1>2, <2>1 DEF NewSnapshot, vars, files
  <2>2. CASE LoadFilters
    BY <1>2, <2>2 DEF LoadFilters, vars, files, Tombstoned
  <2>3. CASE BuildCatalog
    BY <1>2, <2>3 DEF BuildCatalog, vars, files
  <2>4. CASE PublishCatalog
    BY <1>2, <2>4 DEF PublishCatalog
  <2>5. CASE AbandonBuild
    BY <1>2, <2>5 DEF AbandonBuild, vars, files
  <2>6. CASE \E r \in Runs : RunStep(r) /\ UNCHANGED builderVars
    <3>1. UNCHANGED catalog
      BY <2>6 DEF RunStep, Start, LoadReport, LoadTombstones, Audit,
         MergeTombstones, Prepare, Abort, SwapReport, CheckContext,
         SwapTombstones, RestoreReport, Cancel, Kill
    <3>2. QED
      BY <1>2, <2>6, <3>1 DEF builderVars
  <2>7. CASE UNCHANGED allVars
    BY <1>2, <2>7 DEF allVars, vars, builderVars
  <2>8. QED
    BY <2>1, <2>2, <2>3, <2>4, <2>5, <2>6, <2>7 DEF LifecycleNext
<1>4. QED
  BY <1>2, <1>3 DEF LifecycleInv

\* One run and one build at a time: a build's filter is never out of date in
\* the direction that matters, and what it publishes holds no dropped link.
THEOREM BuildsAreFiltered ==
  ASSUME Sequential PROVE LifecycleSpec => []BuildInv
<1>1. LifecycleInit => LifecycleInv
  BY LifecycleInitInv
<1>2. LifecycleInv /\ [LifecycleNext]_allVars => LifecycleInv'
  BY LifecycleStepInv
<1>3. LifecycleInv => BuildInv
  BY DEF LifecycleInv
<1>4. QED
  BY <1>1, <1>2, <1>3, PTL DEF LifecycleSpec

\* One run and one build at a time: a link a published catalogue left out as
\* dead never comes back, whatever the exports bring.
THEOREM DeadLinksStayGone ==
  ASSUME Sequential PROVE LifecycleSpec => NoResurrection
<1>1. LifecycleInit => LifecycleInv
  BY LifecycleInitInv
<1>2. LifecycleInv /\ [LifecycleNext]_allVars =>
        LifecycleInv' /\ [catalog' \cap dropped = {}]_allVars
  BY LifecycleStepInv
<1>3. QED
  BY <1>1, <1>2, PTL DEF LifecycleSpec, NoResurrection

===============================================================================
