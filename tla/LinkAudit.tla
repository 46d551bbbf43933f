------------------------------ MODULE LinkAudit ------------------------------
(***************************************************************************)
(* cmd/courses-link-audit: one run loads the catalogue, the previous audit *)
(* report and the tombstones, asks every link of the catalogue for its     *)
(* state, counts how many audits in a row saw a link dead, condemns the    *)
(* links whose count reached the policy's confirmations_required, and then *)
(* publishes two files, the report first and the tombstones second, each   *)
(* by a rename.  Nothing locks the files: runs may overlap, be interrupted *)
(* (SIGINT/SIGTERM cancel the context), fail at a rename or be killed.     *)
(*                                                                         *)
(* A missing file and a file without records load to the same value, so    *)
(* both are the empty map here.  A link stands for the SHA-256 of its      *)
(* canonical URL, which is what both files are keyed by.                   *)
(***************************************************************************)
EXTENDS Naturals, Sequences

CONSTANTS
  Links,                  \* canonical links (by hash)
  Runs,                   \* processes of the command line tool
  Answers,                \* what asking a link can yield, a subset of Answer
  ConfirmationsRequired,  \* policy.confirmations_required
  Catalogues,             \* link sets the catalogue file may hold
  MaxAudits               \* bound: audits in a row that list the same link

\* The six states of the code, with live, blocked and transient taken together
\* as "live": none of the three can be condemned and nothing else is told
\* apart.  "unknown" is kept because it is the state of an HTTP status the
\* classification has no case for.
LinkAuditState == {"live", "expired", "content_mismatch", "unknown"}
Status         == {"valid", "out_of_range"}
Answer         == [state : LinkAuditState, status : Status]

ASSUME AuditAssumption ==
  /\ Answers \subseteq Answer
  /\ ConfirmationsRequired \in Nat \ {0}
  /\ Catalogues \subseteq SUBSET Links
  /\ MaxAudits \in Nat

VARIABLES
  report,       \* the report file: Links -> result
  tombstones,   \* the tombstones file: Links -> record
  catalog,      \* the links of the published catalogue file
  pc,           \* Runs -> where the run is
  cancelled,    \* Runs -> has the run's context been cancelled
  candidates,   \* Runs -> links of the catalogue it loaded
  previous,     \* Runs -> report it loaded
  known,        \* Runs -> tombstones it loaded
  results,      \* Runs -> report it is about to publish
  merged,       \* Runs -> tombstones it is about to publish
  backup        \* Runs -> copy of the report file taken before publishing

files  == <<report, tombstones>>
locals == <<candidates, previous, known, results, merged, backup>>
vars   == <<files, catalog, pc, cancelled, locals>>

-----------------------------------------------------------------------------
(* Results and records.  `seen` is history the files do not hold: what each *)
(* audit in the report's lineage found, since the link last entered it.     *)

NoResult    == [state |-> "none", status |-> "valid", confirmations |-> 0,
                seen |-> << >>]
Result      == [state : LinkAuditState \cup {"none"}, status : Status,
                confirmations : Nat, seen : Seq(LinkAuditState)]
NoTombstone == [reason |-> "none", seen |-> << >>]
Tombstone   == [reason : {"none", "expired", "content_mismatch"},
                seen : Seq(LinkAuditState)]

EmptyReport     == [link \in Links |-> NoResult]
EmptyTombstones == [link \in Links |-> NoTombstone]

\* The operators named M_... are faulty versions of the definition they stand
\* before; nothing in the specification uses them (see the README, "Mutants").
Deletable(result) == result.state \in {"expired", "content_mismatch"}

M_MergeKeepsTheCount(last, answer) ==
  [ state |-> answer.state, status |-> answer.status,
    confirmations |-> IF Deletable(answer) THEN last.confirmations + 1
                      ELSE last.confirmations,
    seen |-> Append(last.seen, answer.state) ]

\* mergeAuditResult: an audit that cannot condemn resets the count, one that
\* can extends it only when the previous audit found the very same state.
MergeAuditResult(last, answer) ==
  [ state         |-> answer.state,
    status        |-> answer.status,
    confirmations |-> IF ~ Deletable(answer) THEN 0
                      ELSE IF last.state = answer.state
                           THEN last.confirmations + 1
                           ELSE 1,
    seen          |-> Append(last.seen, answer.state) ]

\* The report of an audit lists the candidates and nothing else: a link that
\* left the catalogue leaves the report, and its count with it.
AuditReport(links, last, answer) ==
  [ link \in Links |-> IF link \in links
                       THEN MergeAuditResult(last[link], answer[link])
                       ELSE NoResult ]

M_EligibleOneEarly(result) ==
  Deletable(result) /\ result.confirmations + 1 >= ConfirmationsRequired

EligibleForTombstone(result) ==
  /\ Deletable(result)
  /\ result.confirmations >= ConfirmationsRequired

M_MergeOnlyAtThreshold(records, audit) ==
  [ link \in Links |->
      IF /\ records[link] = NoTombstone
         /\ Deletable(audit[link])
         /\ audit[link].confirmations = ConfirmationsRequired
      THEN [reason |-> audit[link].state, seen |-> audit[link].seen]
      ELSE records[link] ]

\* MergeEligibleAuditResults: existing records are kept as they are.
MergeEligibleAuditResults(records, audit) ==
  [ link \in Links |->
      IF records[link] = NoTombstone /\ EligibleForTombstone(audit[link])
      THEN [reason |-> audit[link].state, seen |-> audit[link].seen]
      ELSE records[link] ]

\* LoadLinkAuditReport rejects a file with an http_status outside 100..599.
Loads(file) == \A link \in Links : file[link].status = "valid"

-----------------------------------------------------------------------------
Ended   == {"idle", "rejected", "failed", "torn", "killed", "done"}
Running == {"load_report", "load_tombstones", "audit", "merge", "prepare",
            "swap_report", "check", "swap_tombstones", "rollback"}

Init ==
  /\ report = EmptyReport
  /\ tombstones = EmptyTombstones
  /\ catalog \in Catalogues
  /\ pc         = [r \in Runs |-> "idle"]
  /\ cancelled  = [r \in Runs |-> FALSE]
  /\ candidates = [r \in Runs |-> {}]
  /\ previous   = [r \in Runs |-> EmptyReport]
  /\ known      = [r \in Runs |-> EmptyTombstones]
  /\ results    = [r \in Runs |-> EmptyReport]
  /\ merged     = [r \in Runs |-> EmptyTombstones]
  /\ backup     = [r \in Runs |-> EmptyReport]

Goto(r, label) == pc' = [pc EXCEPT ![r] = label]

\* A new process: loadCatalog, then the other inputs one after the other.
Start(r) ==
  /\ pc[r] \in Ended
  /\ Goto(r, "load_report")
  /\ cancelled'  = [cancelled EXCEPT ![r] = FALSE]
  /\ candidates' = [candidates EXCEPT ![r] = catalog]
  /\ previous'   = [previous EXCEPT ![r] = EmptyReport]
  /\ known'      = [known EXCEPT ![r] = EmptyTombstones]
  /\ results'    = [results EXCEPT ![r] = EmptyReport]
  /\ merged'     = [merged EXCEPT ![r] = EmptyTombstones]
  /\ backup'     = [backup EXCEPT ![r] = EmptyReport]
  /\ UNCHANGED <<files, catalog>>

\* loadOptionalReport; an unreadable report ends the run before any request.
LoadReport(r) ==
  /\ pc[r] = "load_report"
  /\ \/ /\ Loads(report)
        /\ previous' = [previous EXCEPT ![r] = report]
        /\ Goto(r, "load_tombstones")
     \/ /\ ~ Loads(report)
        /\ Goto(r, "rejected")
        /\ UNCHANGED previous
  /\ UNCHANGED <<files, catalog, cancelled, candidates, known, results,
                 merged, backup>>

LoadTombstones(r) ==
  /\ pc[r] = "load_tombstones"
  /\ known' = [known EXCEPT ![r] = tombstones]
  /\ Goto(r, "audit")
  /\ UNCHANGED <<files, catalog, cancelled, candidates, previous, results,
                 merged, backup>>

\* AuditCatalogLinks as its caller sees it (module AuditPool has its inside):
\* with a live context, one merged result per candidate.
Audit(r) ==
  /\ pc[r] = "audit"
  /\ ~ cancelled[r]
  /\ \A link \in candidates[r] : Len(previous[r][link].seen) < MaxAudits
  /\ \E answer \in [Links -> Answers] :
       results' = [results EXCEPT
                     ![r] = AuditReport(candidates[r], previous[r], answer)]
  /\ Goto(r, "merge")
  /\ UNCHANGED <<files, catalog, cancelled, candidates, previous, known,
                 merged, backup>>

MergeTombstones(r) ==
  /\ pc[r] = "merge"
  /\ ~ cancelled[r]
  /\ merged' = [merged EXCEPT
                  ![r] = MergeEligibleAuditResults(known[r], results[r])]
  /\ Goto(r, "prepare")
  /\ UNCHANGED <<files, catalog, cancelled, candidates, previous, known,
                 results, backup>>

M_PrepareInPlace(r) ==
  /\ pc[r] = "prepare"
  /\ ~ cancelled[r]
  /\ backup' = [backup EXCEPT ![r] = report]
  /\ tombstones' = merged[r]
  /\ Goto(r, "swap_report")
  /\ UNCHANGED <<report, catalog, cancelled, candidates, previous, known,
                 results, merged>>

\* Both outputs and a copy of the report as it is on disk NOW are written to
\* temporary files and synced; any of the three may fail (disk full).
Prepare(r) ==
  /\ pc[r] = "prepare"
  /\ ~ cancelled[r]
  /\ \/ /\ backup' = [backup EXCEPT ![r] = report]
        /\ Goto(r, "swap_report")
     \/ /\ Goto(r, "failed")
        /\ UNCHANGED backup
  /\ UNCHANGED <<files, catalog, cancelled, candidates, previous, known,
                 results, merged>>

\* The context is looked at before the audit, inside it, after it, before and
\* after the temporary files; a cancelled run stops there, nothing published.
Abort(r) ==
  /\ pc[r] \in {"audit", "merge", "prepare", "swap_report"}
  /\ cancelled[r]
  /\ Goto(r, "failed")
  /\ UNCHANGED <<files, catalog, cancelled, locals>>

\* rename(temporary report, report), which may fail.
SwapReport(r) ==
  /\ pc[r] = "swap_report"
  /\ ~ cancelled[r]
  /\ \/ /\ report' = results[r]
        /\ Goto(r, "check")
     \/ /\ Goto(r, "failed")
        /\ UNCHANGED report
  /\ UNCHANGED <<tombstones, catalog, cancelled, locals>>

M_CheckWithoutRollback(r) ==
  /\ pc[r] = "check"
  /\ Goto(r, IF cancelled[r] THEN "failed" ELSE "swap_tombstones")
  /\ UNCHANGED <<files, catalog, cancelled, locals>>

\* The last look at the context: from here on a signal no longer stops the run.
CheckContext(r) ==
  /\ pc[r] = "check"
  /\ Goto(r, IF cancelled[r] THEN "rollback" ELSE "swap_tombstones")
  /\ UNCHANGED <<files, catalog, cancelled, locals>>

\* rename(temporary tombstones, tombstones), which may fail.
SwapTombstones(r) ==
  /\ pc[r] = "swap_tombstones"
  /\ \/ /\ tombstones' = merged[r]
        /\ Goto(r, "done")
     \/ /\ Goto(r, "rollback")
        /\ UNCHANGED tombstones
  /\ UNCHANGED <<report, catalog, cancelled, locals>>

\* restoreAtomicTarget: put the copy back (or remove a report that did not
\* exist), which may fail in turn.
RestoreReport(r) ==
  /\ pc[r] = "rollback"
  /\ \/ /\ report' = backup[r]
        /\ Goto(r, "failed")
     \/ /\ Goto(r, "torn")
        /\ UNCHANGED report
  /\ UNCHANGED <<tombstones, catalog, cancelled, locals>>

\* SIGINT or SIGTERM.
Cancel(r) ==
  /\ pc[r] \in Running
  /\ ~ cancelled[r]
  /\ cancelled' = [cancelled EXCEPT ![r] = TRUE]
  /\ UNCHANGED <<files, catalog, pc, locals>>

\* SIGKILL, out of memory, power: between any two steps.
Kill(r) ==
  /\ pc[r] \in Running
  /\ Goto(r, "killed")
  /\ UNCHANGED <<files, catalog, cancelled, locals>>

\* courses-data publishes a catalogue (module LinkLifecycle says which).
Republish ==
  /\ catalog' \in Catalogues
  /\ UNCHANGED <<files, pc, cancelled, locals>>

RunStep(r) ==
  \/ Start(r) \/ LoadReport(r) \/ LoadTombstones(r) \/ Audit(r)
  \/ MergeTombstones(r) \/ Prepare(r) \/ Abort(r) \/ SwapReport(r)
  \/ CheckContext(r) \/ SwapTombstones(r) \/ RestoreReport(r)
  \/ Cancel(r) \/ Kill(r)

Next == Republish \/ \E r \in Runs : RunStep(r)

Spec == Init /\ [][Next]_vars

-----------------------------------------------------------------------------
(* Properties.                                                             *)

TypeOK ==
  /\ report \in [Links -> Result]
  /\ tombstones \in [Links -> Tombstone]
  /\ catalog \in SUBSET Links
  /\ pc \in [Runs -> Ended \cup Running]
  /\ cancelled \in [Runs -> BOOLEAN]
  /\ candidates \in [Runs -> SUBSET Links]
  /\ previous \in [Runs -> [Links -> Result]]
  /\ known \in [Runs -> [Links -> Tombstone]]
  /\ results \in [Runs -> [Links -> Result]]
  /\ merged \in [Runs -> [Links -> Tombstone]]
  /\ backup \in [Runs -> [Links -> Result]]

\* The counter of a result says exactly how many of the latest audits in a row
\* found the link in its present dead state: no audit that found it alive, or
\* dead in another way, or did not list it, is ever counted over.
Honest(result) ==
  LET n == Len(result.seen)
      k == result.confirmations
  IN  /\ result.state # "none" => n >= 1 /\ result.seen[n] = result.state
      /\ result.state = "none" => n = 0
      /\ Deletable(result) <=> k >= 1
      /\ k <= n
      /\ \A i \in (n - k + 1)..n : result.seen[i] = result.state
      /\ 1 <= k /\ k < n => result.seen[n - k] # result.state

\* A tombstone rests on ConfirmationsRequired audits in a row that all found
\* the link in the one dead state the tombstone names.
Proven(record) ==
  record # NoTombstone =>
    LET n == Len(record.seen)
    IN  /\ record.reason # "none"
        /\ n >= ConfirmationsRequired
        /\ \A i \in (n - ConfirmationsRequired + 1)..n :
             record.seen[i] = record.reason

HonestReport(file)     == \A link \in Links : Honest(file[link])
ProvenTombstones(file) == \A link \in Links : Proven(file[link])

\* Every count the report file can hold is honest, through any number of runs
\* that overlap, are interrupted, roll back or die between the two renames
\* (mergeAuditResult with what writeAtomicPair leaves behind).
CountsAreHonest == HonestReport(report)

\* No link is tombstoned on less than ConfirmationsRequired audits in a row,
\* even when runs overlap and overwrite each other's report
\* (MergeEligibleAuditResults with EligibleForTombstone).
TombstonesProven == ProvenTombstones(tombstones)

\* The invariant behind both: the same of every copy a run holds, because a
\* stale copy is what an overlapping run publishes or rolls back to.
EvidenceInv ==
  /\ HonestReport(report)
  /\ ProvenTombstones(tombstones)
  /\ \A r \in Runs :
       /\ HonestReport(previous[r])
       /\ HonestReport(results[r])
       /\ HonestReport(backup[r])
       /\ ProvenTombstones(known[r])
       /\ ProvenTombstones(merged[r])

\* What "one run at a time" means below.
Sequential == \A r, s \in Runs : r = s

\* One run at a time: a run that ends normally has published both files, one
\* that reports failure leaves both as it loaded them, and one that is killed or
\* cannot roll back leaves the tombstones alone and the report either old or new
\* (writeAtomicPairWithRename; a run that has no results yet wrote nothing).
AllOrNothing ==
  \A r \in Runs :
    /\ pc[r] = "done" => report = results[r] /\ tombstones = merged[r]
    /\ pc[r] = "failed" => report = previous[r] /\ tombstones = known[r]
    /\ pc[r] \in {"torn", "killed"} /\ results[r] # EmptyReport =>
         report \in {previous[r], results[r]} /\ tombstones = known[r]

\* The invariant behind it: what one run knows of the files while nobody else
\* touches them, from the step that reads each to the step that replaces it.
PublicationInv ==
  \A r \in Runs :
    /\ pc[r] \in {"load_tombstones", "audit", "merge", "prepare",
                 "swap_report"} => previous[r] = report
    /\ pc[r] \in {"audit", "merge", "prepare", "swap_report", "check",
                 "swap_tombstones", "rollback"} => known[r] = tombstones
    /\ pc[r] \in {"load_report", "load_tombstones", "audit", "idle",
                 "rejected"} => results[r] = EmptyReport
    /\ pc[r] \in {"prepare", "swap_report", "check", "swap_tombstones",
                 "rollback", "done"} =>
         merged[r] = MergeEligibleAuditResults(known[r], results[r])
    /\ pc[r] \in {"swap_report", "check", "swap_tombstones", "rollback"} =>
         backup[r] = previous[r]
    /\ pc[r] \in {"check", "swap_tombstones", "rollback"} =>
         report = results[r]

\* One run at a time: after a run that ended normally no link of the report is
\* due and untombstoned, whatever earlier runs left undone when they died
\* after the first rename.
NothingOverdue ==
  \A r \in Runs : pc[r] = "done" =>
    \A link \in Links :
      EligibleForTombstone(report[link]) => tombstones[link] # NoTombstone

\* One run at a time: no step takes a tombstone away or rewrites its reason
\* (the add-only merge of MergeEligibleAuditResults).
TombstonesOnlyGrow ==
  [][ \A link \in Links : tombstones[link] # NoTombstone =>
        tombstones'[link] = tombstones[link] ]_vars

\* What LoadLinkAuditReport asserts of a report file: every http_status lies
\* in 100..599, so that the next run can load what this one published.
ReportLoads == Loads(report)

\* One run at a time, the tool implements the ledger: the report is the
\* evidence, and tombstones appear only after the report that proves them.
Ledger == INSTANCE TombstoneLedger WITH
  States     <- LinkAuditState,
  DeadStates <- {"expired", "content_mismatch"},
  evidence   <- [link \in Links |-> report[link].seen],
  condemned  <- {link \in Links : tombstones[link] # NoTombstone}

LedgerSpec == Ledger!Spec

=============================================================================
