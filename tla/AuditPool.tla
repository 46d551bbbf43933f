------------------------------- MODULE AuditPool -------------------------------
(***************************************************************************)
(* AuditCatalogLinks: the caller's goroutine hands the candidates one by   *)
(* one over an unbuffered channel to a pool of workers; a worker asks for  *)
(* its candidate (HEAD, then perhaps GET, perhaps GET without a range, and *)
(* perhaps the body), classifies what it got and writes the result into    *)
(* the candidate's slot.  The context may be cancelled at any moment.      *)
(***************************************************************************)
EXTENDS Naturals

CONSTANTS
  Candidates,   \* how many links the catalogue has
  Workers,      \* the pool (policy.concurrency goroutines)
  Rule          \* the policy's rule for the host of each candidate

Indices == 1..Candidates

\* Which bodies the candidate's rule looks at; no rule looks at neither.
RuleKind == [dead_body : BOOLEAN, success_body : BOOLEAN]

ASSUME PoolAssumption ==
  /\ Candidates \in Nat
  /\ Workers # {}
  /\ Rule \in [Indices -> RuleKind]

VARIABLES
  producer,   \* where the caller's goroutine is
  next,       \* the candidate its loop is at
  worker,     \* Workers -> where the goroutine is
  job,        \* Workers -> the candidate it holds, 0 for none
  status,     \* Workers -> the kind of the last HTTP status it got
  slots,      \* report.Results, with how each came about
  firstErr,   \* has a worker met the cancellation
  cancelled,  \* has the context been cancelled
  outcome,    \* what AuditCatalogLinks returned
  late        \* history: candidates handed out after the cancellation

vars == <<producer, next, worker, job, status, slots, firstErr, cancelled,
          outcome, late>>

-----------------------------------------------------------------------------
(* Statuses: 2xx; 404 and 410; one the rule lists as dead; 405 and 501; 416; *)
(* and any other.  Bodies: matching a dead pattern; failing a mismatch or a  *)
(* required pattern; neither.                                                *)
Statuses == {"success", "gone", "rule_dead", "no_method", "no_range", "other"}
Bodies   == {"dead", "wrong", "fine"}

States == {"live", "expired", "content_mismatch", "inconclusive"}
\* `from` is history: the response the verdict was read off.
Verdict == [state : States, from : {"head", "get", "body", "failure"}]
Empty   == [state |-> "none", from |-> "none"]

NeedsBody(rule) == rule.dead_body \/ rule.success_body

M_TrustHead(st, rule) == st = "no_method" \/ (NeedsBody(rule) /\ st = "success")

\* A HEAD is only taken at its word when it neither condemns, nor is refused,
\* nor leaves a body to look at.
NeedsGet(st, rule) ==
  \/ st \in {"no_method", "gone", "rule_dead"}
  \/ NeedsBody(rule) /\ st = "success"

\* The body of the GET is read for dead patterns whatever the status, for the
\* others only under a 2xx.
ReadsBody(st, rule) == rule.dead_body \/ (st = "success" /\ rule.success_body)

\* LinkAuditPolicy.Classify, in its order: status, dead body, other body.
Classify(st, body) ==
  CASE st \in {"gone", "rule_dead"}          -> "expired"
    [] body = "dead"                         -> "expired"
    [] st = "success" /\ body = "wrong"      -> "content_mismatch"
    [] st = "success" /\ body = "fine"       -> "live"
    [] OTHER                                 -> "inconclusive"

\* Which bodies the rule can tell apart at all.
BodiesSeen(st, rule) ==
  {"fine"} \cup (IF rule.dead_body THEN {"dead"} ELSE {})
           \cup (IF rule.success_body /\ st = "success" THEN {"wrong"} ELSE {})

-----------------------------------------------------------------------------
Init ==
  /\ producer = "start"
  /\ next = 1
  /\ worker = [w \in Workers |-> "idle"]
  /\ job = [w \in Workers |-> 0]
  /\ status = [w \in Workers |-> "other"]
  /\ slots = [i \in Indices |-> Empty]
  /\ firstErr = FALSE
  /\ cancelled \in BOOLEAN
  /\ outcome = "none"
  /\ late = 0

\* The look at the context before any work.
Begin ==
  /\ producer = "start"
  /\ IF cancelled
     THEN producer' = "returned" /\ outcome' = "error"
     ELSE producer' = "loop" /\ UNCHANGED outcome
  /\ UNCHANGED <<next, worker, job, status, slots, firstErr, cancelled, late>>

\* The head of the loop: give up, offer the next candidate, or close the channel.
Loop ==
  /\ producer = "loop"
  /\ producer' = IF next > Candidates THEN "wait"
                 ELSE IF cancelled THEN "abandon"
                 ELSE "offer"
  /\ UNCHANGED <<next, worker, job, status, slots, firstErr, cancelled,
                 outcome, late>>

M_GiveUpWithTheWorkers(w) ==
  /\ producer = "offer"
  /\ worker[w] = "idle"
  /\ ~ firstErr
  /\ producer' = "loop"
  /\ next' = next + 1
  /\ job' = [job EXCEPT ![w] = next]
  /\ worker' = [worker EXCEPT ![w] = "head"]
  /\ late' = IF cancelled THEN late + 1 ELSE late
  /\ UNCHANGED <<status, slots, firstErr, cancelled, outcome>>

\* jobs <- index meets `range jobs`: the send does not look at the context.
Hand(w) ==
  /\ producer = "offer"
  /\ worker[w] = "idle"
  /\ producer' = "loop"
  /\ next' = next + 1
  /\ job' = [job EXCEPT ![w] = next]
  /\ worker' = [worker EXCEPT ![w] = "head"]
  /\ late' = IF cancelled THEN late + 1 ELSE late
  /\ UNCHANGED <<status, slots, firstErr, cancelled, outcome>>

\* The worker's candidate is settled: its slot is written, the worker is free.
Settle(w, state, from) ==
  /\ slots' = [slots EXCEPT ![job[w]] = [state |-> state, from |-> from]]
  /\ worker' = [worker EXCEPT ![w] = "idle"]
  /\ job' = [job EXCEPT ![w] = 0]

\* The answer to the HEAD.
AskHead(w) ==
  /\ worker[w] = "head"
  /\ \E st \in Statuses :
       /\ status' = [status EXCEPT ![w] = st]
       /\ \/ /\ NeedsGet(st, Rule[job[w]])
             /\ worker' = [worker EXCEPT ![w] = "get"]
             /\ UNCHANGED <<job, slots>>
          \/ /\ ~ NeedsGet(st, Rule[job[w]])
             /\ Settle(w, Classify(st, "fine"), "head")
  /\ UNCHANGED <<producer, next, firstErr, cancelled, outcome, late>>

\* The answer to a GET: a refused range is asked for once more without one.
Get(w) ==
  /\ worker[w] \in {"get", "get_whole"}
  /\ \E st \in Statuses :
       /\ status' = [status EXCEPT ![w] = st]
       /\ \/ /\ worker[w] = "get" /\ st = "no_range"
             /\ worker' = [worker EXCEPT ![w] = "get_whole"]
             /\ UNCHANGED <<job, slots>>
          \/ /\ worker[w] = "get_whole" \/ st # "no_range"
             /\ ReadsBody(st, Rule[job[w]])
             /\ worker' = [worker EXCEPT ![w] = "body"]
             /\ UNCHANGED <<job, slots>>
          \/ /\ worker[w] = "get_whole" \/ st # "no_range"
             /\ ~ ReadsBody(st, Rule[job[w]])
             /\ Settle(w, Classify(st, "fine"), "get")
  /\ UNCHANGED <<producer, next, firstErr, cancelled, outcome, late>>

Body(w) ==
  /\ worker[w] = "body"
  /\ \E body \in BodiesSeen(status[w], Rule[job[w]]) :
       Settle(w, Classify(status[w], body), "body")
  /\ UNCHANGED <<producer, next, status, firstErr, cancelled, outcome, late>>

M_FailTheAudit(w) ==
  /\ worker[w] \in {"head", "get", "get_whole", "body"}
  /\ firstErr' = TRUE
  /\ worker' = [worker EXCEPT ![w] = "idle"]
  /\ job' = [job EXCEPT ![w] = 0]
  /\ UNCHANGED <<producer, next, status, slots, cancelled, outcome, late>>

\* A request or the reading of a body fails.  That is a result like any other
\* (transient) - unless the context is cancelled and the error says so, which
\* leaves the slot empty, remembers the error and lets the worker go on.
FailRequest(w) ==
  /\ worker[w] \in {"head", "get", "get_whole", "body"}
  /\ \/ /\ Settle(w, "inconclusive", "failure")
        /\ UNCHANGED firstErr
     \/ /\ cancelled
        /\ firstErr' = TRUE
        /\ worker' = [worker EXCEPT ![w] = "idle"]
        /\ job' = [job EXCEPT ![w] = 0]
        /\ UNCHANGED slots
  /\ UNCHANGED <<producer, next, status, cancelled, outcome, late>>

\* The channel is closed: `range jobs` ends.
Quit(w) ==
  /\ worker[w] = "idle"
  /\ producer \in {"wait", "abandon"}
  /\ worker' = [worker EXCEPT ![w] = "stopped"]
  /\ UNCHANGED <<producer, next, job, status, slots, firstErr, cancelled,
                 outcome, late>>

\* wg.Wait() and the return.
Return ==
  /\ producer \in {"wait", "abandon"}
  /\ \A w \in Workers : worker[w] = "stopped"
  /\ producer' = "returned"
  /\ outcome' = IF producer = "wait" /\ ~ firstErr THEN "report" ELSE "error"
  /\ UNCHANGED <<next, worker, job, status, slots, firstErr, cancelled, late>>

\* SIGINT or SIGTERM.
Cancel ==
  /\ ~ cancelled
  /\ producer # "returned"
  /\ cancelled' = TRUE
  /\ UNCHANGED <<producer, next, worker, job, status, slots, firstErr,
                 outcome, late>>

WorkerStep(w) ==
  Hand(w) \/ AskHead(w) \/ Get(w) \/ Body(w) \/ FailRequest(w) \/ Quit(w)

Next == Begin \/ Loop \/ Return \/ Cancel \/ \E w \in Workers : WorkerStep(w)

\* Goroutines that can run do, and a request ends: http.Client.Timeout and the
\* cancelled context bound every one of them.  Nobody has to cancel.
Fairness ==
  /\ WF_vars(Begin) /\ WF_vars(Loop) /\ WF_vars(Return)
  /\ \A w \in Workers : WF_vars(WorkerStep(w))

Spec == Init /\ [][Next]_vars /\ Fairness

-----------------------------------------------------------------------------
(* Properties.                                                             *)

Asking == {"head", "get", "get_whole", "body"}

TypeOK ==
  /\ producer \in {"start", "loop", "offer", "wait", "abandon", "returned"}
  /\ next \in 1..(Candidates + 1)
  /\ worker \in [Workers -> Asking \cup {"idle", "stopped"}]
  /\ job \in [Workers -> 0..Candidates]
  /\ status \in [Workers -> Statuses]
  /\ slots \in [Indices -> Verdict \cup {Empty}]
  /\ firstErr \in BOOLEAN
  /\ cancelled \in BOOLEAN
  /\ outcome \in {"none", "report", "error"}
  /\ late \in Nat

\* A returned report has a verdict for every candidate: an interruption, a
\* worker that gave up or a race on the slots never leaves a zero result in it
\* (the slots of AuditCatalogLinks, firstErr and wg.Wait together).
Complete == outcome = "report" => \A i \in Indices : slots[i] # Empty

\* The invariant behind it: who has the candidates that were handed out.
PoolInv ==
  /\ \A w \in Workers : worker[w] \in Asking <=> job[w] # 0
  /\ \A w \in Workers : job[w] < next
  /\ \A v, w \in Workers : job[v] = job[w] /\ job[v] # 0 => v = w
  /\ \A w \in Workers : job[w] # 0 => slots[job[w]] = Empty
  /\ \A i \in Indices : i < next =>
       slots[i] # Empty \/ firstErr \/ \E w \in Workers : job[w] = i
  /\ \A i \in Indices : i >= next => slots[i] = Empty
  /\ firstErr => cancelled
  /\ producer = "abandon" => cancelled
  /\ producer = "start" => next = 1
  /\ producer = "offer" => next <= Candidates
  /\ producer = "wait" => next = Candidates + 1
  /\ outcome = "report" => next = Candidates + 1 /\ ~ firstErr
  /\ outcome # "none" <=> producer = "returned"
  /\ producer = "returned" => \A w \in Workers : job[w] = 0

\* No link is condemned on the word of a HEAD response or of a failure: an
\* expired or mismatching verdict was read off a GET (verifyDeadStatus of
\* requestLinkAuditObservation).
CondemnedByGet ==
  \A i \in Indices :
    slots[i].state \in {"expired", "content_mismatch"} =>
      slots[i].from \in {"get", "body"}

\* A cancelled audit hands out one more candidate at most: the one the producer
\* was already offering.
StopsSoon == late <= 1

\* The call returns, whatever the servers answer and whenever it is cancelled:
\* the producer is never left offering a candidate that no worker will take.
Terminates == <>(producer = "returned")

\* What the caller sees of it.
Once == INSTANCE AuditOnce WITH
  Verdicts  <- Verdict,
  Nothing   <- << >>,
  verdicts  <- IF outcome = "report" THEN slots ELSE << >>

OnceSpec == Once!Spec

=============================================================================
