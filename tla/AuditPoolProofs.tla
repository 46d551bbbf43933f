---------------------------- MODULE AuditPoolProofs ----------------------------
(***************************************************************************)
(* Proofs about AuditPool for any number of candidates, any pool and any   *)
(* rules: what the pool returns is complete, and AuditOnce is implemented. *)
(* Then about AuditClient, which its workers share.                        *)
(***************************************************************************)
EXTENDS AuditPool, AuditClient, TLAPS

\* The inductive invariant: PoolInv, what a cancelled producer may still do,
\* and where the verdicts come from.
LateInv ==
  /\ ~ cancelled => late = 0
  /\ late # 0 => producer # "offer"
  /\ late <= 1

PoolIInv == TypeOK /\ PoolInv /\ LateInv /\ CondemnedByGet

LEMMA EmptyIsNoVerdict == Empty \notin Verdict
  BY DEF Empty, Verdict, States

LEMMA ClassifyType ==
  ASSUME NEW st \in Statuses, NEW body \in Bodies
  PROVE  Classify(st, body) \in States
  BY DEF Classify, States, Statuses, Bodies

\* A HEAD that is taken at its word condemns nobody.
LEMMA HeadCondemnsNobody ==
  ASSUME NEW st \in Statuses, NEW rule \in RuleKind, ~ NeedsGet(st, rule)
  PROVE  Classify(st, "fine") \in {"live", "inconclusive"}
  BY DEF NeedsGet, Classify, Statuses

LEMMA InitPool == Init => PoolIInv
<1>1. SUFFICES ASSUME Init PROVE PoolIInv
  OBVIOUS
<1>2. TypeOK
  <2>1. 1 \in 1..(Candidates + 1) /\ 0 \in 0..Candidates
    BY PoolAssumption
  <2>2. QED
    BY <1>1, <2>1 DEF Init, TypeOK, Asking, Statuses
<1>3. PoolInv
  BY <1>1, PoolAssumption DEF Init, PoolInv, Asking, Indices
<1>4. LateInv /\ CondemnedByGet
  BY <1>1 DEF Init, LateInv, CondemnedByGet, Empty
<1>5. QED
  BY <1>2, <1>3, <1>4 DEF PoolIInv

\* Whatever settles a candidate: its worker was the only one to hold it, and
\* its slot gets a verdict that does not condemn without a GET.
LEMMA SettleStep ==
  ASSUME PoolIInv, NEW w \in Workers, worker[w] \in Asking,
         NEW state \in States, NEW from \in {"head", "get", "body", "failure"},
         state \in {"expired", "content_mismatch"} => from \in {"get", "body"},
         Settle(w, state, from), status' \in [Workers -> Statuses],
         UNCHANGED <<producer, next, firstErr, cancelled, outcome, late>>
  PROVE  PoolIInv'
<1> DEFINE verdict == [state |-> state, from |-> from]
           i == job[w]
<1>1. /\ i \in Indices /\ i < next /\ slots[i] = Empty
      /\ verdict \in Verdict /\ verdict # Empty
      /\ slots \in [Indices -> Verdict \cup {Empty}]
      /\ job \in [Workers -> 0..Candidates]
      /\ worker \in [Workers -> Asking \cup {"idle", "stopped"}]
      /\ next \in Nat /\ Candidates \in Nat
  BY EmptyIsNoVerdict, PoolAssumption
     DEF PoolIInv, TypeOK, PoolInv, Indices, Verdict
<1>2. /\ slots' = [slots EXCEPT ![i] = verdict]
      /\ worker' = [worker EXCEPT ![w] = "idle"]
      /\ job' = [job EXCEPT ![w] = 0]
  BY DEF Settle
<1> HIDE DEF verdict, i
<1>3. TypeOK'
  BY <1>1, <1>2 DEF PoolIInv, TypeOK
<1>4. PoolInv'
  <2>1. \A v \in Workers : v # w => job'[v] = job[v] /\ worker'[v] = worker[v]
    BY <1>1, <1>2
  <2>2. job'[w] = 0 /\ worker'[w] = "idle"
    BY <1>1, <1>2
  <2>3. \A k \in Indices : slots'[k] = IF k = i THEN verdict ELSE slots[k]
    BY <1>1, <1>2
  <2>4. \A v \in Workers : v # w => job[v] # i
    BY <1>1 DEF PoolIInv, PoolInv, i, Indices
  <2>5. \A v \in Workers : job'[v] < next'
    BY <1>1, <2>1, <2>2 DEF PoolIInv, PoolInv
  <2>6. \A v \in Workers : job'[v] # 0 => slots'[job'[v]] = Empty
    BY <1>1, <2>1, <2>2, <2>3, <2>4 DEF PoolIInv, PoolInv, Indices
  <2>7. \A k \in Indices : k < next' =>
          slots'[k] # Empty \/ firstErr' \/ \E v \in Workers : job'[v] = k
    BY <1>1, <2>1, <2>3, <2>4 DEF PoolIInv, PoolInv, i
  <2>8. \A k \in Indices : k >= next' => slots'[k] = Empty
    BY <1>1, <2>3 DEF PoolIInv, PoolInv, Indices
  <2>9. \A v \in Workers : worker'[v] \in Asking <=> job'[v] # 0
    BY <2>1, <2>2 DEF PoolIInv, PoolInv, Asking
  <2>10. \A u, v \in Workers : job'[u] = job'[v] /\ job'[u] # 0 => u = v
    BY <2>1, <2>2 DEF PoolIInv, PoolInv
  <2>11. producer' = "returned" => \A v \in Workers : job'[v] = 0
    BY <2>1, <2>2 DEF PoolIInv, PoolInv
  <2>12. QED
    BY <2>5, <2>6, <2>7, <2>8, <2>9, <2>10, <2>11 DEF PoolIInv, PoolInv
<1>5. LateInv'
  BY DEF PoolIInv, LateInv
<1>6. CondemnedByGet'
  <2>1. \A k \in Indices : slots'[k] = IF k = i THEN verdict ELSE slots[k]
    BY <1>1, <1>2
  <2>2. verdict.state = state /\ verdict.from = from
    BY DEF verdict
  <2>3. QED
    BY <2>1, <2>2 DEF PoolIInv, CondemnedByGet
<1>7. QED
  BY <1>3, <1>4, <1>5, <1>6 DEF PoolIInv

\* A worker that asks again keeps its candidate.
LEMMA AskAgainStep ==
  ASSUME PoolIInv, NEW w \in Workers, worker[w] \in Asking,
         NEW label \in Asking, worker' = [worker EXCEPT ![w] = label],
         status' \in [Workers -> Statuses],
         UNCHANGED <<producer, next, job, slots, firstErr, cancelled, outcome,
                     late>>
  PROVE  PoolIInv'
<1>1. TypeOK'
  BY DEF PoolIInv, TypeOK
<1>2. PoolInv'
  <2>1. \A v \in Workers : worker'[v] \in Asking <=> worker[v] \in Asking
    BY DEF PoolIInv, TypeOK
  <2>2. QED
    BY <2>1 DEF PoolIInv, PoolInv
<1>3. LateInv' /\ CondemnedByGet'
  BY DEF PoolIInv, LateInv, CondemnedByGet
<1>4. QED
  BY <1>1, <1>2, <1>3 DEF PoolIInv

LEMMA ProducerStep ==
  ASSUME PoolIInv, Begin \/ Loop \/ Return \/ Cancel
  PROVE  PoolIInv'
<1> USE DEF PoolIInv
<1>1. next \in Nat /\ Candidates \in Nat /\ next <= Candidates + 1
      /\ \A w \in Workers : job[w] \in Nat
  BY PoolAssumption DEF TypeOK
<1>2. CASE Begin
  <2>1. TypeOK' /\ LateInv' /\ CondemnedByGet'
    BY <1>2 DEF Begin, TypeOK, LateInv, CondemnedByGet
  <2>2. PoolInv'
    BY <1>1, <1>2 DEF Begin, PoolInv
  <2>3. QED
    BY <2>1, <2>2
<1>3. CASE Loop
  <2>1. TypeOK' /\ LateInv' /\ CondemnedByGet'
    BY <1>3 DEF Loop, TypeOK, LateInv, CondemnedByGet
  <2>2. PoolInv'
    BY <1>1, <1>3 DEF Loop, PoolInv
  <2>3. QED
    BY <2>1, <2>2
<1>4. CASE Return
  <2>1. TypeOK' /\ LateInv' /\ CondemnedByGet'
    BY <1>4 DEF Return, TypeOK, LateInv, CondemnedByGet
  <2>2. \A w \in Workers : job[w] = 0
    BY <1>4 DEF Return, PoolInv, Asking
  <2>3. PoolInv'
    BY <1>1, <1>4, <2>2 DEF Return, PoolInv
  <2>4. QED
    BY <2>1, <2>3
<1>5. CASE Cancel
  <2>1. TypeOK' /\ CondemnedByGet' /\ PoolInv'
    BY <1>5 DEF Cancel, TypeOK, PoolInv, CondemnedByGet
  <2>2. LateInv'
    BY <1>5 DEF Cancel, LateInv
  <2>3. QED
    BY <2>1, <2>2
<1>6. QED
  BY <1>2, <1>3, <1>4, <1>5

LEMMA HandStep ==
  ASSUME PoolIInv, NEW w \in Workers, Hand(w)
  PROVE  PoolIInv'
<1> USE DEF PoolIInv
<1>1. /\ next \in Indices /\ next <= Candidates /\ Candidates \in Nat
      /\ job \in [Workers -> 0..Candidates]
      /\ worker \in [Workers -> Asking \cup {"idle", "stopped"}]
  BY PoolAssumption DEF TypeOK, PoolInv, Hand, Indices
<1>2. TypeOK'
  <2>1. late' \in Nat
    BY DEF Hand, TypeOK
  <2>2. next' \in 1..(Candidates + 1)
    BY <1>1 DEF Hand, Indices
  <2>3. job' \in [Workers -> 0..Candidates]
    BY <1>1 DEF Hand, Indices
  <2>4. QED
    BY <1>1, <2>1, <2>2, <2>3 DEF Hand, TypeOK, Asking
<1>3. PoolInv'
  <2>1. \A v \in Workers : v # w => job'[v] = job[v] /\ worker'[v] = worker[v]
    BY <1>1 DEF Hand
  <2>2. job'[w] = next /\ worker'[w] = "head" /\ next' = next + 1
    BY <1>1 DEF Hand
  <2>3. slots[next] = Empty /\ \A v \in Workers : job[v] < next
    BY <1>1 DEF PoolInv, Indices
  <2>4. \A v \in Workers : job'[v] < next'
    BY <1>1, <2>1, <2>2, <2>3 DEF Indices
  <2>5. \A v \in Workers : worker'[v] \in Asking <=> job'[v] # 0
    BY <1>1, <2>1, <2>2 DEF PoolInv, Asking, Indices
  <2>6. \A u, v \in Workers : job'[u] = job'[v] /\ job'[u] # 0 => u = v
    BY <1>1, <2>1, <2>2, <2>3 DEF PoolInv, Indices
  <2>7. \A v \in Workers : job'[v] # 0 => slots'[job'[v]] = Empty
    BY <2>1, <2>2, <2>3 DEF PoolInv, Hand
  <2>8. \A k \in Indices : k < next' =>
          slots'[k] # Empty \/ firstErr' \/ \E v \in Workers : job'[v] = k
    <3>1. SUFFICES ASSUME NEW k \in Indices, k < next'
                   PROVE  slots'[k] # Empty \/ firstErr' \/
                          \E v \in Workers : job'[v] = k
      OBVIOUS
    <3>2. CASE k = next
      BY <2>2, <3>2
    <3>3. CASE k # next
      <4>1. k < next
        BY <1>1, <2>2, <3>1, <3>3 DEF Indices
      <4>2. job[w] = 0 /\ k # 0
        BY DEF Hand, PoolInv, Asking, Indices
      <4>3. QED
        BY <2>1, <4>1, <4>2 DEF PoolInv, Hand
    <3>4. QED
      BY <3>2, <3>3
  <2>9. \A k \in Indices : k >= next' => slots'[k] = Empty
    BY <1>1, <2>2 DEF PoolInv, Hand, Indices
  <2>10. outcome = "none"
    BY DEF PoolInv, Hand, TypeOK
  <2>11. QED
    BY <2>4, <2>5, <2>6, <2>7, <2>8, <2>9, <2>10 DEF PoolInv, Hand
<1>4. LateInv'
  BY DEF Hand, LateInv, TypeOK
<1>5. CondemnedByGet'
  BY DEF Hand, CondemnedByGet
<1>6. QED
  BY <1>2, <1>3, <1>4, <1>5

LEMMA WorkerStepInv ==
  ASSUME PoolIInv, NEW w \in Workers, WorkerStep(w)
  PROVE  PoolIInv'
<1>1. status \in [Workers -> Statuses] /\ job[w] \in 0..Candidates
  BY DEF PoolIInv, TypeOK
<1>2. worker[w] \in Asking => Rule[job[w]] \in RuleKind
  BY <1>1, PoolAssumption DEF PoolIInv, PoolInv, Indices
<1>3. CASE Hand(w)
  BY <1>3, HandStep
<1>4. CASE AskHead(w)
  <2>1. PICK st \in Statuses :
          /\ status' = [status EXCEPT ![w] = st]
          /\ \/ /\ NeedsGet(st, Rule[job[w]])
                /\ worker' = [worker EXCEPT ![w] = "get"]
                /\ UNCHANGED <<job, slots>>
             \/ /\ ~ NeedsGet(st, Rule[job[w]])
                /\ Settle(w, Classify(st, "fine"), "head")
    BY <1>4 DEF AskHead
  <2>2. worker[w] \in Asking /\ status' \in [Workers -> Statuses]
    BY <1>1, <1>4, <2>1 DEF AskHead, Asking
  <2>3. CASE ~ NeedsGet(st, Rule[job[w]])
    <3>1. Settle(w, Classify(st, "fine"), "head")
      BY <2>1, <2>3
    <3>2. Classify(st, "fine") \in {"live", "inconclusive"}
      BY <1>2, <2>2, <2>3, HeadCondemnsNobody
    <3>3. QED
      BY <1>4, <2>2, <3>1, <3>2, SettleStep DEF AskHead, States
  <2>4. CASE NeedsGet(st, Rule[job[w]])
    BY <1>4, <2>1, <2>2, <2>4, AskAgainStep DEF AskHead, Asking
  <2>5. QED
    BY <2>3, <2>4
<1>5. CASE Get(w)
  <2>1. PICK st \in Statuses :
          /\ status' = [status EXCEPT ![w] = st]
          /\ \/ /\ \/ worker' = [worker EXCEPT ![w] = "get_whole"]
                   \/ worker' = [worker EXCEPT ![w] = "body"]
                /\ UNCHANGED <<job, slots>>
             \/ Settle(w, Classify(st, "fine"), "get")
    BY <1>5 DEF Get
  <2>2. worker[w] \in Asking /\ status' \in [Workers -> Statuses]
    BY <1>1, <1>5, <2>1 DEF Get, Asking
  <2>3. CASE Settle(w, Classify(st, "fine"), "get")
    <3>1. Classify(st, "fine") \in States
      BY ClassifyType DEF Bodies
    <3>2. QED
      BY <1>5, <2>2, <2>3, <3>1, SettleStep DEF Get
  <2>4. CASE ~ Settle(w, Classify(st, "fine"), "get")
    BY <1>5, <2>1, <2>2, <2>4, AskAgainStep DEF Get, Asking
  <2>5. QED
    BY <2>3, <2>4
<1>6. CASE Body(w)
  <2>1. PICK body \in Bodies : Settle(w, Classify(status[w], body), "body")
    BY <1>6 DEF Body, BodiesSeen, Bodies
  <2>2. Classify(status[w], body) \in States /\ worker[w] \in Asking
    BY <1>1, <1>6, ClassifyType DEF Body, Asking
  <2>3. QED
    BY <1>1, <1>6, <2>1, <2>2, SettleStep DEF Body
<1>7. CASE FailRequest(w)
  <2>1. worker[w] \in Asking
    BY <1>7 DEF FailRequest, Asking
  <2>2. CASE Settle(w, "inconclusive", "failure") /\ UNCHANGED firstErr
    BY <1>1, <1>7, <2>1, <2>2, SettleStep DEF FailRequest, States
  <2>3. CASE /\ cancelled /\ firstErr' = TRUE
             /\ worker' = [worker EXCEPT ![w] = "idle"]
             /\ job' = [job EXCEPT ![w] = 0]
             /\ UNCHANGED slots
    <3>1. /\ job \in [Workers -> 0..Candidates]
          /\ worker \in [Workers -> Asking \cup {"idle", "stopped"}]
          /\ next \in 1..(Candidates + 1) /\ Candidates \in Nat
      BY PoolAssumption DEF PoolIInv, TypeOK
    <3>2. TypeOK' /\ LateInv' /\ CondemnedByGet'
      BY <1>7, <2>3, <3>1
         DEF FailRequest, PoolIInv, TypeOK, LateInv, CondemnedByGet
    <3>3. outcome # "report"
      BY <2>1 DEF PoolIInv, PoolInv
    <3>4. PoolInv'
      BY <1>7, <2>1, <2>3, <3>1, <3>3 DEF FailRequest, PoolIInv, PoolInv, Asking
    <3>5. QED
      BY <3>2, <3>4 DEF PoolIInv
  <2>4. QED
    BY <1>7, <2>2, <2>3 DEF FailRequest
<1>8. CASE Quit(w)
  BY <1>8 DEF Quit, PoolIInv, TypeOK, PoolInv, LateInv, CondemnedByGet, Asking
<1>9. QED
  BY <1>3, <1>4, <1>5, <1>6, <1>7, <1>8 DEF WorkerStep

LEMMA NextPool == PoolIInv /\ [Next]_vars => PoolIInv'
<1>1. SUFFICES ASSUME PoolIInv, [Next]_vars PROVE PoolIInv'
  OBVIOUS
<1>2. CASE Begin \/ Loop \/ Return \/ Cancel
  BY <1>1, <1>2, ProducerStep
<1>3. CASE \E w \in Workers : WorkerStep(w)
  BY <1>1, <1>3, WorkerStepInv
<1>4. CASE UNCHANGED vars
  BY <1>1, <1>4 DEF vars, PoolIInv, TypeOK, PoolInv, LateInv, CondemnedByGet
<1>5. QED
  BY <1>1, <1>2, <1>3, <1>4 DEF Next

LEMMA PoolCorrect == Spec => []PoolIInv
  BY InitPool, NextPool, PTL DEF Spec

\* Who has which candidate, at every moment, for any pool.
THEOREM HandedOutOnce == Spec => [](TypeOK /\ PoolInv)
<1>1. PoolIInv => TypeOK /\ PoolInv
  BY DEF PoolIInv
<1>2. QED
  BY <1>1, PoolCorrect, PTL

LEMMA ReportedIsComplete == PoolIInv => Complete
<1>1. SUFFICES ASSUME PoolIInv, outcome = "report", NEW i \in Indices
               PROVE  slots[i] # Empty
  BY DEF Complete
<1>2. next = Candidates + 1 /\ ~ firstErr /\ producer = "returned"
  BY <1>1 DEF PoolIInv, PoolInv
<1>3. i < next /\ i # 0
  BY <1>2, PoolAssumption DEF Indices
<1>4. ~ \E w \in Workers : job[w] = i
  BY <1>1, <1>2, <1>3 DEF PoolIInv, PoolInv
<1>5. QED
  BY <1>1, <1>2, <1>3, <1>4 DEF PoolIInv, PoolInv

\* A returned report has a verdict for every candidate.
THEOREM ReportsAreComplete == Spec => []Complete
  BY PoolCorrect, ReportedIsComplete, PTL

\* No link is condemned on the word of a HEAD response or of a failure.
THEOREM CondemnedOnlyByGet == Spec => []CondemnedByGet
<1>1. PoolIInv => CondemnedByGet
  BY DEF PoolIInv
<1>2. QED
  BY <1>1, PoolCorrect, PTL

\* A cancelled audit hands out one more candidate at most.
THEOREM CancelledStopsSoon == Spec => []StopsSoon
<1>1. PoolIInv => StopsSoon
  BY DEF PoolIInv, LateInv, StopsSoon
<1>2. QED
  BY <1>1, PoolCorrect, PTL

LEMMA ReportedAfter == PoolIInv' => Complete'
  BY ReportedIsComplete, PTL

\* The caller sees one atomic audit: a complete report, or an error that only
\* an interruption causes.
THEOREM ImplementsOnce == Spec => OnceSpec
<1>1. Init => Once!Init
  BY DEF Init, Once!Init
<1>2. PoolIInv /\ PoolIInv' /\ [Next]_vars =>
        [Once!Next]_<<outcome, IF outcome = "report" THEN slots ELSE << >>,
                      cancelled>>
  <2>1. SUFFICES ASSUME PoolIInv, PoolIInv', [Next]_vars
                 PROVE  \/ Once!Next
                        \/ UNCHANGED <<outcome, IF outcome = "report" THEN slots
                                                ELSE << >>, cancelled>>
    OBVIOUS
  <2> DEFINE view == IF outcome = "report" THEN slots ELSE << >>
  <2>2. CASE Begin
    BY <2>1, <2>2 DEF Begin, Once!Next, Once!Fail, PoolIInv, PoolInv
  <2>3. CASE Return
    <3>1. outcome = "none"
      BY <2>1, <2>3 DEF Return, PoolIInv, PoolInv, TypeOK
    <3>2. CASE producer = "wait" /\ ~ firstErr
      <4>1. outcome' = "report" /\ slots' = slots /\ cancelled' = cancelled
        BY <2>3, <3>2 DEF Return
      <4>2. \A i \in Indices : slots'[i] # Empty
        BY <2>1, <4>1, <3>1, <2>3, ReportedAfter DEF Complete
      <4>3. slots' \in [Indices -> Verdict]
        BY <2>1, <4>2 DEF PoolIInv, TypeOK
      <4>4. QED
        BY <3>1, <4>1, <4>3 DEF Once!Next, Once!Report
    <3>3. CASE ~ (producer = "wait" /\ ~ firstErr)
      <4>1. outcome' = "error" /\ cancelled' = cancelled
        BY <2>3, <3>3 DEF Return
      <4>2. cancelled
        BY <2>1, <2>3, <3>3 DEF Return, PoolIInv, PoolInv
      <4>3. QED
        BY <3>1, <4>1, <4>2 DEF Once!Next, Once!Fail
    <3>4. QED
      BY <3>2, <3>3
  <2>4. CASE Cancel
    BY <2>4 DEF Cancel, Once!Next, Once!Interrupt
  <2>5. CASE Loop
    BY <2>5 DEF Loop
  <2>6. CASE \E w \in Workers : WorkerStep(w)
    <3>1. PICK w \in Workers : WorkerStep(w)
      BY <2>6
    <3>2. UNCHANGED <<outcome, cancelled>>
      BY <3>1 DEF WorkerStep, Hand, AskHead, Get, Body, FailRequest, Quit
    <3>3. CASE outcome = "report"
      <4>1. worker[w] \notin Asking /\ producer = "returned"
        BY <2>1, <3>3 DEF PoolIInv, PoolInv
      <4>2. UNCHANGED slots
        BY <3>1, <4>1
           DEF WorkerStep, Hand, AskHead, Get, Body, FailRequest, Quit, Asking
      <4>3. QED
        BY <3>2, <4>2
    <3>4. CASE outcome # "report"
      BY <3>2, <3>4
    <3>5. QED
      BY <3>3, <3>4
  <2>7. CASE UNCHANGED vars
    BY <2>7 DEF vars
  <2>8. QED
    BY <2>1, <2>2, <2>3, <2>4, <2>5, <2>6, <2>7 DEF Next
<1>3. QED
  BY <1>1, <1>2, PoolCorrect, PTL DEF Spec, OnceSpec, Once!Spec

-----------------------------------------------------------------------------
(* The client: any number of callers, whatever the resolver and the servers *)
(* answer and however many redirects are allowed.                           *)

\* A worker that is past its lookup has an address to dial, and every redirect it
\* followed was one that the rule of the link's own host allows.
Underway(w) ==
  /\ at[w] \in {"connect", "dial", "wait", "answered"} => via[w] # << >>
  /\ at[w] = "dial" => names[w] # << >>
  /\ at[w] = "wait" => conn[w] # None
  /\ via[w] # << >> => Host(w) \in {via[w][1]} \cup Allowed[via[w][1]]

ClientInv == ClientTypeOK /\ ConnectionsArePublic /\ \A w \in Callers : Underway(w)

-----------------------------------------------------------------------------
LEMMA AcceptedAnswers ==
  ASSUME NEW answer \in Seq(Addresses), Accepts(answer)
  PROVE  answer # << >> /\ answer[1] \in Public /\ ToAll(answer) \subseteq Public
<1>1. Len(answer) # 0
  BY DEF Accepts
<1>2. 1 \in DOMAIN answer
  BY <1>1
<1>3. QED
  BY <1>2 DEF Accepts, ToAll

LEMMA AppendedHost ==
  ASSUME NEW s \in Seq(Hosts), s # << >>, NEW h \in Hosts
  PROVE  /\ Append(s, h) \in Seq(Hosts) /\ Append(s, h) # << >>
         /\ Append(s, h)[1] = s[1] /\ Append(s, h)[Len(Append(s, h))] = h
  OBVIOUS

LEMMA CurrentHost ==
  ASSUME ClientTypeOK, NEW w \in Callers, via[w] # << >>
  PROVE  Host(w) \in Hosts /\ via[w][1] \in Hosts
<1>1. via[w] \in Seq(Hosts)
  BY DEF ClientTypeOK
<1>2. Len(via[w]) # 0
  BY <1>1
<1>3. QED
  BY <1>1, <1>2 DEF Host

\* A connection that stays open is kept under its host.
LEMMA KeptOpen ==
  ASSUME NEW f \in [Hosts -> SUBSET Addresses], \A x \in Hosts : f[x] \subseteq Public,
         NEW h \in Hosts, NEW a \in Public
  PROVE  /\ [f EXCEPT ![h] = f[h] \cup {a}] \in [Hosts -> SUBSET Addresses]
         /\ \A x \in Hosts : [f EXCEPT ![h] = f[h] \cup {a}][x] \subseteq Public
<1>1. f[h] \cup {a} \subseteq Public /\ f[h] \cup {a} \in SUBSET Addresses
  BY ClientAssumption
<1>2. QED
  BY <1>1

LEMMA ClientInvInit == ClientInit => ClientInv
<1>1. SUFFICES ASSUME ClientInit PROVE ClientInv
  OBVIOUS
<1>2. << >> \in Seq(Hosts) /\ << >> \in Seq(Addresses) /\ ToAll(<< >>) = {}
  BY DEF ToAll
<1>3. ClientTypeOK
  BY <1>1, <1>2 DEF ClientInit, ClientTypeOK
<1>4. ConnectionsArePublic
  BY <1>1, <1>2 DEF ClientInit, ConnectionsArePublic
<1>5. QED
  BY <1>1, <1>3, <1>4 DEF ClientInit, ClientInv, Underway

LEMMA ClientInvNext == ClientInv /\ [ClientNext]_clientVars => ClientInv'
<1> SUFFICES ASSUME ClientInv, [ClientNext]_clientVars PROVE ClientInv'
  OBVIOUS
<1> USE ClientAssumption DEF ClientInv
<1>1. ASSUME NEW w \in Callers, NEW h \in Hosts, Do(w, h) PROVE ClientInv'
  <2>1. << h >> \in Seq(Hosts) /\ << >> \in Seq(Addresses) /\ ToAll(<< >>) = {} /\ << h >> # << >>
    BY DEF ToAll
  <2>2. ClientTypeOK'
    BY <1>1, <2>1 DEF Do, ClientTypeOK
  <2>3. ConnectionsArePublic'
    BY <1>1, <2>1 DEF Do, ClientTypeOK, ConnectionsArePublic
  <2>4. ASSUME NEW v \in Callers PROVE Underway(v)'
    BY <1>1, <2>1 DEF Do, ClientTypeOK, Underway, Host
  <2>5. QED
    BY <2>2, <2>3, <2>4
<1>2. ASSUME NEW w \in Callers, Reuse(w) PROVE ClientInv'
  <2>1. Host(w) \in Hosts
    BY <1>2, CurrentHost DEF Reuse, Underway
  <2>2. ClientTypeOK'
    BY <1>2, <2>1 DEF Reuse, ClientTypeOK
  <2>3. ConnectionsArePublic'
    BY <1>2, <2>1 DEF Reuse, ClientTypeOK, ConnectionsArePublic
  <2>4. ASSUME NEW v \in Callers PROVE Underway(v)'
    BY <1>2, <2>1 DEF Reuse, ClientTypeOK, Underway, Host
  <2>5. QED
    BY <2>2, <2>3, <2>4
<1>3. ASSUME NEW w \in Callers, at[w] \in {"connect", "dial", "wait"}, Fail(w) PROVE ClientInv'
  <2>1. ClientTypeOK'
    BY <1>3 DEF Fail, ClientTypeOK
  <2>2. ConnectionsArePublic'
    BY <1>3 DEF Fail, ClientTypeOK, ConnectionsArePublic
  <2>3. ASSUME NEW v \in Callers PROVE Underway(v)'
    BY <1>3 DEF Fail, ClientTypeOK, Underway, Host
  <2>4. QED
    BY <2>1, <2>2, <2>3
<1>4. ASSUME NEW w \in Callers, NEW answer \in Seq(Addresses), LookUp(w, answer) PROVE ClientInv'
  <2>1. CASE ~ Accepts(answer)
    BY <1>3, <1>4, <2>1 DEF LookUp
  <2>2. CASE Accepts(answer)
    <3>1. answer # << >> /\ ToAll(answer) \subseteq Public
      BY <2>2, AcceptedAnswers
    <3>2. ClientTypeOK'
      BY <1>4, <2>2 DEF LookUp, ClientTypeOK
    <3>3. ConnectionsArePublic'
      BY <1>4, <2>2, <3>1 DEF LookUp, ClientTypeOK, ConnectionsArePublic
    <3>4. ASSUME NEW v \in Callers PROVE Underway(v)'
      BY <1>4, <2>2, <3>1 DEF LookUp, ClientTypeOK, Underway, Host
    <3>5. QED
      BY <3>2, <3>3, <3>4
  <2>3. QED
    BY <2>1, <2>2
<1>5. ASSUME NEW w \in Callers, Dial(w) PROVE ClientInv'
  <2>1. names[w][1] \in Public
    <3>1. names[w] \in Seq(Addresses) /\ names[w] # << >>
      BY <1>5 DEF Dial, ClientTypeOK, Underway
    <3>2. 1 \in DOMAIN names[w]
      BY <3>1
    <3>3. QED
      BY <3>2 DEF ConnectionsArePublic, ToAll
  <2>2. names[w][1] # None
    BY <2>1
  <2>3. ClientTypeOK'
    BY <1>5, <2>1 DEF Dial, ClientTypeOK
  <2>4. ConnectionsArePublic'
    BY <1>5, <2>1 DEF Dial, ClientTypeOK, ConnectionsArePublic
  <2>5. ASSUME NEW v \in Callers PROVE Underway(v)'
    BY <1>5, <2>2 DEF Dial, ClientTypeOK, Underway, Host
  <2>6. QED
    BY <2>3, <2>4, <2>5
<1>6. ASSUME NEW w \in Callers, at[w] = "wait", Free(w), UNCHANGED names
      PROVE  /\ ConnectionsArePublic' /\ names' \in [Callers -> Seq(Addresses)]
             /\ conn' \in [Callers -> Addresses \cup {None}] /\ kept' \in [Hosts -> SUBSET Addresses]
             /\ \A v \in Callers : v # w => conn'[v] = conn[v]
  <2>1. Host(w) \in Hosts
    BY <1>6, CurrentHost DEF Underway
  <2>2. conn[w] \in Public
    BY <1>6 DEF Underway, ConnectionsArePublic
  <2>3. conn' = [conn EXCEPT ![w] = None]
    BY <1>6 DEF Free
  <2>4. kept' \in [Hosts -> SUBSET Addresses] /\ \A h \in Hosts : kept'[h] \subseteq Public
    <3>1. kept \in [Hosts -> SUBSET Addresses] /\ \A h \in Hosts : kept[h] \subseteq Public
      BY DEF ClientTypeOK, ConnectionsArePublic
    <3>2. CASE kept' = kept
      BY <3>1, <3>2
    <3>3. CASE kept' = [kept EXCEPT ![Host(w)] = kept[Host(w)] \cup {conn[w]}]
      BY <2>1, <2>2, <3>1, <3>3, KeptOpen
    <3>4. QED
      BY <1>6, <3>2, <3>3 DEF Free
  <2>5. QED
    BY <1>6, <2>3, <2>4 DEF ClientTypeOK, ConnectionsArePublic
<1>7. ASSUME NEW w \in Callers, Answer(w) PROVE ClientInv'
  <2>1. /\ ConnectionsArePublic' /\ names' \in [Callers -> Seq(Addresses)]
        /\ conn' \in [Callers -> Addresses \cup {None}] /\ kept' \in [Hosts -> SUBSET Addresses]
        /\ \A v \in Callers : v # w => conn'[v] = conn[v]
    BY <1>6, <1>7 DEF Answer
  <2>2. ClientTypeOK'
    BY <1>7, <2>1 DEF Answer, ClientTypeOK
  <2>3. ASSUME NEW v \in Callers PROVE Underway(v)'
    BY <1>7, <2>1 DEF Answer, ClientTypeOK, Underway, Host
  <2>4. QED
    BY <2>1, <2>2, <2>3
<1>8. ASSUME NEW w \in Callers, NEW h \in Hosts, NEW fit \in BOOLEAN, Redirect(w, h, fit)
      PROVE  ClientInv'
  <2>1. via[w] \in Seq(Hosts) /\ via[w] # << >>
    BY <1>8 DEF Redirect, ClientTypeOK, Underway
  <2>2. CASE ~ (fit /\ Follows(w, h))
    <3>1. /\ ConnectionsArePublic' /\ names' \in [Callers -> Seq(Addresses)]
          /\ conn' \in [Callers -> Addresses \cup {None}] /\ kept' \in [Hosts -> SUBSET Addresses]
          /\ \A v \in Callers : v # w => conn'[v] = conn[v]
      BY <1>6, <1>8, <2>2 DEF Redirect
    <3>2. ClientTypeOK'
      BY <1>8, <2>2, <3>1 DEF Redirect, ClientTypeOK
    <3>3. ASSUME NEW v \in Callers PROVE Underway(v)'
      BY <1>8, <2>2, <3>1 DEF Redirect, ClientTypeOK, Underway, Host
    <3>4. QED
      BY <3>1, <3>2, <3>3
  <2>3. CASE fit /\ Follows(w, h)
    <3>1. Host(w) \in Hosts /\ conn[w] \in Public
      BY <1>8, <2>1, CurrentHost DEF Redirect, Underway, ConnectionsArePublic
    <3>2. /\ Append(via[w], h) \in Seq(Hosts) /\ Append(via[w], h) # << >>
          /\ Append(via[w], h)[1] = via[w][1]
          /\ Append(via[w], h)[Len(Append(via[w], h))] = h
      BY <2>1, AppendedHost
    <3>3. << >> \in Seq(Addresses) /\ ToAll(<< >>) = {}
      BY DEF ToAll
    <3>4. /\ via' = [via EXCEPT ![w] = Append(via[w], h)]
          /\ at' = [at EXCEPT ![w] = "connect"]
          /\ names' = [names EXCEPT ![w] = << >>]
          /\ conn' = [conn EXCEPT ![w] = None]
      BY <1>8, <2>3 DEF Redirect, Free, ClientTypeOK
    <3>5. kept' = [kept EXCEPT ![Host(w)] = kept[Host(w)] \cup {conn[w]}] \/ kept' = kept
      BY <1>8, <3>1 DEF Redirect, Free, ClientTypeOK
    <3>6. /\ kept' \in [Hosts -> SUBSET Addresses]
          /\ \A x \in Hosts : kept'[x] \subseteq Public
      <4>1. kept \in [Hosts -> SUBSET Addresses] /\ \A x \in Hosts : kept[x] \subseteq Public
        BY DEF ClientTypeOK, ConnectionsArePublic
      <4>2. CASE kept' = kept
        BY <4>1, <4>2
      <4>3. CASE kept' = [kept EXCEPT ![Host(w)] = kept[Host(w)] \cup {conn[w]}]
        BY <3>1, <4>1, <4>3, KeptOpen
      <4>4. QED
        BY <3>5, <4>2, <4>3
    <3>7. ClientTypeOK'
      <4>1. at' \in [Callers -> {"idle", "connect", "dial", "wait", "answered", "failed"}]
        BY <3>4 DEF ClientTypeOK
      <4>2. via' \in [Callers -> Seq(Hosts)]
        BY <3>4, <3>2 DEF ClientTypeOK
      <4>3. names' \in [Callers -> Seq(Addresses)]
        BY <3>4, <3>3 DEF ClientTypeOK
      <4>4. conn' \in [Callers -> Addresses \cup {None}]
        BY <3>4 DEF ClientTypeOK
      <4>5. QED
        BY <4>1, <4>2, <4>3, <4>4, <3>6 DEF ClientTypeOK
    <3>8. ConnectionsArePublic'
      BY <3>4, <3>3, <3>6 DEF ClientTypeOK, ConnectionsArePublic
    <3>9. ASSUME NEW v \in Callers PROVE Underway(v)'
      <4>1. CASE v = w
        <5>1. via'[w] = Append(via[w], h) /\ at'[w] = "connect"
          BY <1>8, <2>3 DEF Redirect, ClientTypeOK
        <5>2. h \in {via[w][1]} \cup Allowed[via[w][1]]
          BY <2>3 DEF Follows
        <5>3. QED
          BY <4>1, <5>1, <5>2, <3>2 DEF Underway, Host
      <4>2. CASE v # w
        BY <1>8, <2>3, <4>2 DEF Redirect, Free, ClientTypeOK, Underway, Host
      <4>3. QED
        BY <4>1, <4>2
    <3>10. QED
      BY <3>7, <3>8, <3>9
  <2>4. QED
    BY <2>2, <2>3
<1>9. ASSUME NEW h \in Hosts, Close(h) PROVE ClientInv'
  <2>1. ClientTypeOK'
    BY <1>9 DEF Close, ClientTypeOK
  <2>2. ConnectionsArePublic'
    BY <1>9 DEF Close, ClientTypeOK, ConnectionsArePublic
  <2>3. ASSUME NEW v \in Callers PROVE Underway(v)'
    BY <1>9 DEF Close, Underway, Host
  <2>4. QED
    BY <2>1, <2>2, <2>3
<1>10. CASE UNCHANGED clientVars
  BY <1>10 DEF clientVars, ClientTypeOK, ConnectionsArePublic, Underway, Host
<1>11. \A h \in DOMAIN Literal : << Literal[h] >> \in Seq(Addresses)
  OBVIOUS
<1>12. QED
  BY <1>1, <1>2, <1>3, <1>4, <1>5, <1>7, <1>8, <1>9, <1>10, <1>11
     DEF ClientNext, GoOn, GiveUp

THEOREM ClientConsistent == ClientSpec => []ClientInv
  BY ClientInvInit, ClientInvNext, PTL DEF ClientSpec

-----------------------------------------------------------------------------
\* Every connection of the client, in use or kept open, leads to an address that
\* a lookup found public, for every resolver and every number of workers.
THEOREM OnlyPublicConnections == ClientSpec => []ConnectionsArePublic
<1>1. ClientInv => ConnectionsArePublic
  BY DEF ClientInv
<1>2. QED
  BY <1>1, ClientConsistent, PTL

\* A link is only ever judged by an answer of its own host or of one that the
\* rule of its host lets it redirect to, through any chain of redirects.
THEOREM OnlyTheLinksAnswers == ClientSpec => []AnswersAreTheLinks
<1>1. ClientInv => AnswersAreTheLinks
  BY DEF ClientInv, Underway, AnswersAreTheLinks
<1>2. QED
  BY <1>1, ClientConsistent, PTL
================================================================================
