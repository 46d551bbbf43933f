---------------------------- MODULE EnrichmentProofs ----------------------------
(***************************************************************************)
(* What a run of courses-link-enrich publishes, for any links, servers and *)
(* number of workers.                                                      *)
(***************************************************************************)
EXTENDS Enrichment, FiniteSetTheorems, WellFoundedInduction, TLAPS

-----------------------------------------------------------------------------
(* What a body gives.                                                      *)

\* A set of numbers has a least one.
LEMMA LeastExists ==
  ASSUME NEW S \in SUBSET Nat, S # {}
  PROVE  \E m \in S : \A n \in S : m <= n
<1> DEFINE R == OpToRel(<, Nat)
<1>1. \A m, n \in Nat : n < m => <<n, m>> \in R
  BY DEF OpToRel
<1>2. IsWellFoundedOn(R, Nat)
  BY NatLessThanWellFounded
<1> HIDE DEF R
<1>3. PICK m \in S : \A n \in S : ~(<<n, m>> \in R)
  BY <1>2, WFMin
<1>4. ASSUME NEW n \in S PROVE m <= n
  <2>1. m \in Nat /\ n \in Nat /\ ~(n < m)
    BY <1>1, <1>3
  <2>. QED
    BY <2>1
<1>. QED
  BY <1>4

LEMMA Occurrences ==
  ASSUME NEW body \in Bodies
  PROVE  /\ DOMAIN body \subseteq Nat
         /\ \A i \in DOMAIN body :
              /\ body[i].marker \in Nat
              /\ body[i].found \in Contents \cup {"no object", "broken object"}
<1>1. body \in Seq(Occurrence)
  BY EnrichmentAssumption
<1>2. DOMAIN body \subseteq Nat /\ \A i \in DOMAIN body : body[i] \in Occurrence
  BY <1>1
<1>. QED
  BY <1>2 DEF Occurrence

\* Of several occurrences one is tried before the others.
LEMMA FirstTried ==
  ASSUME NEW body \in Bodies, NEW D \in SUBSET (DOMAIN body), D # {}
  PROVE  \E i \in D : \A j \in D : TriedBefore(body, i, j)
<1>1. /\ DOMAIN body \subseteq Nat
      /\ \A i \in DOMAIN body : body[i].marker \in Nat
  BY Occurrences
<1> DEFINE Markers == {body[i].marker : i \in D}
<1>2. PICK m \in Markers : \A n \in Markers : m <= n
  <2>1. Markers \in SUBSET Nat /\ Markers # {}
    BY <1>1
  <2> HIDE DEF Markers
  <2>. QED
    BY <2>1, LeastExists
<1> DEFINE Front == {i \in D : body[i].marker = m}
<1>3. PICK i \in Front : \A j \in Front : i <= j
  <2>1. Front \in SUBSET Nat /\ Front # {}
    BY <1>1
  <2>. QED
    BY <2>1, LeastExists
<1>4. \A j \in D : m <= body[j].marker
  BY <1>2
<1>. QED
  BY <1>1, <1>2, <1>3, <1>4 DEF TriedBefore

\* What is extracted was in the body, and "not found" means no object at all.
LEMMA ExtractTells ==
  ASSUME NEW body \in Bodies
  PROVE  \/ /\ Extract(body).state = "extracted"
            /\ \E i \in DOMAIN body : body[i].found = Extract(body).content
            /\ Extract(body).content \in Contents
         \/ /\ Extract(body).state = "not_found"
            /\ Extract(body).content = Nothing
            /\ \A i \in DOMAIN body : body[i].found = "no object"
         \/ /\ Extract(body).state = "failed"
            /\ Extract(body).content = Nothing
<1> DEFINE D == {i \in DOMAIN body : body[i].found \in Contents}
<1>1. CASE D # {}
  <2> DEFINE first == CHOOSE i \in D : \A j \in D : TriedBefore(body, i, j)
  <2>1. first \in D
    BY <1>1, FirstTried
  <2>2. Extract(body) = [state |-> "extracted", content |-> body[first].found]
    BY <1>1 DEF Extract
  <2> HIDE DEF first
  <2>3. first \in DOMAIN body /\ body[first].found \in Contents
    BY <2>1
  <2>4. /\ Extract(body).state = "extracted"
        /\ Extract(body).content = body[first].found
    BY <2>2
  <2>. QED
    BY <2>3, <2>4
<1>2. CASE D = {} /\ \E i \in DOMAIN body : body[i].found = "broken object"
  <2>1. Extract(body) = [state |-> "failed", content |-> Nothing]
    BY <1>2 DEF Extract
  <2>. QED
    BY <2>1
<1>3. CASE D = {} /\ ~\E i \in DOMAIN body : body[i].found = "broken object"
  <2>1. Extract(body) = [state |-> "not_found", content |-> Nothing]
    BY <1>3 DEF Extract
  <2>2. ASSUME NEW i \in DOMAIN body PROVE body[i].found = "no object"
    BY <1>3, Occurrences
  <2>3. Extract(body).state = "not_found" /\ Extract(body).content = Nothing
    BY <2>1
  <2>. QED
    BY <2>2, <2>3
<1>. QED
  BY <1>1, <1>2, <1>3

\* An outcome that will be stored is a true entry of the link that was asked.
Honest(outcome) ==
    outcome.state # "failed" =>
        /\ \A time \in Nat : EntryOf(outcome, time) \in Entry
        /\ \A time \in Nat : TrueOf(outcome.link, EntryOf(outcome, time))

LEMMA FailedIsHonest ==
  ASSUME NEW link \in Links
  PROVE  Failed(link) \in Outcome /\ Failed(link).link = link /\ Honest(Failed(link))
BY DEF Failed, Outcome, Honest

LEMMA OutcomeIsHonest ==
  ASSUME NEW link \in Links, NEW body \in Bodies
  PROVE  /\ OutcomeOf(link, body) \in Outcome
         /\ OutcomeOf(link, body).link = link
         /\ Honest(OutcomeOf(link, body))
<1> DEFINE found == Extract(body)
           outcome == [link |-> link, state |-> found.state,
                       content |-> found.content, body |-> body]
<1>1. CASE OutcomeOf(link, body) = Failed(link)
  BY <1>1, FailedIsHonest
<1>2. CASE /\ OutcomeOf(link, body) = outcome
           /\ \/ found.state = "not_found"
              \/ found.state = "extracted" /\ Fit(found.content)
  <2>1. \/ /\ found.state = "extracted" /\ found.content \in Publishable
           /\ \E i \in DOMAIN body : body[i].found = found.content
        \/ /\ found.state = "not_found" /\ found.content = Nothing
           /\ \A i \in DOMAIN body : body[i].found = "no object"
    BY <1>2, ExtractTells DEF Fit
  <2>2. outcome \in Outcome
    BY <2>1, EnrichmentAssumption DEF Outcome
  <2>3. \A time \in Nat : EntryOf(outcome, time) \in Entry
    BY <2>1, EnrichmentAssumption DEF EntryOf, Entry
  <2>4. \A time \in Nat : TrueOf(link, EntryOf(outcome, time))
    BY <2>1 DEF EntryOf, TrueOf
  <2>5. outcome.link = link
    OBVIOUS
  <2>6. Honest(outcome)
    BY <2>3, <2>4, <2>5 DEF Honest
  <2> HIDE DEF outcome
  <2>. QED
    BY <1>2, <2>2, <2>5, <2>6
<1>. QED
  BY <1>1, <1>2 DEF OutcomeOf

-----------------------------------------------------------------------------
(* The invariant.  While links are fetched every one that is due is in one *)
(* place: in the channel, with one worker, or in one outcome; only a       *)
(* cancelled run loses some.                                               *)

Due == Pending(previous, candidates, refresh, now)

Held(w) == worker[w].at \in {"taken", "fetching"}

OnePlace ==
    /\ jobs \subseteq Due
    /\ \A w \in Workers : Held(w) => worker[w].link \in Due /\ worker[w].link \notin jobs
    /\ \A v, w \in Workers : Held(v) /\ Held(w) /\ worker[v].link = worker[w].link => v = w
    /\ \A o \in results : o.link \in Due /\ o.link \notin jobs
    /\ \A o \in results : \A w \in Workers : Held(w) => worker[w].link # o.link
    /\ \A o, p \in results : o.link = p.link => o = p

NoneLost ==
    /\ \A l \in Due :
         \/ l \in jobs
         \/ \E w \in Workers : Held(w) /\ worker[w].link = l
         \/ \E o \in results : o.link = l
    /\ jobs # {} => \E w \in Workers : worker[w].at # "done"

FetchInv ==
    /\ step = "idle" => results = {}
    /\ step = "fetch" => OnePlace /\ (cancelled \/ NoneLost)

EntriesInv ==
    /\ \A l \in Links : file[l] # NoEntry => TrueOf(l, file[l]) /\ file[l].checked <= clock
    /\ step # "idle" =>
         /\ previous = file /\ now <= clock
         /\ \A l \in Links : previous[l] # NoEntry => previous[l].checked <= now
    /\ \A o \in results : Honest(o)

PublishInv ==
    step \in {"publish", "rename"} =>
        /\ {o.link : o \in results} = Due
        /\ \A o, p \in results : o.link = p.link => o = p
        /\ next = NextCache(previous, results, now)

Inv == TypeOK /\ FetchInv /\ EntriesInv /\ PublishInv

LEMMA DueIsRuled == TypeOK => Due \subseteq candidates /\ Due \subseteq Links
BY EnrichmentAssumption DEF TypeOK, Due, Pending

LEMMA NextCacheTells ==
  ASSUME NEW cache \in Cache, NEW outcomes \in SUBSET Outcome, NEW time \in Nat,
         \A o \in outcomes : Honest(o)
  PROVE  /\ NextCache(cache, outcomes, time) \in Cache
         /\ \A l \in Links :
              LET found == {o \in outcomes : o.link = l /\ o.state # "failed"}
              IN  \/ /\ found = {}
                     /\ NextCache(cache, outcomes, time)[l] = cache[l]
                  \/ \E o \in found : NextCache(cache, outcomes, time)[l] = EntryOf(o, time)
<1> DEFINE entry(l) == NextCache(cache, outcomes, time)[l]
           found(l) == {o \in outcomes : o.link = l /\ o.state # "failed"}
<1>1. ASSUME NEW l \in Links, ~\E o \in outcomes : o.link = l /\ o.state # "failed"
      PROVE  found(l) = {} /\ entry(l) = cache[l]
  BY <1>1 DEF NextCache
<1>2. ASSUME NEW l \in Links, \E o \in outcomes : o.link = l /\ o.state # "failed"
      PROVE  \E o \in found(l) : entry(l) = EntryOf(o, time)
  BY <1>2 DEF NextCache
<1>3. ASSUME NEW l \in Links PROVE entry(l) \in Entry \cup {NoEntry}
  BY <1>1, <1>2 DEF Honest, Cache
<1>4. NextCache(cache, outcomes, time) \in Cache
  BY <1>3 DEF NextCache, Cache
<1>. QED
  BY <1>1, <1>2, <1>4

LEMMA InitInv == Init => Inv
<1> SUFFICES ASSUME Init PROVE Inv
  OBVIOUS
<1>1. TypeOK
  BY DEF Init, TypeOK, Empty, Off, Cache
<1>2. FetchInv /\ EntriesInv /\ PublishInv
  BY DEF Init, Empty, FetchInv, EntriesInv, PublishInv
<1>. QED
  BY <1>1, <1>2 DEF Inv

-----------------------------------------------------------------------------
(* Each action keeps it.                                                   *)

LEMMA EndStep ==
  ASSUME Inv, End, UNCHANGED file
  PROVE  Inv'
<1>1. TypeOK'
  BY DEF Inv, TypeOK, End, Empty, Off, Cache
<1>2. FetchInv' /\ EntriesInv' /\ PublishInv'
  BY DEF Inv, End, FetchInv, EntriesInv, PublishInv
<1>. QED
  BY <1>1, <1>2 DEF Inv

LEMMA RenameStep == Inv /\ Rename => Inv'
<1> SUFFICES ASSUME Inv, Rename PROVE Inv'
  OBVIOUS
<1>1. TypeOK'
  BY DEF Inv, Rename, TypeOK, End, Empty, Off, Cache
<1>2. ASSUME NEW l \in Links, next[l] # NoEntry
      PROVE  TrueOf(l, next[l]) /\ next[l].checked <= clock
  <2>1. /\ previous \in Cache /\ results \in SUBSET Outcome /\ now \in Nat /\ clock \in Nat
        /\ next = NextCache(previous, results, now)
        /\ \A o \in results : Honest(o)
        /\ previous = file /\ now <= clock
    BY DEF Inv, TypeOK, Rename, PublishInv, EntriesInv
  <2>2. CASE next[l] = previous[l]
    BY <1>2, <2>1, <2>2 DEF Inv, EntriesInv
  <2>3. ASSUME NEW o \in results, o.link = l, o.state # "failed",
               next[l] = EntryOf(o, now)
        PROVE  TrueOf(l, next[l]) /\ next[l].checked <= clock
    <3>1. EntryOf(o, now).checked = now
      BY DEF EntryOf
    <3>2. TrueOf(l, EntryOf(o, now))
      BY <2>1, <2>3 DEF Honest
    <3>. QED
      BY <2>1, <2>3, <3>1, <3>2
  <2> DEFINE found == {o \in results : o.link = l /\ o.state # "failed"}
  <2>4. NextCache(previous, results, now)[l] = previous[l]
        \/ \E o \in found : NextCache(previous, results, now)[l] = EntryOf(o, now)
    BY <2>1, NextCacheTells
  <2>. QED
    BY <2>1, <2>2, <2>3, <2>4
<1>3. file' = next /\ clock' = clock /\ step' = "idle" /\ results' = {}
  BY DEF Rename, End
<1>4. FetchInv' /\ EntriesInv' /\ PublishInv'
  BY <1>2, <1>3 DEF FetchInv, EntriesInv, PublishInv
<1>. QED
  BY <1>1, <1>4 DEF Inv

LEMMA StartStep == Inv /\ Start => Inv'
<1> SUFFICES ASSUME Inv, Start PROVE Inv'
  OBVIOUS
<1>1. PICK links \in SUBSET Links : candidates' = links \cap Ruled
  BY DEF Start, CandidatesOf
<1>2. jobs' = Due' /\ Due' \subseteq candidates'
  BY DEF Start, Due, Pending
<1>3. TypeOK'
  <2>1. worker' \in [Workers -> [at: {"ready", "taken", "fetching", "done"},
                                 link: Links \cup {Nothing}]]
    BY DEF Start, Off
  <2>. QED
    BY <1>1, <1>2, <2>1 DEF Inv, TypeOK, Start
<1>4. \A w \in Workers : ~Held(w)'
  BY DEF Start, Off, Held
<1>5. results' = {}
  BY DEF Inv, FetchInv, Start
<1>6. jobs' # {} => \E w \in Workers : worker'[w].at # "done"
  <2> SUFFICES ASSUME jobs' # {} PROVE worker'[1].at # "done" /\ 1 \in Workers
    OBVIOUS
  <2>1. jobs' \subseteq Links
    BY <1>3, EnrichmentAssumption DEF TypeOK
  <2>2. IsFiniteSet(jobs')
    BY <2>1, FS_Subset, EnrichmentAssumption
  <2>3. Cardinality(jobs') \in Nat /\ Cardinality(jobs') # 0
    BY <2>2, FS_CardinalityType, FS_EmptySet
  <2>4. 1 \in Workers
    <3>1. Concurrency \in Nat \ {0}
      BY EnrichmentAssumption
    <3>. QED
      BY <3>1 DEF Workers
  <2>5. worker'[1] = [at |-> "ready", link |-> Nothing]
    BY <2>3, <2>4 DEF Start
  <2>. QED
    BY <2>4, <2>5
<1>7. FetchInv'
  BY <1>2, <1>4, <1>5, <1>6 DEF FetchInv, OnePlace, NoneLost, Start
<1>8. EntriesInv'
  BY <1>5 DEF Inv, TypeOK, EntriesInv, Start
<1>9. PublishInv'
  BY DEF PublishInv, Start
<1>. QED
  BY <1>3, <1>7, <1>8, <1>9 DEF Inv

LEMMA TakeStep ==
  ASSUME Inv, NEW w \in Workers, Take(w)
  PROVE  Inv'
<1>1. PICK link \in jobs : jobs' = jobs \ {link} /\ Goto(w, "taken", link)
  BY DEF Take
<1>2. link \in Links
  BY EnrichmentAssumption DEF Inv, TypeOK
<1>3. TypeOK'
  BY <1>1, <1>2 DEF Inv, TypeOK, Take, Goto, loaded
<1>4. /\ worker'[w].at = "taken" /\ worker'[w].link = link
      /\ \A v \in Workers \ {w} : worker'[v] = worker[v]
      /\ worker[w].at = "ready" /\ step = "fetch" /\ step' = "fetch"
      /\ UNCHANGED <<Due, results, cancelled>>
  BY <1>1 DEF Inv, TypeOK, Take, Goto, loaded, Due
<1>5. OnePlace'
  BY <1>1, <1>4 DEF Inv, FetchInv, OnePlace, Held
<1>6. cancelled' \/ NoneLost'
  BY <1>1, <1>4 DEF Inv, FetchInv, NoneLost, Held
<1>7. EntriesInv' /\ PublishInv'
  BY <1>4 DEF Inv, Take, loaded, EntriesInv, PublishInv
<1>. QED
  BY <1>3, <1>4, <1>5, <1>6, <1>7 DEF Inv, FetchInv

LEMMA BeginStep ==
  ASSUME Inv, NEW w \in Workers, Begin(w)
  PROVE  Inv'
<1>1. TypeOK'
  BY DEF Inv, TypeOK, Begin, Goto, loaded
<1>2. /\ \A v \in Workers \ {w} : worker'[v] = worker[v]
      /\ worker[w].at = "taken" /\ step = "fetch" /\ step' = "fetch"
      /\ UNCHANGED <<Due, jobs, results, cancelled>>
      /\ \/ cancelled /\ worker'[w].at = "done"
         \/ worker'[w].at = "fetching" /\ worker'[w].link = worker[w].link
  BY DEF Inv, TypeOK, Begin, Goto, loaded, Due
<1>3. OnePlace'
  BY <1>2 DEF Inv, FetchInv, OnePlace, Held
<1>4. cancelled' \/ NoneLost'
  BY <1>2 DEF Inv, FetchInv, NoneLost, Held
<1>5. EntriesInv' /\ PublishInv'
  BY <1>2 DEF Inv, Begin, loaded, EntriesInv, PublishInv
<1>. QED
  BY <1>1, <1>2, <1>3, <1>4, <1>5 DEF Inv, FetchInv

\* The worker's link goes from the worker into the outcome.
LEMMA SendStep ==
  ASSUME Inv, NEW w \in Workers, step = "fetch", worker[w].at = "fetching",
         NEW outcome \in Outcome, outcome.link = worker[w].link, Honest(outcome),
         Send(w, outcome)
  PROVE  Inv'
<1>1. TypeOK'
  BY DEF Inv, TypeOK, Send, Goto, loaded
<1>2. /\ \A v \in Workers \ {w} : worker'[v] = worker[v]
      /\ worker'[w].at = "ready" /\ step' = "fetch"
      /\ results' = results \cup {outcome}
      /\ UNCHANGED <<Due, jobs, cancelled>>
  BY DEF Inv, TypeOK, Send, Goto, loaded, Due
<1>3. OnePlace'
  BY <1>2 DEF Inv, FetchInv, OnePlace, Held
<1>4. cancelled' \/ NoneLost'
  BY <1>2 DEF Inv, FetchInv, NoneLost, Held
<1>5. EntriesInv' /\ PublishInv'
  BY <1>2 DEF Inv, Send, loaded, EntriesInv, PublishInv
<1>. QED
  BY <1>1, <1>2, <1>3, <1>4, <1>5 DEF Inv, FetchInv

LEMMA HeldLink ==
  ASSUME Inv, NEW w \in Workers, step = "fetch", worker[w].at = "fetching"
  PROVE  worker[w].link \in Links
BY DueIsRuled DEF Inv, FetchInv, OnePlace, Held

LEMMA AnswerStep ==
  ASSUME Inv, NEW w \in Workers, Answer(w)
  PROVE  Inv'
<1>1. PICK body \in Bodies : Send(w, OutcomeOf(worker[w].link, body))
  BY DEF Answer
<1>2. step = "fetch" /\ worker[w].at = "fetching"
  BY DEF Answer
<1>3. worker[w].link \in Links
  BY <1>2, HeldLink
<1>. QED
  BY <1>1, <1>2, <1>3, OutcomeIsHonest, SendStep

LEMMA FailRequestStep ==
  ASSUME Inv, NEW w \in Workers, FailRequest(w)
  PROVE  Inv'
<1>1. step = "fetch" /\ worker[w].at = "fetching" /\ Send(w, Failed(worker[w].link))
  BY DEF FailRequest
<1>2. worker[w].link \in Links
  BY <1>1, HeldLink
<1>. QED
  BY <1>1, <1>2, FailedIsHonest, SendStep

LEMMA QuitStep ==
  ASSUME Inv, NEW w \in Workers, Quit(w)
  PROVE  Inv'
<1>1. TypeOK'
  BY DEF Inv, TypeOK, Quit, Goto, loaded
<1>2. /\ \A v \in Workers \ {w} : worker'[v] = worker[v]
      /\ worker[w].at = "ready" /\ worker'[w].at = "done"
      /\ step = "fetch" /\ step' = "fetch" /\ jobs = {}
      /\ UNCHANGED <<Due, jobs, results, cancelled>>
  BY DEF Inv, TypeOK, Quit, Goto, loaded, Due
<1>3. OnePlace'
  BY <1>2 DEF Inv, FetchInv, OnePlace, Held
<1>4. cancelled' \/ NoneLost'
  BY <1>2 DEF Inv, FetchInv, NoneLost, Held
<1>5. EntriesInv' /\ PublishInv'
  BY <1>2 DEF Inv, Quit, loaded, EntriesInv, PublishInv
<1>. QED
  BY <1>1, <1>2, <1>3, <1>4, <1>5 DEF Inv, FetchInv

\* With all workers done and no signal, every link that is due has an outcome.
LEMMA ApplyStep == Inv /\ Apply => Inv'
<1> SUFFICES ASSUME Inv, Apply PROVE Inv'
  OBVIOUS
<1>1. previous \in Cache /\ results \in SUBSET Outcome /\ now \in Nat
      /\ \A o \in results : Honest(o)
  BY DEF Inv, TypeOK, EntriesInv
<1>2. next' \in Cache
  BY <1>1, NextCacheTells DEF Apply
<1>3. TypeOK'
  BY <1>2 DEF Inv, TypeOK, Apply, loaded
<1>4. OnePlace /\ NoneLost /\ \A w \in Workers : worker[w].at = "done"
  BY DEF Inv, FetchInv, Apply, AllDone
<1>5. {o.link : o \in results} = Due
  BY <1>4 DEF OnePlace, NoneLost, Held
<1>6. \A o, p \in results : o.link = p.link => o = p
  BY <1>4 DEF OnePlace
<1>7. UNCHANGED <<Due, results, previous, now>> /\ next' = NextCache(previous, results, now)
  BY DEF Apply, loaded, Due
<1>8. FetchInv' /\ PublishInv'
  <2>1. step' = "publish"
    BY DEF Apply
  <2>. QED
    BY <1>5, <1>6, <1>7, <2>1 DEF FetchInv, PublishInv
<1>9. EntriesInv'
  BY DEF Inv, Apply, loaded, EntriesInv
<1>. QED
  BY <1>3, <1>8, <1>9 DEF Inv

LEMMA PrepareStep == Inv /\ Prepare => Inv'
<1> SUFFICES ASSUME Inv, Prepare PROVE Inv'
  OBVIOUS
<1>1. TypeOK' /\ EntriesInv' /\ FetchInv'
  BY DEF Inv, TypeOK, EntriesInv, FetchInv, Prepare, loaded
<1>2. UNCHANGED <<Due, results, previous, now, next>>
  BY DEF Prepare, loaded, Due
<1>3. PublishInv'
  BY <1>2 DEF Inv, PublishInv, Prepare
<1>. QED
  BY <1>1, <1>3 DEF Inv

LEMMA OutsideStep == Inv /\ (Cancel \/ Tick \/ UNCHANGED vars) => Inv'
<1> SUFFICES ASSUME Inv, Cancel \/ Tick \/ UNCHANGED vars PROVE Inv'
  OBVIOUS
<1>1. /\ UNCHANGED <<file, step, previous, candidates, refresh, now, jobs, worker, results, next>>
      /\ UNCHANGED Due
      /\ clock' \in Nat /\ clock <= clock'
      /\ cancelled' \in BOOLEAN /\ (cancelled => cancelled')
  <2>1. UNCHANGED <<file, step, previous, candidates, refresh, now, jobs, worker, results, next>>
    BY DEF Cancel, Tick, vars, loaded
  <2>2. UNCHANGED Due
    BY <2>1 DEF Due
  <2>3. clock \in Nat /\ cancelled \in BOOLEAN
    BY DEF Inv, TypeOK
  <2>4. clock' = clock \/ clock' = clock + 1
    BY DEF Cancel, Tick, vars
  <2>5. cancelled' = TRUE \/ cancelled' = cancelled
    BY DEF Cancel, Tick, vars
  <2>6. clock' \in Nat /\ clock <= clock'
    BY <2>3, <2>4
  <2>7. cancelled' \in BOOLEAN /\ (cancelled => cancelled')
    BY <2>3, <2>5
  <2>. QED
    BY <2>1, <2>2, <2>6, <2>7
<1>2. TypeOK'
  BY <1>1 DEF Inv, TypeOK
<1>3. UNCHANGED <<OnePlace, NoneLost>>
  BY <1>1 DEF OnePlace, NoneLost, Held
<1>4. FetchInv' /\ PublishInv'
  BY <1>1, <1>3 DEF Inv, FetchInv, PublishInv
<1>5. EntriesInv'
  <2>1. ASSUME NEW l \in Links, file[l] # NoEntry PROVE file[l].checked <= clock'
    <3>1. file[l].checked \in Nat /\ file[l].checked <= clock /\ clock \in Nat
      BY <2>1 DEF Inv, TypeOK, EntriesInv, Cache, Entry
    <3>. QED
      BY <1>1, <3>1
  <2>2. step # "idle" => now <= clock'
    BY <1>1 DEF Inv, TypeOK, EntriesInv
  <2>. QED
    BY <1>1, <2>1, <2>2 DEF Inv, EntriesInv
<1>. QED
  BY <1>2, <1>4, <1>5 DEF Inv

LEMMA InvStep == Inv /\ [Next]_vars => Inv'
<1> SUFFICES ASSUME Inv, [Next]_vars PROVE Inv'
  OBVIOUS
<1>1. CASE Start
  BY <1>1, StartStep
<1>2. CASE RunStep
  <2>1. CASE Abort \/ FailPublish
    BY <2>1, EndStep DEF Abort, FailPublish
  <2>. QED
    BY <1>2, <2>1, ApplyStep, PrepareStep, RenameStep DEF RunStep
<1>3. ASSUME NEW w \in Workers, WorkerStep(w) PROVE Inv'
  BY <1>3, TakeStep, BeginStep, AnswerStep, FailRequestStep, QuitStep DEF WorkerStep
<1>4. CASE Kill
  BY <1>4, EndStep DEF Kill
<1>5. CASE Cancel \/ Tick \/ UNCHANGED vars
  BY <1>5, OutsideStep
<1>. QED
  BY <1>1, <1>2, <1>3, <1>4, <1>5 DEF Next

-----------------------------------------------------------------------------
(* The results.                                                            *)

(* The type invariant, with all that the run relies on: each due link in one
   place, nothing lost but by a cancellation, times in order.                *)
THEOREM RunsConsistent == Spec => []Inv
BY InitInv, InvStep, PTL DEF Spec

(* Every entry of the cache file rests on an answer for its link and says no
   more than that (link_enrichment.go:275, link_enrichment_client.go:201).    *)
THEOREM FileOnlyAnswers == Spec => []OnlyAnswers
<1>1. Inv => OnlyAnswers
  BY DEF Inv, EntriesInv, OnlyAnswers
<1>. QED
  BY <1>1, RunsConsistent, PTL

(* What is about to be published has an outcome of each due link and keeps the
   entries of all others (link_enrichment_client.go:84-110).                 *)
THEOREM AlwaysPublishedWhole == Spec => []PublishedWhole
<1>1. Inv => PublishedWhole
  <2> SUFFICES ASSUME Inv, step \in {"publish", "rename"}
               PROVE  PublishedWhole
    BY DEF PublishedWhole
  <2>1. /\ previous \in Cache /\ results \in SUBSET Outcome /\ now \in Nat
        /\ \A o \in results : Honest(o)
        /\ {o.link : o \in results} = Due
        /\ \A o, p \in results : o.link = p.link => o = p
        /\ next = NextCache(previous, results, now)
    BY DEF Inv, TypeOK, EntriesInv, PublishInv
  <2>2. ASSUME NEW l \in Links
        PROVE  LET found == {o \in results : o.link = l /\ o.state # "failed"}
               IN  IF found = {} THEN next[l] = previous[l]
                   ELSE \E o \in found : next[l] = EntryOf(o, now)
    <3> DEFINE found == {o \in results : o.link = l /\ o.state # "failed"}
    <3>1. \/ found = {} /\ next[l] = previous[l]
          \/ \E o \in found : next[l] = EntryOf(o, now)
      BY <2>1, NextCacheTells
    <3>. QED
      BY <3>1
  <2>. QED
    BY <2>1, <2>2 DEF PublishedWhole, Due
<1>. QED
  BY <1>1, RunsConsistent, PTL

(* No run, however it ends, forgets a link or puts its check back in time.    *)
THEOREM NothingEverForgotten == Spec => NothingForgotten
<1>1. ASSUME Inv, [Next]_vars, NEW l \in Links, file[l] # NoEntry
      PROVE  file'[l] # NoEntry /\ file'[l].checked >= file[l].checked
  <2>1. file[l].checked \in Nat
    BY <1>1 DEF Inv, TypeOK, Cache, Entry
  <2>2. CASE UNCHANGED file
    BY <1>1, <2>1, <2>2
  <2>3. CASE Rename
    <3>1. /\ previous \in Cache /\ results \in SUBSET Outcome /\ now \in Nat
          /\ \A o \in results : Honest(o)
          /\ file' = NextCache(previous, results, now) /\ previous = file
          /\ file[l].checked <= now
      BY <1>1, <2>3 DEF Inv, TypeOK, EntriesInv, PublishInv, Rename
    <3>2. ASSUME NEW o \in results, o.link = l, o.state # "failed",
                 file'[l] = EntryOf(o, now)
          PROVE  file'[l] # NoEntry /\ file'[l].checked = now
      BY <3>1, <3>2, NoEntryAssumption DEF Honest, EntryOf
    <3> DEFINE found == {o \in results : o.link = l /\ o.state # "failed"}
    <3>3. NextCache(previous, results, now)[l] = previous[l]
          \/ \E o \in found : NextCache(previous, results, now)[l] = EntryOf(o, now)
      BY <3>1, NextCacheTells
    <3>4. CASE file'[l] = file[l]
      BY <1>1, <2>1, <3>4
    <3>. QED
      BY <2>1, <3>1, <3>2, <3>3, <3>4
  <2>4. UNCHANGED file \/ Rename
    BY <1>1 DEF Next, Start, RunStep, Apply, Prepare, Abort, FailPublish, Cancel, Kill,
                Tick, WorkerStep, Take, Begin, Answer, FailRequest, Send, Quit, vars
  <2>. QED
    BY <2>2, <2>3, <2>4
<1>2. Inv /\ [Next]_vars =>
        [\A l \in Links : file[l] # NoEntry =>
            file'[l] # NoEntry /\ file'[l].checked >= file[l].checked]_vars
  BY <1>1
<1>. QED
  BY <1>2, RunsConsistent, PTL DEF Spec, NothingForgotten

================================================================================
