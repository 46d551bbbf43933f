------------------------------ MODULE Enrichment ------------------------------
(***************************************************************************)
(* courses-link-enrich, one run at a time: the cache file is loaded, what  *)
(* is missing or stale is fetched by a pool of workers                     *)
(* (internal/courses/link_enrichment_client.go), what they found is put    *)
(* into a copy of the cache, and the copy takes the place of the file.     *)
(***************************************************************************)
EXTENDS Integers, FiniteSets, Sequences

CONSTANTS
    Links,          \* the hashes of links, numbers so that they have an order
    Ruled,          \* those on a host that a rule of the policy matches
    Bodies,         \* what a server may answer with
    Contents,       \* what may be decoded from a body
    Publishable,    \* the contents that validateCachedLinkContent accepts
    Concurrency, StaleAfter,
    MaxEntries,     \* with more the cache is not loaded
    MaxTime,        \* bound of the model: the clock stops there
    NoEntry, Nothing

(* A body is known by the markers of the rule that occur in it, in their order in
   the body: which marker it is, and what follows it.                         *)
Occurrence == [marker: Nat, found: Contents \cup {"no object", "broken object"}]

ASSUME EnrichmentAssumption ==
    /\ Links \subseteq Nat /\ IsFiniteSet(Links)
    /\ Ruled \subseteq Links
    /\ Bodies \subseteq Seq(Occurrence)
    /\ Publishable \subseteq Contents /\ Nothing \notin Contents
    /\ Concurrency \in Nat \ {0} /\ StaleAfter \in Nat /\ MaxEntries \in Nat
    /\ {"no object", "broken object"} \cap Contents = {}

Workers == 1..Concurrency

VARIABLES
    file,           \* the cache file
    clock,
    step,           \* where the run is
    previous, candidates, refresh, now, \* what the run began with
    jobs,           \* the channel of links to fetch; it is closed, and taken in order
    worker,
    results,        \* the channel of outcomes
    next,           \* the cache to be published
    cancelled

loaded == <<previous, candidates, refresh, now>>
vars == <<file, clock, step, loaded, jobs, worker, results, next, cancelled>>

(* `of` and `body` are history: the link asked and the body answered with.    *)
Entry == [state: {"extracted", "not_found"}, content: Contents \cup {Nothing}, checked: Nat,
          of: Links, body: Bodies]
Cache == [Links -> Entry \cup {NoEntry}]

ASSUME NoEntryAssumption == NoEntry \notin Entry

Outcome == [link: Links, state: {"extracted", "not_found", "failed"},
            content: Contents \cup {Nothing}, body: Bodies \cup {Nothing}]

-----------------------------------------------------------------------------
(* Does occurrence i come before j when the markers are tried in turn, each
   from the beginning of the body?                                            *)
TriedBefore(body, i, j) ==
    \/ body[i].marker < body[j].marker
    \/ body[i].marker = body[j].marker /\ i <= j

(* Mutant: what is found but does not decode counts as nothing found.         *)
M_Extract(body) ==
    LET decodable == {i \in DOMAIN body : body[i].found \in Contents}
    IN  IF decodable # {}
        THEN LET i == CHOOSE i \in decodable : \A j \in decodable : TriedBefore(body, i, j)
             IN  [state |-> "extracted", content |-> body[i].found]
        ELSE [state |-> "not_found", content |-> Nothing]

(* The first object that decodes; an error if there was one that did not.     *)
Extract(body) ==
    LET decodable == {i \in DOMAIN body : body[i].found \in Contents}
    IN  IF decodable # {}
        THEN LET i == CHOOSE i \in decodable : \A j \in decodable : TriedBefore(body, i, j)
             IN  [state |-> "extracted", content |-> body[i].found]
        ELSE IF \E i \in DOMAIN body : body[i].found = "broken object"
        THEN [state |-> "failed", content |-> Nothing]
        ELSE [state |-> "not_found", content |-> Nothing]

Failed(link) == [link |-> link, state |-> "failed", content |-> Nothing, body |-> Nothing]

Fit(content) == content \in Publishable

(* A body that was read whole, under a status that is a success.              *)
OutcomeOf(link, body) ==
    LET found == Extract(body)
    IN  IF found.state = "not_found" \/ (found.state = "extracted" /\ Fit(found.content))
        THEN [link |-> link, state |-> found.state, content |-> found.content, body |-> body]
        ELSE Failed(link)

CandidatesOf(links) == links \cap Ruled

IsFresh(entry, time) ==
    entry # NoEntry /\ StaleAfter > 0 /\ time < entry.checked + StaleAfter

Pending(cache, links, all, time) == {l \in links : all \/ ~IsFresh(cache[l], time)}

Loads(cache) == Cardinality({l \in Links : cache[l] # NoEntry}) <= MaxEntries

EntryOf(outcome, time) ==
    [state |-> outcome.state, content |-> outcome.content, checked |-> time,
     of |-> outcome.link, body |-> outcome.body]

(* Mutant: a cache of the outcomes of this run only.                          *)
M_NextCache(cache, outcomes, time) ==
    [l \in Links |->
        IF \E o \in outcomes : o.link = l /\ o.state # "failed"
        THEN EntryOf(CHOOSE o \in outcomes : o.link = l /\ o.state # "failed", time)
        ELSE NoEntry]

(* The copy of the previous cache with the outcomes put into it.              *)
NextCache(cache, outcomes, time) ==
    [l \in Links |->
        IF \E o \in outcomes : o.link = l /\ o.state # "failed"
        THEN EntryOf(CHOOSE o \in outcomes : o.link = l /\ o.state # "failed", time)
        ELSE cache[l]]

(* Mutant: room for one outcome of each worker.                               *)
M_Capacity == Concurrency

(* The channel of outcomes has room for one of each link.                     *)
Capacity == Cardinality(Pending(previous, candidates, refresh, now))

-----------------------------------------------------------------------------
Empty == [l \in Links |-> NoEntry]
Off == [at |-> "done", link |-> Nothing]

Init ==
    /\ file = Empty /\ clock = 0 /\ step = "idle"
    /\ previous = Empty /\ candidates = {} /\ refresh = FALSE /\ now = 0
    /\ jobs = {} /\ worker = [w \in Workers |-> Off] /\ results = {}
    /\ next = Empty /\ cancelled = FALSE

(* The process ends, and all of it but the file is gone.                      *)
End ==
    /\ UNCHANGED clock /\ step' = "idle"
    /\ previous' = Empty /\ candidates' = {} /\ refresh' = FALSE /\ now' = 0
    /\ jobs' = {} /\ worker' = [w \in Workers |-> Off] /\ results' = {}
    /\ next' = Empty /\ cancelled' = FALSE

(* The inputs are loaded and the links to fetch are put into the closed channel
   of jobs; a cache that does not load ends the run at once.                  *)
Start ==
    /\ step = "idle" /\ Loads(file)
    /\ step' = "fetch"
    /\ previous' = file /\ now' = clock
    /\ \E links \in SUBSET Links : candidates' = CandidatesOf(links)
    /\ refresh' \in BOOLEAN
    /\ jobs' = Pending(previous', candidates', refresh', now')
    /\ worker' = [w \in Workers |->
                     IF w <= Cardinality(jobs') THEN [at |-> "ready", link |-> Nothing] ELSE Off]
    /\ UNCHANGED <<file, clock, results, next, cancelled>>

Goto(w, at, link) == worker' = [worker EXCEPT ![w] = [at |-> at, link |-> link]]

Take(w) ==
    /\ step = "fetch" /\ worker[w].at = "ready"
    /\ \E link \in jobs :
         /\ \A other \in jobs : link <= other
         /\ jobs' = jobs \ {link}
         /\ Goto(w, "taken", link)
    /\ UNCHANGED <<file, clock, step, loaded, results, next, cancelled>>

(* The context is looked at before each fetch, and the link let go with it.   *)
Begin(w) ==
    /\ step = "fetch" /\ worker[w].at = "taken"
    /\ IF cancelled THEN Goto(w, "done", Nothing) ELSE Goto(w, "fetching", worker[w].link)
    /\ UNCHANGED <<file, clock, step, loaded, jobs, results, next, cancelled>>

Send(w, outcome) ==
    /\ Cardinality(results) < Capacity
    /\ results' = results \cup {outcome}
    /\ Goto(w, "ready", Nothing)
    /\ UNCHANGED <<file, clock, step, loaded, jobs, next, cancelled>>

Answer(w) ==
    /\ step = "fetch" /\ worker[w].at = "fetching"
    /\ \E body \in Bodies : Send(w, OutcomeOf(worker[w].link, body))

(* The request fails, has another status than a success, or a body too large.  *)
FailRequest(w) ==
    /\ step = "fetch" /\ worker[w].at = "fetching"
    /\ Send(w, Failed(worker[w].link))

Quit(w) ==
    /\ step = "fetch" /\ worker[w].at = "ready" /\ jobs = {}
    /\ Goto(w, "done", Nothing)
    /\ UNCHANGED <<file, clock, step, loaded, jobs, results, next, cancelled>>

AllDone == \A w \in Workers : worker[w].at = "done"

(* Mutant: what the workers of a cancelled run got is published.              *)
M_Apply ==
    /\ step = "fetch" /\ AllDone
    /\ next' = NextCache(previous, results, now)
    /\ step' = "publish"
    /\ cancelled' = FALSE
    /\ UNCHANGED <<file, clock, loaded, jobs, worker, results>>

Apply ==
    /\ step = "fetch" /\ AllDone /\ ~cancelled
    /\ next' = NextCache(previous, results, now)
    /\ step' = "publish"
    /\ UNCHANGED <<file, clock, loaded, jobs, worker, results, cancelled>>

(* The new cache is written beside the file and the context looked at for the
   last time.                                                                 *)
Prepare ==
    /\ step = "publish" /\ ~cancelled
    /\ step' = "rename"
    /\ UNCHANGED <<file, clock, loaded, jobs, worker, results, next, cancelled>>

Abort ==
    /\ cancelled
    /\ step = "fetch" => AllDone
    /\ step \in {"fetch", "publish"}
    /\ End /\ UNCHANGED file

(* Writing or renaming fails.                                                 *)
FailPublish ==
    /\ step \in {"publish", "rename"}
    /\ End /\ UNCHANGED file

Rename ==
    /\ step = "rename"
    /\ file' = next
    /\ End

(* SIGINT or SIGTERM.                                                         *)
Cancel ==
    /\ step # "idle" /\ ~cancelled
    /\ cancelled' = TRUE
    /\ UNCHANGED <<file, clock, step, loaded, jobs, worker, results, next>>

Kill == step # "idle" /\ End /\ UNCHANGED file

Tick ==
    /\ clock < MaxTime
    /\ clock' = clock + 1
    /\ UNCHANGED <<file, step, loaded, jobs, worker, results, next, cancelled>>

WorkerStep(w) == Take(w) \/ Begin(w) \/ Answer(w) \/ FailRequest(w) \/ Quit(w)
RunStep == Apply \/ Prepare \/ Abort \/ FailPublish \/ Rename

Next ==
    \/ Start \/ RunStep \/ (\E w \in Workers : WorkerStep(w))
    \/ Cancel \/ Kill \/ Tick

(* The goroutines run, and a request ends: it has the client's timeout.       *)
Fairness == WF_vars(RunStep) /\ \A w \in Workers : WF_vars(WorkerStep(w))

Spec == Init /\ [][Next]_vars /\ Fairness

-----------------------------------------------------------------------------
TypeOK ==
    /\ file \in Cache /\ previous \in Cache /\ next \in Cache
    /\ clock \in Nat /\ now \in Nat
    /\ step \in {"idle", "fetch", "publish", "rename"}
    /\ candidates \subseteq Ruled /\ jobs \subseteq candidates
    /\ refresh \in BOOLEAN /\ cancelled \in BOOLEAN
    /\ worker \in [Workers -> [at: {"ready", "taken", "fetching", "done"},
                               link: Links \cup {Nothing}]]
    /\ results \subseteq Outcome

(* The entry says of the link no more than the body that it rests on.         *)
TrueOf(link, entry) ==
    /\ entry.of = link
    /\ \/ /\ entry.state = "extracted" /\ entry.content \in Publishable
          /\ \E i \in DOMAIN entry.body : entry.body[i].found = entry.content
       \/ /\ entry.state = "not_found"
          /\ \A i \in DOMAIN entry.body : entry.body[i].found = "no object"

(* Every entry of the file is what a server answered for that very link, and it
   says no more than the body did: contents that are fit to publish and were in
   the body, or that there was nothing in it that looked like an object.  A link
   whose page only failed to decode is not set down as having none, which would
   keep it from being asked again (link_enrichment.go:283-320).               *)
OnlyAnswers == \A l \in Links : file[l] # NoEntry => TrueOf(l, file[l])

(* A cache that is about to be published is whole: exactly the candidates that
   are not fresh were fetched, each to one outcome, and the cache has what was
   found now where something was, and what it had before where not, so that a
   failure neither erases an entry nor makes it look fresh.  What a cancelled
   pool leaves behind is never published.                                     *)
PublishedWhole ==
    step \in {"publish", "rename"} =>
        /\ {o.link : o \in results} = Pending(previous, candidates, refresh, now)
        /\ \A o, p \in results : o.link = p.link => o = p
        /\ \A l \in Links :
             LET found == {o \in results : o.link = l /\ o.state # "failed"}
             IN  IF found = {} THEN next[l] = previous[l]
                 ELSE \E o \in found : next[l] = EntryOf(o, now)

(* A run, however it ends, forgets no link and puts no check back in time.    *)
NothingForgotten ==
    [][\A l \in Links : file[l] # NoEntry =>
          file'[l] # NoEntry /\ file'[l].checked >= file[l].checked]_vars

(* Every run ends: no worker waits for ever for room in a channel that is only
   emptied when all of them are done (link_enrichment_client.go:170-195).     *)
Ends == step # "idle" ~> step = "idle"
=============================================================================
