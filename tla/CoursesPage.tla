------------------------------ MODULE CoursesPage ------------------------------
(***************************************************************************)
(* static/js/courses.js: the page of the catalogue and its calls to the    *)
(* search worker.  One tab; every handler and every continuation of an     *)
(* await is one step, as JavaScript runs them.                             *)
(*                                                                         *)
(* The worker takes its messages in order and so do its answers come back, *)
(* so the calls under way are one sequence: answered ones first.  A call   *)
(* the page gave up on stays in it until the worker's answer is dropped.   *)
(*                                                                         *)
(* The unit of a list is a batch of SEARCH_BATCH entries; `wanted' is what *)
(* buildSearchRequest would send now: query, filters and order.            *)
(***************************************************************************)
EXTENDS Naturals, Sequences, FiniteSets

CONSTANTS
  Queries,  \* what may be searched for
  Copies,   \* contents of the catalogue
  Hits,     \* Copies -> Queries -> how many batches there are to show
  MaxCalls, \* bound: calls under way at the same time
  MaxFetches, \* bound: downloads under way at the same time
  None

ASSUME PageAssumption ==
  /\ Hits \in [Copies -> [Queries -> Nat]]
  /\ None \notin Copies
  /\ MaxCalls \in Nat /\ MaxFetches \in Nat

VARIABLES
  wanted,    \* state.query, state.filters, state.sort
  timer,     \* state.searchTimer is running
  ready,     \* state.ready (and state.cached, which is set with it)
  importing, \* the unlock form is at work: its dialog is open and locked
  fetching,  \* downloads that importCatalog awaits
  loading,   \* state.loadingSearch
  total,     \* state.total
  offset,    \* state.offset
  list,      \* the children of resultsList
  panel,     \* what resultsState says, with the action it offers
  calls,     \* WorkerRPC.pending and the two message queues
  runtime,   \* activeRuntime of the worker
  spoiled    \* history: a list may be out of date, see Spoils

shown == <<total, offset, list>>
page  == <<wanted, timer, ready, importing, fetching, loading, shown, panel>>
vars  == <<page, calls, runtime, spoiled>>

-----------------------------------------------------------------------------
(* Calls.                                                                  *)

Asked == "asked"  \* the answer of a call the worker has not got to

\* `current': the call was made under the present state.searchGeneration.
Call(type, query, at, reset, copy) ==
  [type |-> type, query |-> query, at |-> at, reset |-> reset, copy |-> copy,
   current |-> type = "search", waiting |-> TRUE, answer |-> Asked]

Other(type, copy) == Call(type, None, 0, FALSE, copy)

\* ++state.searchGeneration: the searches under way are out of date.
Supersede(s) == [i \in DOMAIN s |-> [s[i] EXCEPT !.current = FALSE]]

Room == Len(calls) < MaxCalls

\* runSearch(true), with the call added to those in s.
NewSearch(query, s) ==
  /\ calls' = Append(Supersede(s), Call("search", query, 0, TRUE, None))
  /\ loading' = TRUE
  /\ panel' = "searching"
  /\ spoiled' = FALSE
  /\ UNCHANGED shown

-----------------------------------------------------------------------------
(* What the user does.  While the unlock form is at work its dialog is     *)
(* modal and nothing else can be used, unless a late check reopens it.     *)

Init ==
  /\ wanted \in Queries
  /\ timer = FALSE
  /\ ready = FALSE
  /\ importing = FALSE /\ fetching = 0
  /\ loading = FALSE
  /\ total = 0 /\ offset = 0 /\ list = << >>
  /\ panel = "booting"
  /\ calls = << Other("boot", None) >>
  /\ runtime = None
  /\ spoiled = FALSE

\* The input handler: the search is put off until typing pauses.
Type(q) ==
  /\ ready /\ ~ importing
  /\ q # wanted
  /\ wanted' = q
  /\ timer' = TRUE
  /\ UNCHANGED <<ready, importing, fetching, loading, shown, panel, calls, runtime, spoiled>>

\* A filter or an order: searched at once.
Choose(q) ==
  /\ ready /\ ~ importing /\ Room
  /\ q # wanted
  /\ wanted' = q
  /\ NewSearch(q, calls)
  /\ UNCHANGED <<timer, ready, importing, fetching, runtime>>

\* The button of a failed search.
Retry ==
  /\ panel = "stopped"
  /\ ready /\ ~ importing /\ Room
  /\ NewSearch(wanted, calls)
  /\ UNCHANGED <<wanted, timer, ready, importing, fetching, runtime>>

M_ScrollAnyTime ==
  /\ ready
  /\ offset < total
  /\ Room
  /\ calls' = Append(calls, Call("search", wanted, offset, FALSE, None))
  /\ loading' = TRUE
  /\ UNCHANGED <<wanted, timer, ready, importing, fetching, shown, panel, runtime, spoiled>>

\* The sentinel comes into view: runSearch(false).
Scroll ==
  /\ ready
  /\ ~ loading /\ offset < total
  /\ Room
  /\ calls' = Append(calls, Call("search", wanted, offset, FALSE, None))
  /\ loading' = TRUE
  /\ UNCHANGED <<wanted, timer, ready, importing, fetching, shown, panel, runtime, spoiled>>

\* The unlock form, submitted.
Submit ==
  /\ panel # "booting" /\ ~ importing
  /\ fetching < MaxFetches
  /\ importing' = TRUE
  /\ fetching' = fetching + 1
  /\ UNCHANGED <<wanted, timer, ready, loading, shown, panel, calls, runtime, spoiled>>

\* A check of the update button comes back late, or forgetCatalog goes on: both
\* call openUnlock, which makes the form at work usable again: it can be left, or
\* submitted once more.
Reopen ==
  /\ importing
  /\ importing' = FALSE
  /\ UNCHANGED <<wanted, timer, ready, fetching, loading, shown, panel, calls, runtime, spoiled>>

\* importCatalog: the download came, or did not.
Download ==
  /\ fetching > 0
  /\ fetching' = fetching - 1
  /\ \/ /\ Room
        /\ \E c \in Copies : calls' = Append(calls, Other("import", c))
        /\ UNCHANGED importing
     \/ /\ importing' = FALSE
        /\ UNCHANGED calls
  /\ UNCHANGED <<wanted, timer, ready, loading, shown, panel, runtime, spoiled>>

\* forgetCatalog, confirmed.
Forget ==
  /\ ready \/ panel = "broken"
  /\ ~ importing /\ Room
  /\ calls' = Append(calls, Other("forget", None))
  /\ UNCHANGED <<page, runtime, spoiled>>

-----------------------------------------------------------------------------
(* What happens by itself.                                                 *)

\* The debounce of scheduleSearch runs out.
Elapse ==
  /\ timer
  /\ timer' = FALSE
  /\ \/ /\ ready
        /\ Room
        /\ NewSearch(wanted, calls)
     \/ /\ ~ ready
        /\ UNCHANGED <<loading, shown, panel, calls, spoiled>>
  /\ UNCHANGED <<wanted, ready, importing, fetching, runtime>>

\* The worker answers the first call it has not answered yet.
Work ==
  \E i \in DOMAIN calls :
    /\ calls[i].answer = Asked
    /\ \A j \in 1..(i - 1) : calls[j].answer # Asked
    /\ LET Answer(a) == calls' = [calls EXCEPT ![i].answer = a]
           type == calls[i].type
       IN \/ /\ type = "search"
             /\ IF runtime = None
                  THEN Answer("failed")
                  ELSE calls' = [calls EXCEPT ![i].answer = "ok", ![i].copy = runtime]
             /\ UNCHANGED runtime
          \/ /\ type = "boot"
             /\ runtime' \in Copies \cup {None}
             /\ calls' = [calls EXCEPT ![i].answer = "ok", ![i].copy = runtime']
          \/ /\ type = "import"
             /\ runtime' = calls[i].copy
             /\ Answer("ok")
          \/ /\ type = "forget"
             /\ runtime' = None
             /\ Answer("ok")
          \/ /\ type # "search"
             /\ Answer("failed")
             /\ UNCHANGED runtime
    /\ UNCHANGED <<page, spoiled>>

-----------------------------------------------------------------------------
(* What follows an await.  `left' are the calls that remain.               *)

M_ShowWithoutClearing(c, left) ==
  LET found == Hits[c.copy][c.query]
      batch == IF c.at < found
                 THEN << [query |-> c.query, copy |-> c.copy, at |-> c.at + 1] >>
                 ELSE << >>
  IN  /\ total' = found
      /\ list' = list \o batch
      /\ offset' = c.at + Len(batch)
      /\ panel' = IF found = 0 THEN "empty" ELSE "hidden"
      /\ loading' = FALSE
      /\ calls' = left
      /\ UNCHANGED <<wanted, timer, ready, importing, fetching, spoiled>>

\* runSearch, after an answer of the present generation.
ShowBatch(c, left) ==
  LET found == Hits[c.copy][c.query]
      batch == IF c.at < found
                 THEN << [query |-> c.query, copy |-> c.copy, at |-> c.at + 1] >>
                 ELSE << >>
  IN  /\ total' = found
      /\ list' = (IF c.reset THEN << >> ELSE list) \o batch
      /\ offset' = c.at + Len(batch)
      /\ panel' = IF found = 0 THEN "empty" ELSE "hidden"
      /\ loading' = FALSE
      /\ calls' = left
      /\ UNCHANGED <<wanted, timer, ready, importing, fetching, spoiled>>

M_StopWithoutFinally(c, left) ==
  /\ panel' = "stopped"
  /\ calls' = left
  /\ spoiled' = (spoiled \/ c.reset)
  /\ UNCHANGED <<wanted, timer, ready, importing, fetching, loading, shown>>

\* runSearch, after an error: the list stays as it is.
StopSearch(c, left) ==
  /\ panel' = "stopped"
  /\ loading' = FALSE
  /\ calls' = left
  /\ spoiled' = (spoiled \/ c.reset)
  /\ UNCHANGED <<wanted, timer, ready, importing, fetching, shown>>

M_ShowAnyGeneration(c, answer, left) ==
  /\ c.type = "search"
  /\ \/ answer = "ok" /\ ShowBatch(c, left)
     \/ c.current /\ answer # "ok" /\ StopSearch(c, left)
     \/ ~ c.current /\ answer # "ok" /\ calls' = left /\ UNCHANGED <<page, spoiled>>

SearchSettled(c, answer, left) ==
  /\ c.type = "search"
  /\ \/ c.current /\ answer = "ok" /\ ShowBatch(c, left)
     \/ c.current /\ answer # "ok" /\ StopSearch(c, left)
     \/ ~ c.current /\ calls' = left /\ UNCHANGED <<page, spoiled>>

\* boot: there is a copy, there is none, or it cannot be opened.
BootSettled(c, answer, left) ==
  /\ c.type = "boot"
  /\ \/ /\ answer = "ok" /\ c.copy # None
        /\ ready' = TRUE
        /\ NewSearch(wanted, left)
     \/ /\ ~ (answer = "ok" /\ c.copy # None)
        /\ panel' = IF answer = "ok" THEN "install" ELSE "broken"
        /\ calls' = left
        /\ UNCHANGED <<ready, loading, shown, spoiled>>
  /\ UNCHANGED <<wanted, timer, importing, fetching>>

\* importCatalog: applyWorkerState and a search, or an error in the form.
ImportSettled(c, answer, left) ==
  /\ c.type = "import"
  /\ importing' = FALSE
  /\ UNCHANGED fetching
  /\ \/ /\ answer = "ok"
        /\ ready' = TRUE
        /\ NewSearch(wanted, left)
     \/ /\ answer # "ok"
        /\ calls' = left
        /\ spoiled' = (spoiled \/ answer = "late")
        /\ UNCHANGED <<ready, loading, shown, panel>>
  /\ UNCHANGED <<wanted, timer>>

\* forgetCatalog: everything is cleared but the searches under way.
ForgetSettled(c, answer, left) ==
  /\ c.type = "forget"
  /\ calls' = left
  /\ \/ /\ answer = "ok"
        /\ ready' = FALSE
        /\ total' = 0 /\ offset' = 0 /\ list' = << >>
        /\ panel' = "forgotten"
        /\ UNCHANGED spoiled
     \/ /\ answer # "ok"
        /\ spoiled' = (spoiled \/ answer = "late")
        /\ UNCHANGED <<ready, shown, panel>>
  /\ UNCHANGED <<wanted, timer, importing, fetching, loading>>

Settled(c, answer, left) ==
  \/ SearchSettled(c, answer, left)
  \/ BootSettled(c, answer, left)
  \/ ImportSettled(c, answer, left)
  \/ ForgetSettled(c, answer, left)

\* handleMessage: the answer of a call nobody waits for is dropped.
Receive ==
  /\ calls # << >>
  /\ LET c == Head(calls)
     IN  /\ c.answer # Asked
         /\ \/ c.waiting /\ Settled(c, c.answer, Tail(calls))
            \/ ~ c.waiting /\ calls' = Tail(calls) /\ UNCHANGED <<page, spoiled>>
  /\ UNCHANGED runtime

\* The timer of WorkerRPC.call, the same for all calls, so the oldest runs out
\* first; or rejectAll, which takes them in the same order.
GiveUp ==
  \E i \in DOMAIN calls :
    /\ calls[i].waiting
    /\ \A j \in 1..(i - 1) : ~ calls[j].waiting
    /\ Settled(calls[i], "late", [calls EXCEPT ![i].waiting = FALSE])
    /\ UNCHANGED runtime

-----------------------------------------------------------------------------

User ==
  \/ \E q \in Queries : Type(q) \/ Choose(q)
  \/ Retry \/ Scroll \/ Submit \/ Forget

Next == User \/ Reopen \/ Download \/ Elapse \/ Work \/ Receive \/ GiveUp

\* Timers run out, messages are delivered, and the worker answers or the call's
\* timer runs out.
Fairness ==
  /\ WF_vars(Elapse) /\ WF_vars(Receive) /\ WF_vars(Work) /\ WF_vars(GiveUp)

Spec == Init /\ [][Next]_vars /\ Fairness

-----------------------------------------------------------------------------
(* Properties.                                                             *)

Batch == [query : Queries, copy : Copies, at : Nat \ {0}]

CallType ==
  [type : {"boot", "search", "import", "forget"}, query : Queries \cup {None},
   at : Nat, reset : BOOLEAN, copy : Copies \cup {None}, current : BOOLEAN,
   waiting : BOOLEAN, answer : {Asked, "ok", "failed"}]

TypeOK ==
  /\ wanted \in Queries
  /\ timer \in BOOLEAN /\ ready \in BOOLEAN /\ importing \in BOOLEAN
  /\ fetching \in Nat
  /\ loading \in BOOLEAN /\ spoiled \in BOOLEAN
  /\ total \in Nat /\ offset \in Nat
  /\ list \in Seq(Batch)
  /\ panel \in {"booting", "install", "broken", "searching", "hidden", "empty",
               "stopped", "forgotten"}
  /\ calls \in Seq(CallType)
  /\ runtime \in Copies \cup {None}

Live(i) == calls[i].type = "search" /\ calls[i].current /\ calls[i].waiting

\* The page is loading exactly while one search of the present generation is
\* awaited, and there is never a second one: no batch is asked for twice and no
\* error or late answer leaves the page loading for ever (runSearch).
OneSearch ==
  /\ loading <=> \E i \in DOMAIN calls : Live(i)
  /\ \A i, j \in DOMAIN calls : Live(i) /\ Live(j) => i = j

\* Nothing is shown twice and nothing out of order, whatever failed before
\* (runSearch's offset).
BatchesInOrder ==
  /\ \A i, j \in DOMAIN list : i < j => list[i].at < list[j].at
  /\ \A i \in DOMAIN list : list[i].at <= offset

\* The list at rest is the beginning of what the worker finds for what the user
\* wants now, in the copy it has now, with its total, although batches of other
\* queries and of other copies were under way; and what a forget has taken away
\* is no longer shown (runSearch, importCatalog, forgetCatalog).
ListAnswers ==
  /\ ready /\ ~ timer /\ ~ loading /\ ~ spoiled /\ panel \in {"hidden", "empty"} =>
       \E c \in Copies :
         /\ total = Hits[c][wanted]
         /\ offset <= total
         /\ list = [i \in 1..offset |-> [query |-> wanted, copy |-> c, at |-> i]]
         /\ (\A i \in DOMAIN calls : calls[i].type = "search") => c = runtime
  /\ ~ ready /\ ~ loading /\ ~ spoiled => list = << >> /\ total = 0

\* When the user lets it rest, so does the page: no search is left loading and
\* no typed query unsearched, whether the worker answers or not.
Settles ==
  <>[][~ User]_vars => <>[](~ loading /\ ~ timer)

================================================================================
