------------------------------ MODULE CoursesStore ------------------------------
(***************************************************************************)
(* courses-search-worker.js: every open tab has a worker of its own; all   *)
(* of them share one IndexedDB database with the catalogue records, the    *)
(* index records and the key of the active version.  A worker runs its     *)
(* mutating requests (boot, import, forget) one after the other            *)
(* (mutationQueue), each in several transactions.  A transaction is        *)
(* atomic; between two of them other tabs run theirs, and the tab may be   *)
(* closed.  A version names a download, contents stand for what is in it:  *)
(* the page takes the two from different responses.                        *)
(***************************************************************************)
CONSTANTS Tabs, Versions, Contents, None

ASSUME StoreAssumption == None \notin Versions \cup Contents

VARIABLES
  active,     \* state store: the active version
  catalogs,   \* catalogue store: Versions -> contents
  indexes,    \* index store: Versions -> contents the index was built from
  pc,         \* Tabs -> where the worker is
  opened,     \* Tabs -> does the worker hold an open database
  version,    \* Tabs -> the version the request in progress is about
  content,    \* Tabs -> the contents an import brings
  runtime,    \* Tabs -> contents searches are answered from (activeRuntime)
  answer,     \* Tabs -> the answer to the last request
  warned,     \* Tabs -> did that request post "storage-warning"
  users       \* the tabs that are ever opened

store == <<active, catalogs, indexes>>
vars  == <<store, pc, opened, version, content, runtime, answer, warned, users>>

Stored == {v \in Versions : catalogs[v] # None \/ indexes[v] # None}

Init ==
  /\ active = None
  /\ catalogs = [v \in Versions |-> None]
  /\ indexes = [v \in Versions |-> None]
  /\ pc = [t \in Tabs |-> "closed"]
  /\ opened = [t \in Tabs |-> FALSE]
  /\ version = [t \in Tabs |-> None]
  /\ content = [t \in Tabs |-> None]
  /\ runtime = [t \in Tabs |-> None]
  /\ answer = [t \in Tabs |-> "none"]
  /\ warned = [t \in Tabs |-> FALSE]
  /\ users \in SUBSET Tabs /\ users # {}

Goto(t, label) == pc' = [pc EXCEPT ![t] = label]

Begin(t, label, v, c) ==
  /\ Goto(t, label)
  /\ version' = [version EXCEPT ![t] = v]
  /\ content' = [content EXCEPT ![t] = c]
  /\ answer' = [answer EXCEPT ![t] = "none"]
  /\ warned' = [warned EXCEPT ![t] = FALSE]

\* The response to the page; the next request in the queue may start.
Respond(t, result) ==
  /\ Goto(t, "idle")
  /\ version' = [version EXCEPT ![t] = None]
  /\ content' = [content EXCEPT ![t] = None]
  /\ answer' = [answer EXCEPT ![t] = result]

\* The page is opened: it starts a worker and boots it.
OpenTab(t) ==
  /\ pc[t] = "closed"
  /\ Begin(t, "boot_open", None, None)
  /\ UNCHANGED <<store, opened, runtime>>

\* handleImport, up to the opening of the database.
AskImport(t) ==
  /\ pc[t] = "idle"
  /\ \E v \in Versions, c \in Contents : Begin(t, "import_open", v, c)
  /\ UNCHANGED <<store, opened, runtime>>

AskForget(t) ==
  /\ pc[t] = "idle"
  /\ Begin(t, "forget_open", None, None)
  /\ UNCHANGED <<store, opened, runtime>>

\* openDatabase: opened once, then kept.
OpenDatabase(t) ==
  /\ \/ pc[t] = "boot_open"   /\ Goto(t, "read_state")
     \/ pc[t] = "import_open" /\ Goto(t, "persist")
     \/ pc[t] = "forget_open" /\ Goto(t, "clear")
  /\ opened' = [opened EXCEPT ![t] = TRUE]
  /\ UNCHANGED <<store, version, content, runtime, answer, warned>>

\* readActiveRecords, first transaction: which version is active.
ReadState(t) ==
  /\ pc[t] = "read_state"
  /\ \/ /\ active = None
        /\ runtime' = [runtime EXCEPT ![t] = None]
        /\ Respond(t, "ok")
     \/ /\ active # None
        /\ Goto(t, "read_records")
        /\ version' = [version EXCEPT ![t] = active]
        /\ UNCHANGED <<content, runtime, answer>>
  /\ UNCHANGED <<store, opened, warned>>

M_BootWithoutPrune(t) ==
  /\ pc[t] = "read_records"
  /\ indexes[version[t]] = catalogs[version[t]]
  /\ runtime' = [runtime EXCEPT ![t] = catalogs[version[t]]]
  /\ Respond(t, "ok")
  /\ UNCHANGED <<store, opened, warned>>

\* readActiveRecords, second transaction, and the hydration: a missing record
\* and an index that does not fit its catalogue are CACHE_CORRUPT.
ReadRecords(t) ==
  /\ pc[t] = "read_records"
  /\ LET v == version[t]
     IN  \/ /\ catalogs[v] # None
            /\ indexes[v] = catalogs[v]
            /\ runtime' = [runtime EXCEPT ![t] = catalogs[v]]
            /\ Goto(t, "prune")
            /\ UNCHANGED <<version, content, answer>>
         \/ /\ catalogs[v] = None \/ indexes[v] # catalogs[v]
            /\ Respond(t, "failed")
            /\ UNCHANGED runtime
  /\ UNCHANGED <<store, opened, warned>>

\* persistVersion: one transaction over the three stores; the new runtime takes
\* over in the continuation of its completion.
Persist(t) ==
  /\ pc[t] = "persist"
  /\ catalogs' = [catalogs EXCEPT ![version[t]] = content[t]]
  /\ indexes' = [indexes EXCEPT ![version[t]] = content[t]]
  /\ active' = version[t]
  /\ runtime' = [runtime EXCEPT ![t] = content[t]]
  /\ Goto(t, "prune")
  /\ UNCHANGED <<opened, version, content, answer, warned>>

M_ClearKeepsRuntime(t) ==
  /\ pc[t] = "clear"
  /\ active' = None
  /\ catalogs' = [v \in Versions |-> None]
  /\ indexes' = [v \in Versions |-> None]
  /\ Goto(t, "cleared")
  /\ UNCHANGED <<opened, version, content, runtime, answer, warned>>

\* handleForget: one transaction over the three stores; the runtime goes in the
\* continuation of its completion.
Clear(t) ==
  /\ pc[t] = "clear"
  /\ active' = None
  /\ catalogs' = [v \in Versions |-> None]
  /\ indexes' = [v \in Versions |-> None]
  /\ runtime' = [runtime EXCEPT ![t] = None]
  /\ Goto(t, "cleared")
  /\ UNCHANGED <<opened, version, content, answer, warned>>

Cleared(t) ==
  /\ pc[t] = "cleared"
  /\ Respond(t, "ok")
  /\ UNCHANGED <<store, opened, runtime, warned>>

M_PruneCatalogsOnly(t) ==
  /\ pc[t] = "prune"
  /\ catalogs' = [v \in Versions |-> IF v = version[t] THEN catalogs[v] ELSE None]
  /\ Respond(t, "ok")
  /\ UNCHANGED <<active, indexes, opened, runtime, warned>>

M_PruneFailureIsAnError(t) ==
  /\ pc[t] = "prune"
  /\ \/ /\ catalogs' = [v \in Versions |->
                          IF v = version[t] THEN catalogs[v] ELSE None]
        /\ indexes' = [v \in Versions |->
                         IF v = version[t] THEN indexes[v] ELSE None]
        /\ Respond(t, "ok")
     \/ /\ Respond(t, "failed")
        /\ UNCHANGED <<catalogs, indexes>>
  /\ UNCHANGED <<active, opened, runtime, warned>>

\* pruneInactiveVersions: a transaction over the two record stores that deletes
\* every version but the one this request is about.  Its failure is a warning,
\* the request has succeeded all the same.
Prune(t) ==
  /\ pc[t] = "prune"
  /\ \/ /\ catalogs' = [v \in Versions |->
                          IF v = version[t] THEN catalogs[v] ELSE None]
        /\ indexes' = [v \in Versions |->
                         IF v = version[t] THEN indexes[v] ELSE None]
        /\ UNCHANGED warned
     \/ /\ warned' = [warned EXCEPT ![t] = TRUE]
        /\ UNCHANGED <<catalogs, indexes>>
  /\ Respond(t, "ok")
  /\ UNCHANGED <<active, opened, runtime>>

\* Whatever else can go wrong does so before anything is stored: the database
\* does not open (unless it is open), a transaction fails (quota), the imported
\* catalogue or the stored one does not validate.
FailRequest(t) ==
  /\ \/ pc[t] \in {"boot_open", "forget_open"} /\ ~ opened[t]
     \/ pc[t] \in {"import_open", "read_state", "read_records", "persist",
                   "clear"}
  /\ Respond(t, "failed")
  /\ UNCHANGED <<store, opened, runtime, warned>>

\* The tab is closed or reloaded, or its worker dies, between two transactions.
CloseTab(t) ==
  /\ pc[t] # "closed"
  /\ Begin(t, "closed", None, None)
  /\ opened' = [opened EXCEPT ![t] = FALSE]
  /\ runtime' = [runtime EXCEPT ![t] = None]
  /\ UNCHANGED store

TabStep(t) ==
  \/ OpenTab(t) \/ AskImport(t) \/ AskForget(t) \/ OpenDatabase(t)
  \/ ReadState(t) \/ ReadRecords(t) \/ Persist(t) \/ Clear(t) \/ Cleared(t)
  \/ Prune(t) \/ FailRequest(t) \/ CloseTab(t)

Next == \E t \in users : TabStep(t) /\ UNCHANGED users

Spec == Init /\ [][Next]_vars

-----------------------------------------------------------------------------
(* Properties.                                                             *)

Labels == {"closed", "idle", "boot_open", "import_open", "forget_open",
           "read_state", "read_records", "persist", "clear", "cleared", "prune"}

TypeOK ==
  /\ active \in Versions \cup {None}
  /\ catalogs \in [Versions -> Contents \cup {None}]
  /\ indexes \in [Versions -> Contents \cup {None}]
  /\ pc \in [Tabs -> Labels]
  /\ opened \in [Tabs -> BOOLEAN]
  /\ version \in [Tabs -> Versions \cup {None}]
  /\ content \in [Tabs -> Contents \cup {None}]
  /\ runtime \in [Tabs -> Contents \cup {None}]
  /\ answer \in [Tabs -> {"none", "ok", "failed"}]
  /\ warned \in [Tabs -> BOOLEAN]
  /\ users \in SUBSET Tabs /\ users # {}
  /\ \A t \in Tabs :
       /\ pc[t] \in {"read_records", "prune"} => version[t] # None
       /\ pc[t] \in {"import_open", "persist"} =>
            version[t] # None /\ content[t] # None

\* A catalogue and the search index stored under its version always belong
\* together: no interleaving of the tabs' imports, prunings and clearings, and
\* no tab closed in between, leaves one without the other or pairs it with
\* another one's (the transactions over both stores).
RecordsPaired == \A v \in Versions : indexes[v] = catalogs[v]

OneTab == \A t, u \in users : t = u

\* The active version has its records: what was imported can be booted from
\* again ("search will work without the network").
ActiveReadable == active # None => catalogs[active] # None

\* One tab: searches are answered from the stored copy, so that a reload finds
\* what the page has shown; a request that failed half-way changed neither.
SearchesTheCopy ==
  OneTab =>
    \A t \in users :
      pc[t] \notin {"closed", "boot_open", "read_state", "read_records"} /\
      runtime[t] # None => active # None /\ catalogs[active] = runtime[t]

\* One tab: a request that answered "ok" without a warning left one version in
\* the database at most, whatever closed tabs and failed prunings left before.
NothingStale ==
  OneTab =>
    \A t \in users :
      pc[t] = "idle" /\ answer[t] = "ok" /\ ~ warned[t] => Stored \subseteq {active}

\* The invariant behind them: the prune of a request spares what it activated.
StoreInv ==
  /\ RecordsPaired
  /\ OneTab =>
       /\ ActiveReadable
       /\ active = None => Stored = {}
       /\ \A t \in users :
            /\ pc[t] = "cleared" => active = None /\ runtime[t] = None
            /\ pc[t] = "prune" => version[t] = active /\ runtime[t] = catalogs[active]
            /\ pc[t] = "read_records" => version[t] = active
            /\ pc[t] \in {"closed", "boot_open", "read_state", "read_records"} =>
                 runtime[t] = None

\* One tab, the worker implements the copy: replaced or removed in one step,
\* and every answer says truthfully whether that step happened.  Of several tabs
\* nothing of the kind is promised.
Only == CHOOSE t \in users : TRUE

StoredCopy == IF OneTab /\ active # None THEN catalogs[active] ELSE None

Request ==
  LET label == IF OneTab THEN pc[Only] ELSE "idle"
  IN  CASE label \in {"boot_open", "read_state", "read_records"} -> "boot"
        [] label \in {"import_open", "persist"}                  -> "import"
        [] label \in {"forget_open", "clear", "cleared"}         -> "forget"
        [] label = "prune" /\ content[Only] = None               -> "boot"
        [] label = "prune" /\ content[Only] # None               -> "import"
        [] OTHER                                                 -> "none"

Brings == IF OneTab THEN content[Only] ELSE None

Done ==
  /\ OneTab
  /\ \/ pc[Only] = "cleared"
     \/ pc[Only] = "prune" /\ content[Only] # None

Answered == IF OneTab THEN answer[Only] ELSE "none"

Copy == INSTANCE LocalCopy WITH
  copy <- StoredCopy, request <- Request, wanted <- Brings, done <- Done, answer <- Answered

CopySpec == Copy!Spec

=============================================================================
