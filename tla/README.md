# Formal model of the courses catalogue

The repository holds a small web site whose main part is a catalogue of courses:
command line tools build and maintain the catalogue file, a web server hands it
out under a password, and a page with a search worker keeps a copy in the
browser and searches it without the network. This directory models the parts of
that system whose correctness depends on interleavings, interruptions and
partial failures, checks small instances with TLC and proves the main results
for all instances with TLAPS.

## Inventory

| Component | State it keeps | Operations | Interacts with |
|---|---|---|---|
| Link audit command (`cmd/courses-link-audit`, `internal/courses/link_audit.go`, `link_tombstones.go`) | report file, tombstones file | a run: load catalogue, policy, report, tombstones; audit; merge; publish both files | reads the catalogue, is read by the builder |
| Audit worker pool (`link_audit_client.go`) | job channel, result slots, first error | `AuditCatalogLinks`, `requestLinkAuditObservation` | remote servers; called by the audit command |
| Catalogue builder (`cmd/courses-data`, `internal/courses/catalog.go`) | catalogue file | load side files, read exports, cluster, merge, filter, publish by rename | exports, tombstones, suppressions, enrichment cache |
| Link enrichment (`cmd/courses-link-enrich`, `link_enrichment*.go`) | enrichment cache file | fetch metadata in a pool, write the cache by rename | catalogue, read by the builder |
| Audit HTTP client (`link_audit_client.go`) | connections kept open, of all workers | look up, check, dial, follow redirects | resolver, remote servers; used by the pool |
| Web server (`internal/server`) | metadata cache | `GET /courses/api/meta`, `POST /courses/api/catalog` | catalogue file, page |
| Page (`static/js/courses.js`) | query, filters, order, list, label and metadata, unlock dialog, pending calls | search, filter, sort, load more, import, update check, forget | server, worker |
| Search worker (`static/js/courses-search-worker.js`) | IndexedDB (three stores, shared by all tabs), runtime of the tab | boot, import, search, get, forget | page, other tabs through IndexedDB |
| Title rules (`title_rules.go`, `title_normalization.go`) | none | load a rules file, normalize a title | builder |
| Link hygiene, torrent reader (`link_hygiene.go`, `link_suppressions.go`, `torrent.go`) | none | pure functions | builder, audit, enrichment |
| Frame (`cmd/main.go`, `internal/server/server.go`), landing page, password tool | none to speak of | routing, drawing, bcrypt | |

What is hard in it: runs of the audit that overlap, are interrupted or die
between the two files they publish; a pool that must neither block nor return a
hole when it is cancelled; a build that reads its side files at different times
than it reads its exports; tabs that share a database but not their plans for
it; calls of the page that time out while the worker still works; metadata and
download that come from different responses; names and addresses that change between a
check and its use. The hazards are listed one by one in `PROJECT.json`.

What makes each component correct:

* audit: a link is tombstoned only after `confirmations_required` audits in a row
  that found it dead in the same way; both files are published or neither; what a
  dead run left undone is caught up; tombstones only grow;
* pool: the call returns; a report has a verdict for every link; no link is
  condemned on the word of a HEAD;
* builder: entries are one course exactly if a chain of same courses joins them; a course
  has all its entries brought, under an identity of its own; no allowed link is lost;
* titles: a rule that was accepted has its effect, what is protected stays as it is;
* topics: a course is filed under its author's topic only where that is earned, the counts
  are those of the file;
* client: no connection leads to an address that was not found public, an answer is from the
  link's own host or one its rule allows;
* builder and audit together: a link dropped as dead never comes back;
* server: the metadata are those of the file in place; every request is answered;
* enrichment: the cache holds what servers answered and no more, what is published is whole,
  nothing is forgotten, the run ends;
* page: the list at rest answers the query at hand, nothing is shown twice, nothing loads
  for ever; an update is offered exactly if there is one, is labelled rightly, and ends;
* search: a count is what choosing the value gives, scrolling shows every match once;
* worker: the copy is replaced or removed as a whole, answers tell the truth,
  catalogue and index belong together, old versions do not pile up.

## Modules

| Module | Models | Its theorems |
|---|---|---|
| `TombstoneLedger` | abstract: what the audit promises about tombstones | |
| `LinkAudit` | any number of audit runs over the two files | `LinkAuditProofs` |
| `LinkLifecycle` | `LinkAudit` composed with the catalogue build | `LinkAuditProofs` |
| `AuditOnce` | abstract: one call, one complete report or an error | |
| `AuditPool` | `AuditCatalogLinks` with its producer and workers | `AuditPoolProofs` |
| `AuditClient` | the client of the pool: lookups, connections, redirects | `AuditPoolProofs` |
| `LocalCopy` | abstract: what the worker promises about the copy | |
| `CoursesStore` | the workers of all tabs over IndexedDB | `CoursesStoreProofs` |
| `CoursesPage` | the page: search, paging, import, forget, and its calls to the worker | `CoursesPageProofs` |
| `CatalogUpdates` | the page's update check: metadata, downloads, labels, the unlock dialog | `CatalogUpdatesProofs` |
| `CatalogSearch` | hydration, facets, filters, order and paging of the worker, and the page that asks | `CoursesStoreProofs` |
| `CatalogView` | abstract: an answer of the server is one look at the file | |
| `CatalogMeta` | the two catalogue endpoints and the metadata cache | `CatalogMetaProofs` |
| `CatalogEntries` | what the build reads off entries: identities, trusted links, merging, the reference "same course" | |
| `CatalogClusters` | merge of the exports, the disjoint set, the four passes, the canonical entries | |
| `CatalogBuild` | `CatalogClusters`, then the assembly of the courses and what is published | `CatalogBuildProofs` |
| `CatalogTopics` | categories and formats of the courses, the topics of authors, the counts | `CatalogBuildProofs` |
| `TitleRules` | the rules file and what it makes of a title | `CatalogBuildProofs` |
| `Enrichment` | one run at a time of the enrichment, its worker pool and its cache | `EnrichmentProofs` |
| `MC...` | instances for TLC: model values, small sets, symmetry | |

Some components that share no state are checked in one run: `MCSearchWorker` is the sum of `CoursesStore` and `CatalogSearch`, `MCBuilder` that of
`CatalogBuild`, `CatalogTopics` and `TitleRules`. A behaviour of such a sum is one of a
component (`part`), the others stand still in a state that satisfies their properties.

### LinkAudit

A run is a process with a program counter. Its variables are the local variables
of `run` and `writeAtomicPairWithRename`: `candidates` is what it loaded of the
catalogue, `previous` and `known` the report and the tombstones it loaded,
`results` and `merged` what it is going to publish, `backup` the temporary copy of
the report. The steps are the places where the outside world can get in between:
each file read, the audit as a whole, the temporary files, each rename, each look
at the context. `Cancel` is SIGINT or SIGTERM and only sets a flag, which the
steps look at where the code calls `ctx.Err()`: the audit, the merge, the
preparation and the first rename refuse to start (`Abort`), the look between the
renames rolls back (`CheckContext`), and after it nobody looks any more. `Kill`
ends the process between any two steps. A rename may fail, preparing the files
may fail, rolling back may fail.

A missing file and a file without records are the same value, because the loaders
make the same of both (so removing a report that did not exist is the same
restoration as renaming the old one back). The map from links to records stands
for the arrays keyed by SHA-256. `live`, `blocked` and `transient` are one state,
as none of them can be condemned and nothing else tells them apart; `unknown` is
kept because it is the state of a status nobody expected. The HTTP status is kept
only as far as the loader looks at it (in 100..599 or not). Timestamps, reasons of
results, policy parsing and JSON are left out. `manual` tombstones, which only a
person writes, are left out.

`seen` is history that the files do not hold: what each audit in the report's
lineage found. The properties compare the counter with it.

### LinkLifecycle

Adds the build to `LinkAudit`: `LoadFilters` is the reading of the tombstones at
the start of `buildFilesWithLinkEnrichment`, `BuildCatalog` reads the exports and
leaves out what the filter names, `PublishCatalog` is the rename. `sources` is the
set of links of the exports, which only grows (the exports are snapshots that are
merged). It is assumed that the build is given the path of the tombstones file;
without the flag the code filters nothing. `dropped` is history: what a published
catalogue left out as dead.

### AuditPool

The inside of `LinkAudit`'s `Audit` step. The producer is the loop at the end of
`AuditCatalogLinks`, a worker is one of its goroutines. `Hand` is the rendezvous on
the unbuffered channel. A worker's labels follow `requestLinkAuditObservation`:
`head`, `get` (with a range), `get_whole` (without, after a 416), `body`. HTTP
statuses are taken by what the code does with them; bodies by which kind of pattern
they match. A status that a rule lists as dead and that is also 405, 501 or 416 is
not modelled. A request may fail at any point, with an error of its own or with the
context's; the code tells the two apart only when the context is cancelled, as
`FailRequest` does. `late` and `from` are history.

### AuditClient

What a request of the pool goes through in `newSafeLinkAuditClient`'s transport. `Do` begins
one, `LookUp` and `Dial` are the two halves of `safeLinkAuditDialContext` with the resolver's
answer between them, `Redirect` is `safeLinkAuditRedirect`. `Reuse`, `Free` and `Close` are
what `http.Transport` does with connections it keeps open, which all workers share: the only
way by which what one worker found may be used by another. The resolver answers anything at
every lookup, servers redirect anywhere; a host written as an address stands for it always.
`Public` is the set `validateSafeLinkAuditIP` accepts, its ranges are constants. The checks
of a URL (`inspectLink`, scheme, user info) are the parameter `fit`.

### CoursesStore

A tab has one worker; its mutating requests run one after the other
(`mutationQueue`), so a tab's state is one program counter. A transaction of
IndexedDB is one step; between two transactions other tabs run theirs and the tab
may be closed (`CloseTab`, also a reload or a crash). A version and the contents
stored under it are separate values, because the page takes the label and the
download from different responses. A failed transaction leaves the stores as they
were; a failed prune is the warning `storage-warning` and not an error. Validation,
hydration and index building happen before anything is stored and can only fail the
request. `search` and `get` wait for the mutating requests before them and change
nothing: they are the invariant `SearchesTheCopy` about what they would read. `users` are the
tabs that are ever opened: what only holds for one tab has the condition `OneTab`, and one
specification serves both.

### CoursesPage

One page and one worker. The worker answers its messages in order and the answers come
back in order, so the calls under way are one sequence; `Work` is the worker taking up
the next one, `Receive` the page handling the oldest answer, `GiveUp` the timeout of the
oldest call still awaited (all timeouts are equally long; `rejectAll` is several in a
row). A call given up stays in the queue and the worker still does it. Every handler runs
up to its next `await` in one step, and a continuation runs whole, so `ImportSettled`
contains the new search that `importCatalog` starts. `Reopen` is a check of the update button
that is answered late, or `forgetCatalog` going on: both call `openUnlock`, which makes a form at
work usable again, so two imports can overlap (`MaxFetches` bounds the downloads under way).

`wanted` is everything `buildSearchRequest` reads. Batches of `SEARCH_BATCH` entries are
the unit of a list, and `Hits` says how many there are for a query in a copy. The search
generation is kept as a mark on the calls that were made under the present one, because
the code only compares it with its present value. While the unlock form is at work its
dialog is modal, so the user does nothing else, but timers and the scroll observer run on.
`spoiled` is history: the first page of a search failed, or an import or a forget was
given up that the worker may still do.

#### What the page does not promise

A failed first page leaves the old list, total and offset in place, and the next batch,
asked for under the new query, is appended to it and hides the error. A batch asked for
while forgetting is under way fails after it, and the panel that offers the import is
replaced by one whose retry does nothing. `ListAnswers` leaves the first out by `spoiled`,
the second only concerns the panel. What it does say of forgetting is that nothing of the
copy is shown afterwards.

### CatalogUpdates

How a tab learns of a new file and installs it, with everything `CoursesPage` leaves out for
it: `published` is the server's file (`CatalogMeta` shows that an answer is one look at it),
which is its own version, because the version is its digest. A run of `checkRemoteMeta` is an
element of `checks` with what its caller does afterwards (`why`: nothing, open the dialog, go
on with an import), a run of `importCatalog` one of `forms`; both are bounded (`Checks`,
`Forms`), neither waits for another. `Tell` is the server's look at its file, `Hear` the
continuation of the check, which may be any time later and in any order. `HandOut`
is the server's second response, `Label` the label the download gets: the version last
heard of, `state.remoteMeta`. The form is opened by the update button after a check of its
own (`Update`), by the button of an empty list (`OpenFromPanel`), by the one shown while there is
no copy (`Install`), and by answers of checks. `Empty` are the files without entries; `Look` is a
search ending in the panel that says so, or taking it away. `Forget` is possible with a copy in use and with
one that boot could not read. The worker's calls are a queue as in `CoursesPage`; their
timeouts are in that module and are left out here. `steady` and `lost` are history: an update
was begun with its button in a tab with nothing else under way, the file was not replaced since,
and the form was not taken from the panel of an empty list while the button's check was out; the last
check failed.

Four things the code does not promise, and the properties therefore do not say. The button of an
empty list asks for no check: what it installs is labelled by what was heard before, however long
ago, even if the update button was pressed first and its check is still out. `UpdatesLabelRight`
leaves it out by `steady`; that a wrong label from there comes to an end of offers all the same is
part of `OffersEnd`. A copy whose label is older than its contents is offered the update it
already has, which the next import cures; one whose label is newer is not offered what it lacks until the next
publication; `forgetCatalog` leaves `updateAvailable` as it is, which shows nowhere while there
is no copy.

### CatalogSearch

`Facet` and its neighbours are `hydrateCatalog` and `buildFacetRecords`, `Found` is
`handleSearch` up to the slice, `Page` the slice. The rest is the page: `Check`, `PickProvider`,
`PickYear`, `TakeOff` and the others are its handlers, each followed by `runSearch(true)` as in
the code (`SearchAnew`), with `syncAutomaticSort`. A search is one step here, because late and
lost answers are the subject of `CoursesPage`. Names are written in several ways and `Normal` is
`normalizeText`; texts that are sorted by are ranks of the collator. Scores are given for each
query and entry, for the exact and the fuzzy search (MiniSearch is a vendored library).

### CatalogMeta

A request is a process; its labels are the places of `readCoursesCatalogMeta` and
`readCoursesCatalog` between which the file can change: waiting for the mutex, the
first stat with the look into the cache, the stat of the reading function, the read,
the second stat. A download (`kind` is `"catalog"`) goes through the reading function
only and takes no mutex. `Read` opens whatever file is in place by then, so contents and
noted stamp may be of different files; that they are not cached together is what the
properties are about. The checks of the file (gzip, schema, size) are the constant set
`Served`; a path or file that does not pass the stat is the same as no file. The map of
entries has one key, the configured path.

A stamp stands for size, modification time and identity, and every publication has one
that no file had before. This is an assumption: putting back an old file with its old
times is outside the model (the code's second stat compares size and time only).
`disturbed` is history: did the file change since the request came.

### CatalogEntries, CatalogClusters, CatalogBuild

The inside of `LinkLifecycle`'s `BuildCatalog`, for one build: a sequential program, but
one whose result must not depend on the order of its input nor on the order in which Go
walks a map. `build` has the exports and the side files. `MergeEntry` merges one entry of a
later export into those before it (`mergeSourceExports`); the build then goes through
`pass`: four passes that unite entries, one that chooses the canonical entry of each
cluster, one that assembles the courses. `Jobs` is the set of unions of a pass; those of one
group are made in the order of the code, the groups of the two passes that walk a map in any
order. `Unite` is one call of `union`, with both climbs of `find` and what they leave
compressed. `Path` is a climb, `Root` where it ends. An owner found in a map is the least
index that has the key, which is why `IdentityOwner` can be written without the map.

A title or an author is a sequence of words, what `normalizeSearchText` leaves of it.
What the text functions find in a title is marked on it: `bracket` for
`malformedAuthorTitle`, `dangling` for the year without a closing parenthesis, and the title
rules are a function of words. A link is its canonical key, `Unsafe` are the keys that
`inspectLink` rejects, and the links of an entry are a map, so that a link met twice is one.
A time has an instant and a spelling, because a tie goes by the id only if the two are
spelled alike; instant 0 is a text that does not parse, which a later export may put in the place
of a good time and which then fails the build (`Sound`). A duplicate id within the first export
fails the build, in a later one it is merged.

An account is what one export says of an entry. All of it is merged before a link is judged:
title, credit, text, message, year and time are taken from the last account that has them, links
and their origins are collected. Whether a link is only the domain named in a heading
(`ActionableSourceLink`) is decided on the merged entry, from what its texts spell out or name
(`Prose`) and from where its accounts say the link is from (`Origin`); the torrent is looked up by the
merged message. So a later export can turn an earlier one's link into a mention, or a mention into
a link. `Gathered` is the reference for this and translates no code: it looks at all accounts of an
entry at once, and `NothingLostNothingDead` says that a link is published exactly if it is allowed
there. Where a link comes from is a map beside the links (`origins`), because nothing of it is published; an
export has a link of an entry once.

Left out: messages (with the check that each entry's message exists), contents of links,
passwords, notes, the `origin` field of entries, year ranges, the repair of
legacy headings. Categories, formats, author topics and facets are in `CatalogTopics`, which
looks at nothing the clusters depend on. `SameCourse` and `Component` are the reference and
translate no code: the relation that the criteria say between two entries, and its chains.

### CatalogTopics

`Join` is an entry joining its course with what `classify` and `classifyFormats` read off its
text, the canonical entry taking the course over; `Drop` is `removeEntriesWithoutLinks`,
`Propagate` is `propagateAuthorTopics` over what is left, `Count` the facets. `Dominant` writes
`dominantAuthorTopic` out: at least two courses with a topic, ahead of every other topic, ties
to the first in the order of the definitions, 70 in 100 of them.

### TitleRules

A title is a sequence of tokens, words and single marks, and a word is known by what the code
reads off its letters (`Hard`, `Net`, `Capital`, `Score`, ...): these sets are constants with an
assumption, `LexiconAssumption`, that only says what letters and their case allow. A colon may be
part of a word and is yet trimmed from the ends of a field, so an address may begin with one of
`AfterColon` and end with one of `BeforeColon`; a part in capitals is a part of the field, so it counts at
the head or tail of a word only where the field begins or ends (`CodeAt`). `Accepted`
is `LoadTitleRules` with its checks across the five lists; `Normalize` is `Cleanup` (provider
noise, underscores) and `Rewrite` (what is `Protected`, whether the score or a rule asks for it,
Cyrillic for the rest). `Load`, `NormalizeOnce` and `NormalizeAgain` are the builder with one
title, and once more with the result.

A second pass is not without effect on every title, and the proof of `IdempotentOnOthers` found
out on which. An address with underscores such as `beta_dlya.dlya` is kept by
`preserveCourseTitleUnderscores`, which takes it for a domain, but not protected by
`protectNetworkCourseTitleFields`, whose domains have no underscores; the first pass rewrites a
part of it and the second splits what is left. It may become an address only when the noise
before it is gone, so the property looks at what `Cleanup` leaves. And a word of nothing but
underscores, as in `dlya_7 _`, becomes a space: the first pass counts it as a field and keeps
the underscores of its neighbour, a part of one code among other words, the second does not
and takes the neighbour apart. `IdempotentOnOthers` says that nothing else is changed twice.

### Enrichment

`step` is where `run` is: inside `EnrichCatalogLinks` (`fetch`), before the new cache is
written beside the file (`publish`), before its rename (`rename`). `jobs` and `results` are
the two channels of `fetchLinkEnrichmentCandidates`. The first is filled and closed
before a worker starts, so it is a set taken in the order of the hashes; the second is read
only when every worker is done, so it is a set with a capacity, and `Send` needs room in it.
A worker that meets the cancelled context lets go of the link it has just taken (`Begin`);
a link that fails has an outcome all the same. After the last look at the context
(`Prepare`) a signal no longer stops the rename. Syncing the directory after the rename can
fail the run, with the new file in place: to the file that is `Rename`.

A body is the sequence of the places where a marker occurs, each with what follows it: no
object, one that does not decode, or contents. `Extract` is the order in which the code
tries them. Contents are abstract; `Publishable` are those that
`validateCachedLinkContent` accepts. The clock does not go back, and only whole runs one
after the other are modelled: of two that overlap the last one writes back the entries it
loaded, and what the other added is fetched again. With more than `MaxEntries` entries the
loader rejects the file and no run starts (`Loads`). `of` and `body` of an entry are
history.

## Runs

| Run | Instance | Question | States |
|---|---|---|---|
| `link_lifecycle` | 2 links that enter and leave the catalogue, all answers, 1 run at a time and 1 build, 2 confirmations, 3 audits | do the two files move together, is nothing forgotten, is the ledger implemented, can a dead link come back | 559 000 |
| `audit_overlapping` | 1 link, 2 runs, 2 confirmations, 2 audits | do counts and tombstones survive overlapping runs | 985 000 |
| `audit_pool` | 3 links under 3 kinds of rule, 2 workers | does the call return, complete, on GETs only | 187 000 |
| `audit_client` | 2 workers, 4 hosts, 2 addresses, 4 redirects | where do connections lead, whose answer counts | 1 290 000 |
| `search_worker` | 1 or 2 tabs, 3 versions, 2 contents; 8 catalogues of 3 entries, 2 queries, all filters and orders | is the copy replaced as a whole and answered truthfully; do facets and lists add up | 42 000 |
| `catalog_meta` | 2 requests, 3 contents of which 1 is broken, 3 publications | does the cache tell the file in place, is every request answered | 184 000 |
| `courses_page` | 2 queries, 2 copies with 0 to 2 batches, 3 calls, 1 download | does the list at rest answer the query, does the page come to rest | 2 125 000 |
| `catalog_updates` | 2 files of which 1 is empty, 2 checks, 1 import, publications and reloads without bound | is the offer right, is the label, does updating end | 735 000 |
| `builder` | 3 entries of 8 shapes, 4 patterns of ids and times, 1 or 2 exports, 3 sets of side files; 1 entry of 2 or 3 accounts; 6 entries of 5 courses; every small rules file over titles of 3 tokens and some of up to 9 | clusters, courses and links of a build; topics and counts; titles | 2 190 000 |
| `link_enrichment` | 4 links of which 3 have a rule, 2 workers, 4 kinds of page, 2 instants | is the cache true and whole, does the run end | 471 000 |
| `audit_reload` | 1 link, 1 run, 2 audits | violated: can the next run load the report | |
| `store_dangling` | 2 tabs, 2 versions | violated: can the imported copy be booted from | |

Bounds. Links do not interact in the audit (every operator is a map over links), so
one link shows what any number does; the lifecycle run has two because a build
filters sets. Two confirmations are the least number that tells "in a row" from
"ever"; a third audit confirms past the threshold a link that a death left
untombstoned. `MaxAudits` is the only bound that the models
have and the code does not: it bounds the history `seen` in the guard of `Audit`. Two
workers and three links make a worker take a second link, and two workers compete
for one. Three versions leave a leftover beside the old and the new version. Three publications let
the file change before, between and after the two stats of one request; `MaxPublications`
bounds the guard of `Publish`. Three
calls are a search that is superseded, one that is awaited and an import or a forget;
`MaxCalls` bounds the guards that send a call. Two checks overtake each other, and the
instance has a form for one of them to be of; `Checks` and `Forms` bound what starts one. Four
redirects where the code follows five let a chain leave the rule's hosts, come back and be cut
off. A batch of two (`SEARCH_BATCH` is larger) puts three entries on two pages. Three entries are the least
number that need a chain; the eight shapes meet every criterion of `SameCourse` in both
directions, and fail each narrowly; the patterns have the canonical entry first and last,
ties of times in one and in two spellings, and an entry exported twice. Two accounts are enough
for one to make a mention of the other's link or to undo it; a third one restores a text after that. Three links with a
rule are one more than the workers; two instants (`MaxTime` bounds the guard of `Tick`) let an
entry become stale; the four bodies make `Extract` find nothing, an error alone, an
error before contents, and contents that are not fit. What
the bounds leave open is closed by the proofs.

Fairness is assumed in `AuditPool`, `Enrichment`, `CatalogMeta`, `CoursesPage` and `CatalogUpdates`. Weak fairness of the producer's steps and
of each worker says that a goroutine that can run does (the Go scheduler), and that
a request ends: every one runs under the client's timeout and the context. Nobody is
assumed to cancel. `audit_pool` does not check deadlock, because the call ends; that it
ends is `Terminates`; nor does `builder`, because a build ends. In `CatalogMeta` a goroutine that can run does, and `Lock` is
strongly fair because `sync.Mutex` hands itself to the longest waiter after a
millisecond; publications are not assumed to stop or to happen. In `CoursesPage` the
browser's timers run out and its messages are delivered; `Settles` only speaks of a user
who stops. In `CatalogUpdates` requests are answered or fail, awaits go on and the worker
works; that nothing fails, that the file stays and that the user takes every offer are
hypotheses of `OffersEnd`, not assumptions of the specification.

Each property of a passing run has a mutant in `PROJECT.json`: an operator named
`M_...` next to the definition it stands for, with a plausible mistake in it. The
specifications never use them; replacing the definition by its mutant makes TLC
find the property violated.

## What is proved

All proofs are in the `...Proofs` modules, for all values of the constants that
satisfy the stated assumptions (`AuditAssumption`, `CataloguesAssumption`,
`PoolAssumption`, `ClientAssumption`, `StoreAssumption`, `MetaAssumption`, `PageAssumption`,
`UpdatesAssumption`, `SearchAssumption`, `BuildsAssumption`, `TopicsAssumption`, `LexiconAssumption`, `EnrichmentAssumption`,
`NoEntryAssumption`). Some theorems state what no run checks any more because a stronger
property of the same run implies it: `TombstonesNeverShrink`, `HandedOutOnce`,
`ReportsAreComplete`, `CancelledStopsSoon`, and the type invariants.

* **Audit, any number of overlapping runs.** `TypeCorrect`, then
  `EvidenceCorrect`: the evidence invariant says that every report and every copy
  of one held by a run counts honestly and every tombstone in a file or in a run
  is proven. It must speak of the copies because a stale copy is what an
  overlapping run publishes and what a rollback restores. Its core are two lemmas about
  `MergeAuditResult` and `MergeEligibleAuditResults`. `CountsAlwaysHonest` and
  `TombstonesAlwaysProven` are its first two parts.
* **Audit, one run at a time** (`Sequential`: there is one run). `PublicationInv`
  says what a run knows of the files from the step that reads each to the step that
  replaces it; from it follow `PublicationIsAllOrNothing`, `NothingStaysOverdue`,
  `TombstonesNeverShrink` and the refinement `ImplementsLedger`.
* **Lifecycle, one run and one build.** `BuildsAreFiltered` and `DeadLinksStayGone`
  rest on `TombstonesNeverShrink` step by step: the filter of a build can only be
  too small, never name a link that is not tombstoned, and it contains everything
  that was dropped before.
* **Pool, any number of workers and links.** `HandedOutOnce` is the inductive
  invariant: a candidate below `next` is settled, held by exactly one worker or lost to
  the recorded error. `ReportsAreComplete`, `CancelledStopsSoon` and the refinement
  `ImplementsOnce` follow; `CondemnedOnlyByGet` has an invariant of its own.
* **HTTP client, any number of workers, any resolver and redirects.** `ClientConsistent` says
  of each request what it has under way: addresses only between lookup and dialling, a
  chain of hosts each of which the first one's rule allows. `OnlyPublicConnections` and
  `OnlyTheLinksAnswers` follow.
* **Store, any number of tabs**: `StoreTypeCorrect`, `RecordsAlwaysPaired`.
  **While one tab is used** (`OneTab`): `StoreConsistent`, whose core is that a pending prune is
  about the active version, then `SearchesTheStoredCopy`, `NothingStaleStays` and
  the refinement `ImplementsCopy`.
* **Search, any catalogues, queries, scores, filters and orders.** First what `handleSearch`
  returns: the comparison of field, title and identifier is a strict order of the candidates
  (`BeforeIsOrder`, empty texts and missing years included), so no two candidates have the same
  number of others before them, and as there are finitely many each place is taken once
  (`Places`, the pigeonhole of finite sets). `SearchInvHolds` is the invariant: whatever the page
  does, its list is the beginning, up to its offset, of what its query, filters and order find,
  and its total the length of that. `MatchOnceTheorem` follows; `FacetsTheorem` is about the
  catalogue alone, and needs that `normalizeText` applied twice is as applied once.

* **Metadata cache, any number of requests, contents and publications.**
  `RequestsConsistent` is the inductive invariant: the mutex is held by exactly the
  metadata requests that are inside, and what a request has read is the file in place
  as long as the stamp it noted is. From it `CacheAlwaysTellsTheFile` and the refinement
  `ImplementsView`, whose proof maps each step that answers to the abstract answer.
* **Page, any queries, copies, results and numbers of calls.** `PageInvariant` joins the
  types with `SearchInv`: at most one awaited call is a search of the present generation,
  there is one exactly while the page is loading, and a further batch is asked for at or
  beyond the offset. One lemma says for each way the queue changes that it keeps this;
  `OneSearchAtATime` and `BatchesStayInOrder` follow.
  `ListAlwaysAnswers` needs a second invariant, `ListInv`, which TLC checked first. Of the queue
  it says (`QueueInv`) that what is answered or given up is a beginning of it, that an answer is
  of the copy the worker still has unless a later call has changed it, and that after a forget
  nothing is found before an import. Of the list it says, with a copy (`ReadyInv`), that a call
  of unknown outcome is followed by a new search and that the list and the answer extending it
  are of one copy, which is the worker's unless the page is still to hear of a change; without a
  copy (`EmptyInv`), that nothing is shown and no search finds anything before an import.

* **Updates, any files and any number of checks and imports under way.** `UpdatesConsistent`:
  the offer at rest is part of the invariant because every step that changes the label starts a
  check or clears the offer; `Steady` follows an update begun in a quiet tab from the answer of its own
  check to its label: until then no form is open, because the panel of an empty list, the only other
  way to one, ends it; after that what was last heard is the file in place, whoever opens the form. `OfferIsRightAtRest` and `UpdatesAreLabelledRight`.

* **Catalogue build, any exports, side files and title rules.** The lemmas on the disjoint
  set come first: no climb meets two roots, `find` moves none, `union` moves the members of
  one root to the other. Then those on the passes: every union joins two entries of one
  component, and when all are made every pair of same courses is joined (`JobsSuffice`).
  `InvHolds` carries them through the build: `Rooted` (each climb ends, at an entry of the
  same component), `Progress` (a pass has joined all but its `todo`) and `Speakers` (a
  canonical entry hangs on its own root). `ClustersTheorem` and `DistinctTheorem` follow.
  Induction on numbers is not needed: a path is the least set closed under the parent,
  and the one fact about numbers, that a set of them has a least, is well-foundedness.

  For what is published, `CourseInvHolds` says of each pass after the clusters what it has made
  so far: each entry is what its accounts so far say together (`Collected`: it equals `Gathered`, which the
merge keeps account by account because the last word is the newest and the first one stays), no entry that was
  looked at precedes the one that speaks for its cluster (`Chosen`), and each course is exactly
  that of the entries assembled into it (`Assembling`), which needs that merging two courses of
  disjoint sets of entries gives the course of the union (`MergedCourses`). `WholeTheorem` is
  its last state read off; `NothingLostTheorem` joins it with `Collected`: the sources of a course are
  the merged entries, so a link of it is judged on what all exports say together.

* **Topics, any posts, texts and order of them.** `TopicsTheorem` and `CountsTheorem` rest on an
  invariant that ties each course to what the posts told so far say of it (`TopicsInv`), and on
  what `propagateAuthorTopics` does to one course (`Propagated`). That a second round changes
  nothing: of an author with a course still without a topic no topic was dominant, so none
  of the author's courses was changed, and none is dominant now.

* **Titles, any lexicon, rules file and title.** `RulesTakeEffect`: what `LoadTitleRules` accepts
  leaves nothing in the file that could protect a forced word, and no title a rule meets is
  left as it is.

  The other two are about what becomes of each token. Fields and addresses are told by the
  nearest space before and after (`FieldIs`, from the least element of a set again), and a
  mapping of positions that keeps the words and the marks between them keeps fields and
  addresses too (`DomainShifts`). `Cleanup` is such a mapping: the noise it strips is a
  beginning (`StrippedIs`), and `Spread` says where each later token goes when words are taken
  apart. Each protected occurrence of a word thus has a place of its own, still protected, in what
  `Cleanup` leaves, and `Rewrite` does not touch it there: `ProtectedTheorem`. For `IdempotentTheorem`, what `Rewrite` leaves is shown to have no noise left to strip and no word
  left to take apart (`CleanupOnce`), and no word that is still Latin and unprotected
  (`NormalizeTwice`).

* **Enrichment, any links, answers, clocks and number of workers.** First what `Extract` returns:
  that the occurrence tried first exists is again well-foundedness. `RunsConsistent` then
  says that each link that is due is in one place, the channel, one worker or one outcome
  (`OnePlace`), that without a signal none is lost (`NoneLost`), and that the file, the copy
  and the outcomes are true and in the order of time (`EntriesInv`). When all workers are
  done the channel must be empty and nobody holds a link, so the outcomes are those of
  all due links: `AlwaysPublishedWhole`. `FileOnlyAnswers` and `NothingEverForgotten` follow.

Only model-checked: the liveness properties `Settles`, `Terminates`, `Answered`, `Ends` and
`OffersEnd` (liveness under fairness is beyond the prover), and the two violated properties.
That the constants are what Go or the browser computes of real texts is assumed throughout,
most of all in `LexiconAssumption`. It says, beside how letters change case, that a
word to rewrite is of letters only, that a number is not itself an address, and that a run of underscores becomes one space between the pieces of its word.

## Overlapping runs and tabs

What holds for one run of the audit fails for two, by design of the code: it takes
no lock, so the run that finishes last writes back the tombstones it loaded at its
start, and a rollback restores a report that the other run has replaced since.
What still holds, and is proved, is that nothing false is ever recorded. In the
browser the same is true of two tabs, with one consequence that the page's own text
rules out, see below.

## Findings

* `audit_reload`: `Classify` keeps any HTTP status, `decodeLinkAuditResult` accepts
  100..599 only. One server that answers with, say, 999 makes the published report
  unloadable, and every later run fails until the file is removed.
* `store_dangling`: the prune of a tab deletes every version but its own. When
  another tab has activated a version since, it is that one that goes, and the next
  boot reports `CACHE_CORRUPT`.

## Not modelled

The frame of the server (routing, headers, rate limits, shutdown: configuration of the
framework), the landing page, the password tool. In modelled components: HTML entities and
invisible characters of titles, the scoring of MiniSearch, the validation of single fields
of a catalogue (it only refuses an import, before anything is stored), the detail pane and
the progress display of the page, the parsing of policies, bencode and JSON, and the inspection of a
single link, which the models have as sets of keys. `PROJECT.json` gives the reason for each.

## Plan

1. Audit, pool, store with their abstract specifications and proofs; `CatalogMeta`,
   `CoursesPage`, `Enrichment`, `CatalogBuild` with theirs (done).
2. `AuditClient`, `CatalogUpdates`, `TitleRules` with their proofs; `CatalogSearch`,
   `CatalogTopics` (done).
3. The invariants of the published courses, counts, search and titles proved (done).
4. Left: the detail pane; the build reading the enrichment cache, composed with
   `CatalogBuild`; a refinement of the build by what a reader of the exports may expect of it.
