----------------------------- MODULE CatalogSearch -----------------------------
(***************************************************************************)
(* The search of static/js/courses-search-worker.js (hydrateCatalog,       *)
(* handleSearch) and the filters, the order and the list of the page that  *)
(* asks it (static/js/courses.js).  A search is one step here; what comes  *)
(* of answers that are late or lost is in CoursesPage.                     *)
(*                                                                         *)
(* Names (of categories, formats, providers) are written in several ways:  *)
(* Normal is normalizeText.  Texts to sort by are ranks of the collator, 0 *)
(* for an empty one.  The collator tells any two identifiers apart.        *)
(***************************************************************************)
EXTENDS Integers, SequencesExt

CONSTANTS
  Names,    \* how categories, formats and providers are written
  Normal,   \* normalizeText on Names
  Service,  \* the category of entries that are not courses
  Catalogs, \* catalogues that were imported
  Queries,  \* what may be searched for; Null is the empty query
  Hits,     \* Queries -> identifiers -> score, 0 for none: primarySearch
  Near,     \* the same of fuzzySearch
  Long,     \* queries with a term of five characters
  Batch,    \* SEARCH_BATCH
  Null      \* no year, no filter, no query

Groups == {"categories", "formats", "providers"}

Entry ==
  [id : Nat, title : Nat, author : Nat, year : Int \cup {Null}, added : Nat,
   categories : Seq(Names), formats : Seq(Names), providers : Seq(Names), password : BOOLEAN]

ASSUME SearchAssumption ==
  /\ Normal \in [Names -> Names] /\ \A n \in Names : Normal[Normal[n]] = Normal[n]
  /\ \A c \in Catalogs :
       /\ c.entries \in Seq(Entry)
       /\ \A i, j \in DOMAIN c.entries : c.entries[i].id = c.entries[j].id => i = j
       \* One definition for a name, as validateDefinitions requires.
       /\ \A g \in {"categories", "formats"} : \A d, e \in c.definitions[g] :
            Normal[d.id] = Normal[e.id] => d = e
       /\ c.definitions["providers"] = {}
       /\ \A q \in Queries, i \in DOMAIN c.entries :
            Hits[q][c.entries[i].id] \in Nat /\ Near[q][c.entries[i].id] \in Nat
  /\ Null \notin Queries \cup Names /\ Null \notin BOOLEAN /\ Long \subseteq Queries
  /\ Batch \in Nat \ {0}

VARIABLES
  catalog, \* what was imported: the worker's runtime, and the page's facets
  filters, \* state.filters
  sort,    \* state.sort
  query,   \* state.query
  total,   \* state.total
  offset,  \* state.offset
  list     \* the entries in resultsList

searchVars == <<catalog, filters, sort, query, total, offset, list>>

-----------------------------------------------------------------------------
(* hydrateCatalog.                                                         *)

Keys(e, g) == {Normal[e[g][i]] : i \in DOMAIN e[g]}

\* isServiceEntry; the primary category is one of the categories.
VisibleEntries(c) == {e \in ToSet(c.entries) : Service \notin Keys(e, "categories")}

M_CountOfEverySpelling(c, g, key) ==
  FoldLeft(LAMBDA n, e : IF e \in VisibleEntries(c)
                           THEN n + Cardinality({i \in DOMAIN e[g] : Normal[e[g][i]] = key}) ELSE n,
           0, c.entries)

CountOf(c, g, key) == Cardinality({e \in VisibleEntries(c) : key \in Keys(e, g)})

\* buildFacetRecords: what the page offers to choose from, with the counts.
Facet(c, g) ==
  LET named(key) == {d \in c.definitions[g] : Normal[d.id] = key}
      keys == UNION {Keys(e, g) : e \in VisibleEntries(c)}
  IN  {[value |-> IF named(key) = {} THEN key ELSE (CHOOSE d \in named(key) : TRUE).id,
        count |-> CountOf(c, g, key)] :
         key \in {k \in keys : \A d \in named(k) : ~ d.hidden}}

YearFacet(c) ==
  {[value |-> y, count |-> Cardinality({e \in VisibleEntries(c) : e.year = y})] :
     y \in {e.year : e \in VisibleEntries(c)} \ {Null}}

WithPassword(c) == Cardinality({e \in VisibleEntries(c) : e.password})

-----------------------------------------------------------------------------
(* handleSearch.                                                           *)

NoFilters ==
  [categories |-> {}, formats |-> {}, providers |-> {}, year |-> Null, password |-> Null]

Intersects(keys, chosen) == chosen = {} \/ keys \cap chosen # {}

Matches(e, f) ==
  /\ \A g \in Groups : Intersects(Keys(e, g), {Normal[n] : n \in f[g]})
  /\ f.year # Null => e.year = f.year
  /\ f.password # Null => e.password = f.password

\* The scores of the entries found; a fuzzy search only where the other finds
\* nothing in the whole catalogue, whatever the filters.
Scores(c, q) ==
  LET visible == VisibleEntries(c)
      scored(hits) == {[entry |-> e, score |-> hits[q][e.id]] : e \in {e \in visible : hits[q][e.id] > 0}}
  IN  IF q = Null THEN {[entry |-> e, score |-> 0] : e \in visible}
      ELSE IF scored(Hits) = {} /\ q \in Long THEN scored(Near)
      ELSE scored(Hits)

Sign(n) == IF n > 0 THEN 1 ELSE IF n < 0 THEN -1 ELSE 0

\* compareNullable: an entry without the text or the number comes last.
CompareNullable(a, b, missing, direction) ==
  IF a = missing /\ b = missing THEN 0
  ELSE IF a = missing THEN 1
  ELSE IF b = missing THEN -1
  ELSE Sign(a - b) * direction

FieldOrder(a, b, s) ==
  LET direction == IF s.direction = "asc" THEN 1 ELSE -1
  IN  CASE s.field = "relevance" -> Sign(a.score - b.score) * direction
        [] s.field = "title" -> CompareNullable(a.entry.title, b.entry.title, 0, direction)
        [] s.field = "author" -> CompareNullable(a.entry.author, b.entry.author, 0, direction)
        [] s.field = "year" -> CompareNullable(a.entry.year, b.entry.year, Null, direction)
        [] s.field = "added_at" -> CompareNullable(a.entry.added, b.entry.added, Null, direction)

\* compareCandidates < 0.
Before(a, b, s) ==
  LET order == << FieldOrder(a, b, s), Sign(a.entry.title - b.entry.title),
                  Sign(a.entry.id - b.entry.id) >>
  IN  \E i \in 1..3 : order[i] = -1 /\ \A j \in 1..(i - 1) : order[j] = 0

Candidates(c, q, f) == {a \in Scores(c, q) : Matches(a.entry, f)}

\* How many of the candidates come before a.
Ahead(a, candidates, s) == Cardinality({b \in candidates : Before(b, a, s)})

\* candidates.sort(compareCandidates): first the one that none comes before, then
\* the one that one comes before, and so on.
Found(c, q, f, s) ==
  LET candidates == Candidates(c, q, f)
  IN  [i \in 1..Cardinality(candidates) |->
         (CHOOSE a \in candidates : Ahead(a, candidates, s) = i - 1).entry]

Lesser(a, b) == IF a < b THEN a ELSE b

M_PageFromLastShown(found, at) ==
  SubSeq(found, IF at = 0 THEN 1 ELSE at, Lesser(at + Batch, Len(found)))

\* candidates.slice(offset, offset + limit).
Page(found, at) == SubSeq(found, at + 1, Lesser(at + Batch, Len(found)))

-----------------------------------------------------------------------------
(* The page.                                                               *)

\* syncAutomaticSort.
Automatic(s, q) ==
  IF s.explicit THEN s
  ELSE [field |-> IF q = Null THEN "added_at" ELSE "relevance", direction |-> "desc", explicit |-> FALSE]

\* runSearch(true), once catalog, filters and query are what they are to be.
SearchAnew(s) ==
  /\ sort' = Automatic(s, query')
  /\ LET found == Found(catalog', query', filters', sort')
     IN  /\ total' = Len(found)
         /\ list' = Page(found, 0)
         /\ offset' = Len(list')

ByAdded == [field |-> "added_at", direction |-> "desc", explicit |-> FALSE]

SearchInit ==
  /\ catalog \in Catalogs
  /\ filters = NoFilters
  /\ sort = ByAdded
  /\ query = Null
  /\ LET found == Found(catalog, query, filters, sort)
     IN  /\ total = Len(found)
         /\ list = Page(found, 0)
         /\ offset = Len(list)

\* The facets are rendered anew, the filters stay.
Import(c) ==
  /\ catalog' = c
  /\ UNCHANGED <<filters, query>>
  /\ SearchAnew(sort)

Ask(q) ==
  /\ q # query
  /\ query' = q
  /\ UNCHANGED <<catalog, filters>>
  /\ SearchAnew(sort)

SetFilters(f) ==
  /\ filters' = f
  /\ UNCHANGED <<catalog, query>>
  /\ SearchAnew(sort)

\* A box that is checked or unchecked.
Check(g, r) ==
  /\ r \in Facet(catalog, g)
  /\ SetFilters([filters EXCEPT ![g] =
       IF r.value \in @ THEN @ \ {r.value} ELSE @ \cup {r.value}])

\* One source or all of them.
PickProvider(values) ==
  /\ values = {} \/ \E r \in Facet(catalog, "providers") : values = {r.value}
  /\ SetFilters([filters EXCEPT !.providers = values])

PickYear(y) ==
  /\ y = Null \/ \E r \in YearFacet(catalog) : y = r.value
  /\ SetFilters([filters EXCEPT !.year = y])

CheckPassword == SetFilters([filters EXCEPT !.password = IF @ = TRUE THEN Null ELSE TRUE])

\* The chip of an active filter is taken off.
TakeOff(g, value) ==
  /\ value \in filters[g]
  /\ SetFilters([filters EXCEPT ![g] = @ \ {value}])

TakeOffYear == filters.year # Null /\ SetFilters([filters EXCEPT !.year = Null])

Reset == filters # NoFilters /\ SetFilters(NoFilters)

OrderBy(field) ==
  /\ UNCHANGED <<catalog, filters, query>>
  /\ SearchAnew([field |-> field, explicit |-> TRUE,
                 direction |-> IF field \in {"title", "author"} THEN "asc" ELSE "desc"])

Turn ==
  /\ UNCHANGED <<catalog, filters, query>>
  /\ SearchAnew([sort EXCEPT !.explicit = TRUE, !.direction = IF @ = "asc" THEN "desc" ELSE "asc"])

\* The end of the list comes into view: runSearch(false).
More ==
  /\ offset < total
  /\ LET found == Found(catalog, query, filters, sort)
     IN  /\ total' = Len(found)
         /\ list' = list \o Page(found, offset)
         /\ offset' = offset + Len(Page(found, offset))
  /\ UNCHANGED <<catalog, filters, sort, query>>

Fields == {"relevance", "title", "author", "year", "added_at"}

SearchNext ==
  \/ \E c \in Catalogs : Import(c)
  \/ \E q \in Queries \cup {Null} : Ask(q)
  \/ \E g \in {"categories", "formats"}, r \in UNION {Facet(catalog, h) : h \in Groups} : Check(g, r)
  \/ \E values \in {{}} \cup {{n} : n \in Names} : PickProvider(values)
  \/ \E y \in {e.year : e \in ToSet(catalog.entries)} \cup {Null} : PickYear(y)
  \/ CheckPassword
  \/ \E g \in Groups, value \in Names : TakeOff(g, value)
  \/ TakeOffYear
  \/ Reset
  \/ \E field \in Fields : OrderBy(field)
  \/ Turn
  \/ More

SearchSpec == SearchInit /\ [][SearchNext]_searchVars

-----------------------------------------------------------------------------
(* Properties.                                                             *)

\* The number beside a value is the length of the list one gets by choosing that
\* value and nothing else, however the catalogue writes it (hydrateCatalog counts
\* normalized names, buildFacetRecords shows the name of the definition, and
\* normalizeFilters gets that name back).
FacetsTellTheTotals ==
  LET Total(f) == Cardinality(Candidates(catalog, Null, f))
  IN  /\ \A g \in Groups, r \in UNION {Facet(catalog, h) : h \in Groups} :
           r \in Facet(catalog, g) => Total([NoFilters EXCEPT ![g] = {r.value}]) = r.count
      /\ \A r \in YearFacet(catalog) : Total([NoFilters EXCEPT !.year = r.value]) = r.count
      /\ Total([NoFilters EXCEPT !.password = TRUE]) = WithPassword(catalog)

\* Scrolling shows every match once: no entry is in the list twice, and at the
\* end of the list all of the promised total is there (handleSearch, runSearch).
EveryMatchOnce ==
  /\ IsInjective(list)
  /\ offset >= total => ToSet(list) = {a.entry : a \in Candidates(catalog, query, filters)}

================================================================================
