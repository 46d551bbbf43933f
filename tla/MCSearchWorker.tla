----------------------------- MODULE MCSearchWorker -----------------------------
(***************************************************************************)
(* An instance of the two halves of the search worker for TLC: what it     *)
(* stores (CoursesStore) and what it finds in it (CatalogSearch).  They    *)
(* share no state but the catalogue, so a behaviour is of the one or of    *)
(* the other.                                                              *)
(***************************************************************************)
EXTENDS MCCoursesStore, CatalogSearch

VARIABLE part

storeVars == vars

Nothing == [entries |-> << >>, definitions |-> [g \in Groups |-> {}]]

NoSearch ==
  /\ catalog = Nothing /\ filters = NoFilters /\ sort = ByAdded /\ query = Null
  /\ total = 0 /\ offset = 0 /\ list = << >>

WorkerInit ==
  \/ part = "store" /\ Init /\ NoSearch
  \/ part = "search" /\ SearchInit /\ Init /\ users = Tabs

WorkerNext ==
  /\ UNCHANGED part
  /\ \/ part = "store" /\ Next /\ UNCHANGED searchVars
     \/ part = "search" /\ SearchNext /\ UNCHANGED storeVars

WorkerSpec == WorkerInit /\ [][WorkerNext]_<<part, storeVars, searchVars>>

-----------------------------------------------------------------------------
MCNames == {"video", "Video", "text", "service", "Service", "disk"}
MCNormal == [n \in MCNames |-> CASE n = "Video" -> "video"
                                 [] n = "Service" -> "service"
                                 [] OTHER -> n]

\* Three entries: names written in two ways and twice, no author, no year, a
\* service entry that also has a category.
Course(id, title, author, year, categories, providers, password) ==
  [id |-> id, title |-> title, author |-> author, year |-> year, added |-> id % 2,
   categories |-> categories, formats |-> << "text" >>, providers |-> providers,
   password |-> password]

Firsts ==
  {Course(1, 1, 0, 7, << "Video", "video" >>, << "disk", "disk" >>, TRUE),
   Course(1, 1, 2, Null, << "video" >>, << >>, TRUE)}
Seconds ==
  {Course(2, 1, 1, Null, << "video", "text" >>, << "disk" >>, FALSE),
   Course(2, 1, 1, 8, << "text" >>, << "disk" >>, TRUE)}
Thirds == {Course(3, 2, 0, 7, << "text", "Service" >>, << "disk" >>, TRUE),
           Course(3, 2, 0, 7, << "Video" >>, << "disk" >>, FALSE)}

\* A catalogue with a service entry names nothing, another one names a category
\* in one of the ways it is written and hides the other.
MCDefinitions(c) ==
  [categories |-> IF "Service" \in ToSet(c.categories) THEN {}
                  ELSE {[id |-> "Video", hidden |-> FALSE], [id |-> "text", hidden |-> TRUE]},
   formats |-> {[id |-> "text", hidden |-> TRUE]}, providers |-> {}]

MCCatalogs ==
  {[entries |-> << a, b, c >>, definitions |-> MCDefinitions(c)] :
     a \in Firsts, b \in Seconds, c \in Thirds}

MCQueries == {"all", "typo"}
MCHits == [q \in MCQueries |-> IF q = "all" THEN << 1, 2, 0 >> ELSE << 0, 0, 0 >>]
MCNear == [q \in MCQueries |-> << 1, 2, 3 >>]

================================================================================
