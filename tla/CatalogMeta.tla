------------------------------ MODULE CatalogMeta ------------------------------
(***************************************************************************)
(* internal/server/courses.go: GET /courses/api/meta answers from a cache  *)
(* behind a mutex, or by a stat, a read and a second stat of the catalogue *)
(* file; POST /courses/api/catalog stats and reads without the mutex.  The *)
(* file is replaced by a rename meanwhile, or taken away.                  *)
(*                                                                         *)
(* A stamp is what a stat tells about a file: size, modification time and  *)
(* identity.  A publication is a file written anew, so its stamp is one    *)
(* that no file had before; the code compares stamps for equality only.    *)
(***************************************************************************)
EXTENDS Naturals

CONSTANTS
  Requests,         \* requests the server works on at the same time
  Contents,         \* what the catalogue file may hold
  Served,           \* the contents that pass the gzip and schema checks
  MaxPublications,  \* bound: how often the file is replaced
  None

ASSUME MetaAssumption ==
  /\ Served \subseteq Contents
  /\ None \notin Contents
  /\ None \notin Requests
  /\ MaxPublications \in Nat

VARIABLES
  disk,      \* the file in place
  published, \* how many files there have been
  cache,     \* coursesMetaCache: the stamp it is valid for, the metadata
  holder,    \* who holds the mutex
  pc,        \* Requests -> where the request is
  kind,      \* Requests -> "meta" or "catalog"
  noted,     \* Requests -> stamp of the stat inside readCoursesCatalog
  got,       \* Requests -> contents read
  answer,    \* Requests -> the response
  disturbed  \* history: Requests -> did the file change since it came

locals == <<kind, noted, got>>
vars   == <<disk, published, cache, holder, pc, locals, answer, disturbed>>

-----------------------------------------------------------------------------
NoFile      == [content |-> None, stamp |-> 0]
Unavailable == [content |-> None, stamp |-> 0]
NoEntry     == [stamp |-> 0, meta |-> Unavailable]

Waiting == {"idle", "answered"}

Init ==
  /\ disk = NoFile
  /\ published = 0
  /\ cache = NoEntry
  /\ holder = None
  /\ pc = [r \in Requests |-> "idle"]
  /\ kind = [r \in Requests |-> "meta"]
  /\ noted = [r \in Requests |-> 0]
  /\ got = [r \in Requests |-> None]
  /\ answer = [r \in Requests |-> Unavailable]
  /\ disturbed = [r \in Requests |-> FALSE]

Goto(r, label) == pc' = [pc EXCEPT ![r] = label]

\* The response; the deferred Unlock of readCoursesCatalogMeta.
Respond(r, response) ==
  /\ Goto(r, "answered")
  /\ answer' = [answer EXCEPT ![r] = response]
  /\ holder' = IF holder = r THEN None ELSE holder

\* A request that passed the checks of its own (password, origin, limits).
Ask(r, k) ==
  /\ pc[r] \in Waiting
  /\ kind' = [kind EXCEPT ![r] = k]
  /\ Goto(r, IF k = "meta" THEN "lock" ELSE "stat")
  /\ noted' = [noted EXCEPT ![r] = 0]
  /\ got' = [got EXCEPT ![r] = None]
  /\ disturbed' = [disturbed EXCEPT ![r] = FALSE]
  /\ UNCHANGED <<disk, published, cache, holder, answer>>

Lock(r) ==
  /\ pc[r] = "lock"
  /\ holder = None
  /\ holder' = r
  /\ Goto(r, "probe")
  /\ UNCHANGED <<disk, published, cache, locals, answer, disturbed>>

\* The first stat and the look into the cache.
Probe(r) ==
  /\ pc[r] = "probe"
  /\ \/ disk = NoFile /\ Respond(r, Unavailable)
     \/ disk # NoFile /\ cache.stamp = disk.stamp /\ Respond(r, cache.meta)
     \/ /\ disk # NoFile /\ cache.stamp # disk.stamp
        /\ Goto(r, "stat")
        /\ UNCHANGED <<holder, answer>>
  /\ UNCHANGED <<disk, published, cache, locals, disturbed>>

\* readCoursesCatalog: the stat ...
Stat(r) ==
  /\ pc[r] = "stat"
  /\ \/ /\ disk = NoFile
        /\ Respond(r, Unavailable)
        /\ UNCHANGED noted
     \/ /\ disk # NoFile
        /\ noted' = [noted EXCEPT ![r] = disk.stamp]
        /\ Goto(r, "read")
        /\ UNCHANGED <<holder, answer>>
  /\ UNCHANGED <<disk, published, cache, kind, got, disturbed>>

\* ... and the read, which opens whatever file is in place by then, the checks
\* of what was read, and its digest.  The download is what was read.
Read(r) ==
  /\ pc[r] = "read"
  /\ \/ /\ disk.content \notin Served
        /\ Respond(r, Unavailable)
        /\ UNCHANGED got
     \/ /\ disk.content \in Served
        /\ kind[r] = "catalog"
        /\ Respond(r, [content |-> disk.content, stamp |-> 0])
        /\ UNCHANGED got
     \/ /\ disk.content \in Served
        /\ kind[r] = "meta"
        /\ got' = [got EXCEPT ![r] = disk.content]
        /\ Goto(r, "recheck")
        /\ UNCHANGED <<holder, answer>>
  /\ UNCHANGED <<disk, published, cache, kind, noted, disturbed>>

M_RecheckForThePresence(r) ==
  /\ pc[r] = "recheck"
  /\ \/ /\ disk = NoFile
        /\ Respond(r, Unavailable)
        /\ UNCHANGED cache
     \/ /\ disk # NoFile
        /\ LET meta == [content |-> got[r], stamp |-> noted[r]]
           IN  /\ cache' = [stamp |-> disk.stamp, meta |-> meta]
               /\ Respond(r, meta)
  /\ UNCHANGED <<disk, published, locals, disturbed>>

M_CacheBeforeTheRecheck(r) ==
  /\ pc[r] = "recheck"
  /\ cache' = [stamp |-> disk.stamp,
               meta |-> [content |-> got[r], stamp |-> noted[r]]]
  /\ \/ disk.stamp # noted[r] /\ Respond(r, Unavailable)
     \/ disk.stamp = noted[r] /\ Respond(r, cache'.meta)
  /\ UNCHANGED <<disk, published, locals, disturbed>>

M_RecheckKeepsTheLock(r) ==
  /\ pc[r] = "recheck"
  /\ \/ /\ disk.stamp # noted[r]
        /\ Goto(r, "answered")
        /\ answer' = [answer EXCEPT ![r] = Unavailable]
        /\ UNCHANGED <<cache, holder>>
     \/ /\ disk.stamp = noted[r]
        /\ LET meta == [content |-> got[r], stamp |-> noted[r]]
           IN  /\ cache' = [stamp |-> disk.stamp, meta |-> meta]
               /\ Respond(r, meta)
  /\ UNCHANGED <<disk, published, locals, disturbed>>

\* The second stat: the metadata are only kept, and only answered, when the
\* file in place is the one that was looked at before the read.
Recheck(r) ==
  /\ pc[r] = "recheck"
  /\ \/ /\ disk.stamp # noted[r]
        /\ Respond(r, Unavailable)
        /\ UNCHANGED cache
     \/ /\ disk.stamp = noted[r]
        /\ LET meta == [content |-> got[r], stamp |-> noted[r]]
           IN  /\ cache' = [stamp |-> disk.stamp, meta |-> meta]
               /\ Respond(r, meta)
  /\ UNCHANGED <<disk, published, locals, disturbed>>

\* courses-data (or anything else that renames a new file into place).
Publish ==
  /\ published < MaxPublications
  /\ published' = published + 1
  /\ \E c \in Contents : disk' = [content |-> c, stamp |-> published + 1]
  /\ disturbed' = [r \in Requests |-> TRUE]
  /\ UNCHANGED <<cache, holder, pc, locals, answer>>

Remove ==
  /\ disk # NoFile
  /\ disk' = NoFile
  /\ disturbed' = [r \in Requests |-> TRUE]
  /\ UNCHANGED <<published, cache, holder, pc, locals, answer>>

Work(r) == Lock(r) \/ Probe(r) \/ Stat(r) \/ Read(r) \/ Recheck(r)

Next ==
  \/ Publish \/ Remove
  \/ \E r \in Requests : Work(r) \/ \E k \in {"meta", "catalog"} : Ask(r, k)

\* A goroutine that can run does, and sync.Mutex lets no waiter starve (it goes
\* into its starvation mode after a millisecond).
Fairness == \A r \in Requests : WF_vars(Work(r)) /\ SF_vars(Lock(r))

Spec == Init /\ [][Next]_vars /\ Fairness

-----------------------------------------------------------------------------
(* Properties.                                                             *)

Response == [content : Contents \cup {None}, stamp : Nat]
Inside   == {"probe", "stat", "read", "recheck"}

TypeOK ==
  /\ disk \in Response
  /\ published \in Nat
  /\ cache \in [stamp : Nat, meta : Response]
  /\ holder \in Requests \cup {None}
  /\ pc \in [Requests -> Waiting \cup {"lock"} \cup Inside]
  /\ kind \in [Requests -> {"meta", "catalog"}]
  /\ noted \in [Requests -> Nat]
  /\ got \in [Requests -> Contents \cup {None}]
  /\ answer \in [Requests -> Response]
  /\ disturbed \in [Requests -> BOOLEAN]

\* While the cached stamp is that of the file in place, the cached metadata are
\* that file's: no replacement between the stats and the read leaves the digest
\* of one file under the stamp of another, to be served until the next
\* publication (readCoursesCatalogMeta).
CacheTellsTheFile ==
  cache.stamp # 0 /\ cache.stamp = disk.stamp =>
    disk.content \in Served /\ cache.meta = disk

\* The invariant behind it: what a request in progress knows is about the file
\* in place for as long as the stamp it noted is.
RequestsInv ==
  /\ disk.stamp = 0 <=> disk.content = None
  /\ disk.stamp <= published
  /\ cache.stamp <= published
  /\ \A r \in Requests :
       /\ holder = r <=> kind[r] = "meta" /\ pc[r] \in Inside
       /\ pc[r] = "lock" => kind[r] = "meta"
       /\ pc[r] \in {"probe", "recheck"} => kind[r] = "meta"
       /\ noted[r] <= published
       /\ pc[r] \in {"read", "recheck"} => noted[r] # 0
       /\ pc[r] \in {"read", "recheck"} /\ ~ disturbed[r] => noted[r] = disk.stamp
       /\ pc[r] = "recheck" /\ noted[r] = disk.stamp =>
            got[r] = disk.content /\ disk.content \in Served

\* Every request is answered: nobody keeps the mutex, whatever path an answer
\* takes (the deferred Unlock of readCoursesCatalogMeta).
Answered ==
  \A r \in Requests : pc[r] \notin Waiting ~> pc[r] \in Waiting

\* The endpoints look like one look at the file each.
View == INSTANCE CatalogView WITH
  asked <- [r \in Requests |-> IF pc[r] \in Waiting THEN "none" ELSE kind[r]]

ViewSpec == View!Spec

================================================================================
