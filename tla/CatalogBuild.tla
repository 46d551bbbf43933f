----------------------------- MODULE CatalogBuild -----------------------------
(***************************************************************************)
(* The whole catalogue build: CatalogClusters, then the second half of     *)
(* buildGzipFromSource, which makes a course of every cluster, drops the   *)
(* courses without links and hands out the rest.                           *)
(***************************************************************************)
EXTENDS CatalogClusters

VARIABLES
    courses,    \* root of a cluster -> its course so far
    catalogue,  \* what is published
    removed     \* the courses dropped for having no links, counted

vars == <<clusterVars, courses, catalogue, removed>>

Init == ClustersInit /\ courses = <<>> /\ catalogue = {} /\ removed = 0

Cluster == ClustersNext /\ UNCHANGED <<courses, catalogue, removed>>

(* The entry stands up to the checks, but for that of its message being there. *)
Sound(i) ==
    /\ entries[i].message # NoMessage
    /\ \A j \in 1..(i - 1) : entries[j].id # entries[i].id
    /\ ~entries[i].title.blank
    /\ entries[i].added # NoTime /\ entries[i].added.instant # 0

(* The course that entry i alone would make.                                  *)
Candidate(i, identity) ==
    [identity |-> identity,
     first    |-> entries[i].added,
     last     |-> entries[i].added,
     links    |-> EntryLinks(build, entries[i]),
     sources  |-> <<entries[i].id>>]

MergeCatalogEntry(target, source) ==
    [target EXCEPT
        !.first   = IF TimestampBefore(source.first, @) THEN source.first ELSE @,
        !.last    = IF TimestampBefore(@, source.last) THEN source.last ELSE @,
        !.links   = MergeLinks(@, source.links),
        !.sources = @ \o source.sources]

(* Mutant: every entry joins the course that is there, also the canonical one. *)
M_Assemble ==
    /\ pass = "assemble" /\ next \in Index /\ Sound(next)
    /\ LET root == Root(parent, next)
           candidate == Candidate(next, Identity(entries[canonical[root]]))
           joined == IF root \notin DOMAIN courses THEN candidate
                     ELSE MergeCatalogEntry(courses[root], candidate)
       IN  courses' = Put(courses, root, joined)
    /\ parent' = Compressed(parent, next)
    /\ next' = next + 1
    /\ UNCHANGED <<build, read, entries, pass, rank, todo, group, canonical, catalogue, removed>>

(* The next entry joins the course of its cluster, under it unless it is the
   canonical one.                                                             *)
Assemble ==
    /\ pass = "assemble" /\ next \in Index /\ Sound(next)
    /\ LET root == Root(parent, next)
           candidate == Candidate(next, Identity(entries[canonical[root]]))
           joined == IF root \notin DOMAIN courses THEN candidate
                     ELSE IF next = canonical[root]
                     THEN MergeCatalogEntry(candidate, courses[root])
                     ELSE MergeCatalogEntry(courses[root], candidate)
       IN  courses' = Put(courses, root, joined)
    /\ parent' = Compressed(parent, next)
    /\ next' = next + 1
    /\ UNCHANGED <<build, read, entries, pass, rank, todo, group, canonical, catalogue, removed>>

(* One bad entry fails the build.                                             *)
Reject ==
    /\ pass = "assemble" /\ next \in Index /\ ~Sound(next)
    /\ pass' = "failed"
    /\ UNCHANGED <<build, read, entries, parent, rank, todo, group, next, canonical,
                   courses, catalogue, removed>>

Linked(c) == DOMAIN c.links # {}

(* removeEntriesWithoutLinks and the output of what is left.                  *)
Publish ==
    /\ pass = "assemble" /\ next \notin Index
    /\ pass' = "done"
    /\ catalogue' = {courses[r] : r \in {x \in DOMAIN courses : Linked(courses[x])}}
    /\ removed' = Cardinality({x \in DOMAIN courses : ~Linked(courses[x])})
    /\ UNCHANGED <<build, read, entries, parent, rank, todo, group, next, canonical, courses>>

Next == Cluster \/ Assemble \/ Reject \/ Publish

Spec == Init /\ [][Next]_vars

-----------------------------------------------------------------------------
TypeOK ==
    /\ build \in Build
    /\ entries \in Seq(Entry)
    /\ pass \in {Passes[n] : n \in DOMAIN Passes} \cup {"merge", "assemble", "failed", "done"}
    /\ pass # "merge" => parent \in [Index -> Index] /\ rank \in [Index -> 0..255]
    /\ \A job \in todo : job.left \in Index /\ job.right \in Index
    /\ next \in 1..(Len(entries) + 1)
    /\ DOMAIN canonical \subseteq Index /\ DOMAIN courses \subseteq DOMAIN canonical

(* The clusters are the components: at any time two entries hang on one root
   only if a chain of same courses joins them, and once the passes are over
   whenever one does, in whatever order the maps were walked; and every climb
   ends at a root.                                                            *)
ClustersAreComponents ==
    pass # "merge" =>
        LET roots == [i \in Index |-> Root(parent, i)]
        IN  \A i \in Index :
            LET cluster == {j \in Index : roots[j] = roots[i]}
            IN  /\ parent[roots[i]] = roots[i]
                /\ cluster \subseteq Component[i]
                /\ pass \notin {Passes[n] : n \in 1..4} => Component[i] \subseteq cluster

(* A course has every entry of its cluster as a source, once, bears the
   identity of one that none of them precedes, and where that one has a label
   for a link it is the label of the course; it counts from the earliest entry
   to the latest.                                                             *)
CoursesAreWhole ==
    pass = "done" =>
        \A r \in DOMAIN courses :
            LET members == {i \in Index : Root(parent, i) = r}
                c == courses[r]
                speaker == entries[canonical[r]]
            IN  /\ ToSet(c.sources) = {entries[i].id : i \in members}
                /\ Len(c.sources) = Cardinality(members)
                /\ canonical[r] \in members
                /\ c.identity = Identity(speaker)
                /\ \A k \in DOMAIN EntryLinks(build, speaker) :
                     EntryLinks(build, speaker)[k].label \in {NoLabel, c.links[k].label}
                /\ \A i \in members :
                     /\ ~TimestampBefore(entries[i].added, c.first)
                     /\ ~TimestampBefore(c.last, entries[i].added)
                     /\ ~TimestampBefore(entries[i].added, speaker.added)
                     /\ entries[i].added = speaker.added => entries[i].id >= speaker.id

(* No two courses have one identity, and so one id, which is what the page and
   the search index know a course by: the error "course identity collision" is
   about the hash only.                                                       *)
CoursesAreDistinct ==
    \A r, s \in DOMAIN courses : courses[r].identity = courses[s].identity => r = s

-----------------------------------------------------------------------------
(* What the exports together say of an entry: the reference for the merge, which
   looks at all accounts of it at once.  An account is <<export, place in it>>. *)

Accounts(b) == UNION {{<<x, y>> : y \in DOMAIN b.exports[x]} : x \in DOMAIN b.exports}

Account(b, p) == b.exports[p[1]][p[2]]

Earlier(p, q) == p[1] < q[1] \/ (p[1] = q[1] /\ p[2] < q[2])

Earliest(P) == CHOOSE p \in P : \A q \in P \ {p} : Earlier(p, q)
Latest(P) == CHOOSE p \in P : \A q \in P \ {p} : Earlier(q, p)

(* The account of P that counts, S being those of them that say something.    *)
LastWord(P, S) == IF S = {} THEN Earliest(P) ELSE Latest(S)
FirstWord(P, S) == IF S = {} THEN Earliest(P) ELSE Earliest(S)

GatheredLink(b, Q, k) ==
    LET Link(p) == Account(b, p).links[k]
    IN  [primary |-> \E p \in Q : Link(p).primary,
         label   |-> Link(FirstWord(Q, {p \in Q : Link(p).label # NoLabel})).label]

GatheredOrigin(b, Q, k) ==
    LET From(p) == Account(b, p).origins[k]
    IN  [firm   |-> From(Earliest(Q)).firm,
         from   |-> From(FirstWord(Q, {p \in Q : From(p).from # ""})).from,
         places |-> UNION {From(p).places : p \in Q}]

Gathered(b, P) ==
    LET Said(p)  == Account(b, p)
        credited == LastWord(P, {p \in P : ~Said(p).credit.blank})
        keys     == UNION {DOMAIN Said(p).links : p \in P}
        With(k)  == {p \in P : k \in DOMAIN Said(p).links}
    IN  [id      |-> Said(Earliest(P)).id,
         message |-> Said(LastWord(P, {p \in P : Said(p).message # NoMessage})).message,
         title   |-> Said(LastWord(P, {p \in P : ~Said(p).title.blank})).title,
         credit  |-> Said(credited).credit,
         author  |-> Said(credited).author,
         raw     |-> Said(LastWord(P, {p \in P : ~Said(p).raw.blank})).raw,
         year    |-> Said(LastWord(P, {p \in P : Said(p).year # NoYear})).year,
         added   |-> Said(LastWord(P, {p \in P : Said(p).added # NoTime})).added,
         links   |-> [k \in keys |-> GatheredLink(b, With(k), k)],
         origins |-> [k \in keys |-> GatheredOrigin(b, With(k), k)]]

(* From end to end: a link that any export had, or the torrent of the message
   that counts, is in a course that names the entry as a source, unless a side
   file excludes it or all that the exports together say makes it a mere mention;
   it is primary if any export had it so.  And nothing else is published: each
   link of a course is one of these, of one of its sources.                   *)
NothingLostNothingDead ==
    pass = "done" =>
        LET ids  == {Account(build, p).id : p \in Accounts(build)}
            said == [n \in ids |->
                        Gathered(build, {p \in Accounts(build) : Account(build, p).id = n})]
            Due(n, k) ==
                /\ ~Excluded(build, said[n], k)
                /\ \/ k \in TorrentKeys(build, said[n])
                   \/ k \in DOMAIN said[n].links /\ ActionableSourceLink(said[n], k)
        IN  /\ \A n \in ids : \A k \in Keys : Due(n, k) =>
                 \E c \in catalogue :
                    /\ n \in ToSet(c.sources)
                    /\ k \in DOMAIN c.links
                    /\ k \in DOMAIN said[n].links /\ said[n].links[k].primary => c.links[k].primary
            /\ \A c \in catalogue :
                 /\ Linked(c)
                 /\ \A k \in DOMAIN c.links : \E n \in ids : n \in ToSet(c.sources) /\ Due(n, k)
=============================================================================
