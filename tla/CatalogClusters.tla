--------------------------- MODULE CatalogClusters ---------------------------
(***************************************************************************)
(* The first half of the catalogue build: the exports are merged, then     *)
(* entries that are the same course are united in a disjoint set, in four  *)
(* passes, and each cluster gets its canonical entry                       *)
(* (mergeSourceExports and the first half of buildGzipFromSource).         *)
(***************************************************************************)
EXTENDS CatalogEntries

CONSTANT Builds     \* what a build may be started with

Build == [exports: Seq(Seq(Entry) \ {<<>>}) \ {<<>>}, dead: SUBSET Keys,
          suppressed: SUBSET (Nat \X Keys), torrents: SUBSET (Messages \X (Keys \ Unsafe))]

(* Every export has entries, decodeSourceExport sees to it.                   *)
ASSUME BuildsAssumption == Builds \subseteq Build

VARIABLES
    build,      \* exports and side files
    read,       \* which entry of which export is merged next
    entries,    \* the merged entries
    pass,
    parent, rank,   \* the disjoint set
    todo, group,    \* the unions left in this pass, and the group of the last one
    next,           \* the entry that the canonical or the assembling pass is at
    canonical       \* root of a cluster -> its canonical entry so far

clusterVars == <<build, read, entries, pass, parent, rank, todo, group, next, canonical>>

Index == 1..Len(entries)

Passes == <<"identity", "repaired", "shared", "normalized", "canonical">>

-----------------------------------------------------------------------------
Put(f, d, e) == [x \in DOMAIN f \cup {d} |-> IF x = d THEN e ELSE f[x]]

(* The disjoint set, for a parent function p.                                 *)

(* The entries that a climb from i visits.                                    *)
Path(p, i) ==
    {j \in DOMAIN p : \A S \in SUBSET DOMAIN p :
        i \in S /\ (\A x \in S : p[x] \in S) => j \in S}

Root(p, i) == CHOOSE r \in Path(p, i) : p[r] = r

(* What find leaves behind: everything it visited hangs on the root.          *)
Compressed(p, i) == [j \in DOMAIN p |-> IF j \in Path(p, i) THEN Root(p, i) ELSE p[j]]

(* union: the roots of both, the one of less rank hung on the other.          *)
Union(left, right) ==
    LET p  == Compressed(Compressed(parent, left), right)
        lr == Root(parent, left)
        rr == Root(parent, right)
        top == IF rank[lr] < rank[rr] THEN rr ELSE lr
        low == IF rank[lr] < rank[rr] THEN lr ELSE rr
    IN  IF lr = rr THEN parent' = p /\ rank' = rank
        ELSE /\ parent' = [p EXCEPT ![low] = top]
             /\ rank' = IF rank[lr] = rank[rr]
                        THEN [rank EXCEPT ![top] = (@ + 1) % 256] ELSE rank

-----------------------------------------------------------------------------
(* The unions of each pass.  Those of one group are made in the order of their
   steps; the groups are the keys of a Go map and come in any order.          *)

Trusted(i) == TrustedKeys(build, entries[i])

(* Mutant: the title as it stands, unclosed year and all.                     *)
M_IdentityOwner(i) ==
    Min({j \in 1..i : /\ entries[j].title.words = entries[i].title.words
                      /\ entries[j].author = entries[i].author
                      /\ entries[j].year = entries[i].year})

IdentityOwner(i) == Min({j \in 1..i : Identity(entries[j]) = Identity(entries[i])})

TitleLinkOwner(i, k) ==
    Min({j \in 1..i : entries[j].title.words = entries[i].title.words /\ k \in Trusted(j)})

IdentityJobs ==
    {[group |-> 0, step |-> 2 * i, left |-> i, right |-> IdentityOwner(i)] : i \in Index}
    \cup
    UNION {{[group |-> 0, step |-> 2 * i + 1, left |-> i, right |-> TitleLinkOwner(i, k)] :
                k \in Trusted(i)} : i \in Index}

(* Mutant: looked up in the first loop, when only earlier entries are known.   *)
M_RepairedJobs ==
    LET Owners(i) == {j \in 1..i : Identity(entries[j]) = RepairedIdentity(entries[i])}
    IN  {[group |-> 0, step |-> i, left |-> i, right |-> Min(Owners(i))] :
            i \in {x \in Index : Repairable(entries[x]) /\ Owners(x) # {}}}

RepairedJobs ==
    LET Owners(i) == {j \in Index : Identity(entries[j]) = RepairedIdentity(entries[i])}
    IN  {[group |-> 0, step |-> i, left |-> i, right |-> Min(Owners(i))] :
            i \in {x \in Index : Repairable(entries[x]) /\ Owners(x) # {}}}

SharedURLJobs ==
    LET Pairs(k) == {ij \in Index \X Index :
            /\ ij[1] < ij[2]
            /\ k \in Trusted(ij[1]) \cap Trusted(ij[2])
            /\ CompatibleYears(entries[ij[1]], entries[ij[2]])
            /\ WholeTokenTitleContains(entries[ij[1]].title.words, entries[ij[2]].title.words)}
    IN  UNION {{[group |-> k, step |-> ij[1] * Len(entries) + ij[2], left |-> ij[1], right |-> ij[2]] :
                    ij \in Pairs(k)} : k \in Keys}

NormalizedJobs ==
    LET Owners(i) == {j \in Index : DisplayIdentity(entries[j]) = DisplayIdentity(entries[i])}
    IN  {[group |-> Min(Owners(i)), step |-> i, left |-> Min(Owners(i)), right |-> i] :
            i \in {x \in Index : \E j \in Owners(x) : Renamed(entries[j])}}

Jobs(p) == CASE p = "identity"   -> IdentityJobs
             [] p = "repaired"   -> RepairedJobs
             [] p = "shared"     -> SharedURLJobs
             [] p = "normalized" -> NormalizedJobs
             [] OTHER            -> {}

-----------------------------------------------------------------------------
ClustersInit ==
    /\ build \in Builds
    /\ read = <<2, 1>>
    /\ entries = build.exports[1]
    /\ pass = "merge"
    /\ parent = <<>> /\ rank = <<>>
    /\ todo = {} /\ group = 0
    /\ next = 1
    /\ canonical = <<>>

(* One entry of a later export is merged into those before it.                *)
MergeEntry ==
    /\ pass = "merge"
    /\ read[1] <= Len(build.exports)
    /\ LET export == build.exports[read[1]]
           e == export[read[2]]
           known == {i \in Index : entries[i].id = e.id}
       IN  /\ entries' = IF known = {} THEN Append(entries, e)
                         ELSE [entries EXCEPT ![Max(known)] = MergeSourceEntry(@, e)]
           /\ read' = IF read[2] < Len(export) THEN <<read[1], read[2] + 1>>
                      ELSE <<read[1] + 1, 1>>
    /\ UNCHANGED <<build, pass, parent, rank, todo, group, next, canonical>>

StartClustering ==
    /\ pass = "merge"
    /\ read[1] > Len(build.exports)
    /\ pass' = "identity"
    /\ parent' = [i \in Index |-> i]
    /\ rank' = [i \in Index |-> 0]
    /\ todo' = IdentityJobs
    /\ UNCHANGED <<build, read, entries, group, next, canonical>>

(* The next union of the pass.                                                *)
Unite ==
    \E job \in todo :
        /\ \A other \in todo :
            /\ other.group = group => job.group = group
            /\ other.group = job.group => job.step <= other.step
        /\ Union(job.left, job.right)
        /\ todo' = todo \ {job}
        /\ group' = job.group
        /\ UNCHANGED <<build, read, entries, pass, next, canonical>>

NextPass ==
    /\ todo = {}
    /\ \E n \in 1..4 :
        /\ pass = Passes[n]
        /\ pass' = Passes[n + 1]
        /\ todo' = Jobs(pass')
    /\ UNCHANGED <<build, read, entries, parent, rank, group, next, canonical>>

(* Is entry i to speak for a cluster rather than j?                           *)
Precedes(i, j) ==
    \/ TimestampBefore(entries[i].added, entries[j].added)
    \/ entries[i].added = entries[j].added /\ entries[i].id < entries[j].id

ConsiderCanonical ==
    /\ pass = "canonical" /\ next \in Index
    /\ LET root == Root(parent, next)
       IN  canonical' = IF root \in DOMAIN canonical /\ ~Precedes(next, canonical[root])
                        THEN canonical ELSE Put(canonical, root, next)
    /\ parent' = Compressed(parent, next)
    /\ next' = next + 1
    /\ UNCHANGED <<build, read, entries, pass, rank, todo, group>>

StartAssembling ==
    /\ pass = "canonical" /\ next \notin Index
    /\ pass' = "assemble"
    /\ next' = 1
    /\ UNCHANGED <<build, read, entries, parent, rank, todo, group, canonical>>

ClustersNext ==
    \/ MergeEntry \/ StartClustering \/ Unite \/ NextPass
    \/ ConsiderCanonical \/ StartAssembling

ClustersSpec == ClustersInit /\ [][ClustersNext]_clusterVars

-----------------------------------------------------------------------------
(* The entries that a chain of entries, each the same course as the one before,
   leads to from each.                                                        *)
Component ==
    LET Same == {xy \in Index \X Index : SameCourse(build, entries[xy[1]], entries[xy[2]])}
        Closed == {S \in SUBSET Index : \A xy \in Same : xy[1] \in S => xy[2] \in S}
    IN  [i \in Index |-> {j \in Index : \A S \in Closed : i \in S => j \in S}]
=============================================================================
