-------------------------- MODULE CatalogBuildProofs --------------------------
(***************************************************************************)
(* Theorems about CatalogBuild, for any exports, side files and title      *)
(* rules; then about CatalogTopics, for any posts, and about TitleRules,    *)
(* for any lexicon, file and title.                                        *)
(***************************************************************************)
EXTENDS CatalogBuild, CatalogTopics, TitleRules, SequenceTheorems, FiniteSetTheorems, WellFoundedInduction,
        TLAPS

(* Every nonempty set of naturals has a least element, and Min finds it.      *)
LEMMA MinIsLeast ==
    ASSUME NEW T \in SUBSET Nat, T # {}
    PROVE  Min(T) \in T /\ \A n \in T : Min(T) <= n
<1> DEFINE R == {ss \in Nat \X Nat : ss[1] < ss[2]}
<1>1. IsWellFoundedOn(R, Nat)
  BY NatLessThanWellFounded DEF OpToRel
<1>2. \A a, b \in Nat : b < a => <<b, a>> \in R
  OBVIOUS
<1> HIDE DEF R
<1>3. PICK x \in T : \A y \in T : ~(<<y, x>> \in R)
  BY <1>1, WFMin
<1>4. ASSUME NEW y \in T PROVE x <= y
  <2>1. x \in Nat /\ y \in Nat /\ ~(y < x)
    BY <1>2, <1>3, Zenon
  <2> QED BY <2>1
<1> QED BY <1>4 DEF Min

-----------------------------------------------------------------------------
(* The disjoint set.                                                          *)

LEMMA PathSelf ==
    ASSUME NEW D, NEW p \in [D -> D], NEW i \in D
    PROVE  i \in Path(p, i) /\ Path(p, i) \subseteq D
BY DEF Path

LEMMA PathStep ==
    ASSUME NEW D, NEW p \in [D -> D], NEW i \in D, NEW j \in Path(p, i)
    PROVE  p[j] \in Path(p, i)
BY DEF Path

(* A set that a climb cannot leave holds the whole climb.                     *)
LEMMA PathMin ==
    ASSUME NEW D, NEW p \in [D -> D], NEW S \in SUBSET D, NEW i \in S,
           \A x \in S : p[x] \in S
    PROVE  Path(p, i) \subseteq S
BY DEF Path

(* Every climb meets a root.                                                  *)
Forest(D, p) == p \in [D -> D] /\ \A i \in D : \E r \in Path(p, i) : p[r] = r

(* No climb meets two.                                                        *)
LEMMA RootUnique ==
    ASSUME NEW D, NEW p \in [D -> D], NEW i \in D,
           NEW r \in Path(p, i), NEW s \in Path(p, i), p[r] = r, p[s] = s
    PROVE  r = s
<1> DEFINE S == {y \in D : r \in Path(p, y)}
<1>0. r \in D /\ s \in D
  BY PathSelf
<1>1. ASSUME NEW y \in S PROVE p[y] \in S
  <2>1. CASE y = r
    BY <2>1, <1>1
  <2>2. CASE y # r
    <3> DEFINE U == {y} \cup Path(p, p[y])
    <3>1. y \in D /\ p[y] \in D /\ U \in SUBSET D
      BY <1>1, PathSelf
    <3>2. \A x \in U : p[x] \in U
      BY <3>1, PathSelf, PathStep
    <3>3. Path(p, y) \subseteq U
      <4> HIDE DEF U
      <4>1. y \in U BY DEF U
      <4> QED BY <3>1, <3>2, <4>1, PathMin
    <3>4. r \in Path(p, p[y])
      BY <2>2, <3>3, <1>1
    <3> QED BY <3>1, <3>4
  <2> QED BY <2>1, <2>2
<1>2. i \in S
  BY DEF S
<1>3. Path(p, i) \subseteq S
  <2> HIDE DEF S
  <2>1. S \in SUBSET D BY DEF S
  <2> QED BY <1>1, <1>2, <2>1, PathMin
<1>4. r \in Path(p, s)
  BY <1>3
<1>5. Path(p, s) \subseteq {s}
  <2>1. {s} \in SUBSET D /\ \A x \in {s} : p[x] \in {s}
    BY <1>0
  <2> QED BY <2>1, PathMin
<1> QED BY <1>4, <1>5

LEMMA RootIsRoot ==
    ASSUME NEW D, NEW p, Forest(D, p), NEW i \in D
    PROVE  /\ Root(p, i) \in Path(p, i) /\ Root(p, i) \in D
           /\ p[Root(p, i)] = Root(p, i)
           /\ \A r \in Path(p, i) : p[r] = r => Root(p, i) = r
<1>1. p \in [D -> D] /\ \E r \in Path(p, i) : p[r] = r
  BY DEF Forest
<1>2. Root(p, i) \in Path(p, i) /\ p[Root(p, i)] = Root(p, i)
  BY <1>1 DEF Root
<1> QED BY <1>1, <1>2, PathSelf, RootUnique

(* All that lies on a climb has the root of the climb.                        *)
LEMMA RootOfPath ==
    ASSUME NEW D, NEW p, Forest(D, p), NEW i \in D, NEW j \in Path(p, i)
    PROVE  Root(p, j) = Root(p, i)
<1>0. p \in [D -> D]
  BY DEF Forest
<1>1. j \in D
  BY <1>0, PathSelf
<1>2. Path(p, j) \subseteq Path(p, i)
  <2>1. Path(p, i) \in SUBSET D /\ \A x \in Path(p, i) : p[x] \in Path(p, i)
    BY <1>0, PathSelf, PathStep
  <2> QED BY <1>0, <2>1, PathMin
<1> QED BY <1>1, <1>2, RootIsRoot

LEMMA RootOfParent ==
    ASSUME NEW D, NEW p, Forest(D, p), NEW i \in D
    PROVE  Root(p, p[i]) = Root(p, i) /\ p[i] \in D /\ (p[i] = i => Root(p, i) = i)
<1>0. p \in [D -> D]
  BY DEF Forest
<1>1. i \in Path(p, i) /\ p[i] \in Path(p, i)
  BY <1>0, PathSelf, PathStep
<1> QED BY <1>0, <1>1, RootOfPath, RootIsRoot

(* A parent function whose steps keep a label, and where every climb meets its
   label, has the labels as roots.                                            *)
LEMMA LabelsAreRoots ==
    ASSUME NEW D, NEW q \in [D -> D], NEW f \in [D -> D],
           \A x \in D : f[q[x]] = f[x],
           \A x \in D : q[f[x]] = f[x] /\ f[x] \in Path(q, x)
    PROVE  Forest(D, q) /\ \A x \in D : Root(q, x) = f[x]
<1>1. Forest(D, q)
  BY DEF Forest
<1> QED BY <1>1, RootIsRoot

(* find moves no root.                                                        *)
LEMMA CompressedKeepsRoots ==
    ASSUME NEW D, NEW p, Forest(D, p), NEW i \in D
    PROVE  /\ Forest(D, Compressed(p, i))
           /\ \A x \in D : Root(Compressed(p, i), x) = Root(p, x)
<1> DEFINE q == Compressed(p, i)
           f == [x \in D |-> Root(p, x)]
<1>0. p \in [D -> D] /\ DOMAIN p = D
  BY DEF Forest
<1>1. q \in [D -> D] /\ f \in [D -> D]
  BY <1>0, RootIsRoot DEF Compressed
<1>2. \A x \in D : q[x] = IF x \in Path(p, i) THEN Root(p, i) ELSE p[x]
  BY <1>0 DEF Compressed
<1>3. \A x \in D : x \in Path(p, i) => f[x] = Root(p, i)
  BY RootOfPath
<1>4. \A x \in D : f[p[x]] = f[x] /\ f[f[x]] = f[x] /\ p[f[x]] = f[x]
  BY RootOfParent, RootIsRoot, RootOfPath
<1> HIDE DEF q
<1>5. \A x \in D : f[q[x]] = f[x]
  <2> SUFFICES ASSUME NEW x \in D PROVE f[q[x]] = f[x]
    OBVIOUS
  <2>1. CASE x \in Path(p, i)
    <3>1. q[x] = f[x] BY <2>1, <1>2, <1>3
    <3> QED BY <3>1, <1>4
  <2>2. CASE x \notin Path(p, i)
    BY <2>2, <1>2, <1>4
  <2> QED BY <2>1, <2>2
<1>6. \A x \in D : q[f[x]] = f[x]
  <2> SUFFICES ASSUME NEW x \in D PROVE q[f[x]] = f[x]
    OBVIOUS
  <2>0. f[x] \in D
    BY <1>1
  <2>1. CASE f[x] \in Path(p, i)
    <3>1. q[f[x]] = f[f[x]] BY <2>0, <2>1, <1>2, <1>3
    <3> QED BY <3>1, <1>4
  <2>2. CASE f[x] \notin Path(p, i)
    BY <2>0, <2>2, <1>2, <1>4
  <2> QED BY <2>1, <2>2
<1>7. ASSUME NEW x \in D, NEW S \in SUBSET D, x \in S, \A y \in S : q[y] \in S
      PROVE  f[x] \in S
  <2> SUFFICES ASSUME f[x] \notin S PROVE FALSE
    OBVIOUS
  <2> DEFINE U == {y \in S : f[y] = f[x]}
  <2>1. ASSUME NEW y \in U PROVE p[y] \in U
    <3>1. y \in D /\ y \in S /\ f[y] = f[x]
      BY <2>1
    <3>2. y \notin Path(p, i)
      BY <3>1, <1>2, <1>3, <1>7
    <3>3. p[y] \in S
      BY <3>1, <3>2, <1>2, <1>7
    <3>4. f[p[y]] = f[x]
      BY <3>1, <1>4
    <3> QED BY <3>3, <3>4
  <2>2. x \in U /\ U \in SUBSET D
    BY <1>7
  <2>3. Path(p, x) \subseteq U
    <3> HIDE DEF U
    <3> QED BY <1>0, <2>1, <2>2, PathMin
  <2>4. f[x] \in U
    BY <2>3, RootIsRoot
  <2> QED BY <2>4
<1>8. \A x \in D : f[x] \in Path(q, x)
  <2> SUFFICES ASSUME NEW x \in D PROVE f[x] \in Path(q, x)
    OBVIOUS
  <2>1. DOMAIN q = D /\ f[x] \in D
    BY <1>1
  <2> HIDE DEF f
  <2> QED BY <1>7, <2>1 DEF Path
<1>9. Forest(D, q) /\ \A x \in D : Root(q, x) = f[x]
  <2> HIDE DEF f
  <2> QED BY <1>1, <1>5, <1>6, <1>8, LabelsAreRoots
<1> QED BY <1>9 DEF q

(* Hanging one root on another gives that root to all that had the first.     *)
LEMMA LinkMovesOneRoot ==
    ASSUME NEW D, NEW p, Forest(D, p), NEW top \in D, NEW low \in D,
           top # low, p[top] = top, p[low] = low,
           NEW q \in [D -> D], \A x \in D : q[x] = IF x = low THEN top ELSE p[x]
    PROVE  /\ Forest(D, q)
           /\ \A x \in D : Root(q, x) = IF Root(p, x) = low THEN top ELSE Root(p, x)
<1> DEFINE f == [x \in D |-> IF Root(p, x) = low THEN top ELSE Root(p, x)]
<1>0. p \in [D -> D] /\ \A x \in D : Root(p, x) \in D
  BY RootIsRoot DEF Forest
<1>1. f \in [D -> D]
  BY <1>0
<1>2. \A x \in D : q[x] = IF x = low THEN top ELSE p[x]
  OBVIOUS
<1>3. Root(p, top) = top /\ Root(p, low) = low
  BY RootOfParent
<1>4. \A x \in D : f[q[x]] = f[x]
  BY <1>0, <1>2, <1>3, RootOfParent
<1>5. \A x \in D : q[f[x]] = f[x]
  BY <1>0, <1>2, RootIsRoot
<1>6. \A x \in D : f[x] \in Path(q, x)
  <2> SUFFICES ASSUME NEW x \in D, NEW S \in SUBSET D, x \in S, \A y \in S : q[y] \in S
               PROVE  f[x] \in S
    BY <1>1 DEF Path
  <2>1. \A y \in S : p[y] \in S
    BY <1>2
  <2>2. Root(p, x) \in S
    <3>1. Path(p, x) \subseteq S
      BY <1>0, <2>1, PathMin
    <3> QED BY <3>1, RootIsRoot
  <2> QED BY <1>2, <2>2
<1>7. Forest(D, q) /\ \A x \in D : Root(q, x) = f[x]
  <2> HIDE DEF f
  <2> QED BY <1>1, <1>4, <1>5, <1>6, LabelsAreRoots
<1> QED BY <1>7

LEMMA UnionMovesRoots ==
    ASSUME NEW D, Forest(D, parent), NEW left \in D, NEW right \in D, Union(left, right)
    PROVE  /\ Forest(D, parent')
           /\ \E top \in {Root(parent, left), Root(parent, right)} :
                \A x \in D : Root(parent', x) =
                    IF Root(parent, x) \in {Root(parent, left), Root(parent, right)}
                    THEN top ELSE Root(parent, x)
<1> DEFINE p == Compressed(Compressed(parent, left), right)
           lr == Root(parent, left)
           rr == Root(parent, right)
           top == IF rank[lr] < rank[rr] THEN rr ELSE lr
           low == IF rank[lr] < rank[rr] THEN lr ELSE rr
<1>1. Forest(D, p) /\ \A x \in D : Root(p, x) = Root(parent, x)
  <2>1. /\ Forest(D, Compressed(parent, left))
        /\ \A x \in D : Root(Compressed(parent, left), x) = Root(parent, x)
    BY CompressedKeepsRoots
  <2> QED BY <2>1, CompressedKeepsRoots
<1> HIDE DEF p
<1>2. lr \in D /\ rr \in D /\ p[lr] = lr /\ p[rr] = rr
  <2>1. Root(p, left) = lr /\ Root(p, right) = rr
    BY <1>1
  <2> QED BY <1>1, <2>1, RootIsRoot
<1>3. CASE lr = rr
  <2>1. parent' = p
    BY <1>3 DEF Union, p
  <2> QED BY <1>1, <1>3, <2>1
<1>4. CASE lr # rr
  <2>2. top \in D /\ low \in D /\ top # low /\ p[top] = top /\ p[low] = low
    BY <1>2, <1>4
  <2>1. parent' \in [D -> D] /\ \A x \in D : parent'[x] = IF x = low THEN top ELSE p[x]
    <3>1. parent' = [p EXCEPT ![low] = top]
      BY <1>4 DEF Union, p
    <3>2. p \in [D -> D]
      BY <1>1 DEF Forest
    <3> HIDE DEF top, low
    <3> QED BY <2>2, <3>1, <3>2
  <2>3. {top, low} = {lr, rr}
    OBVIOUS
  <2> HIDE DEF top, low
  <2>4. /\ Forest(D, parent')
        /\ \A x \in D : Root(parent', x) = IF Root(p, x) = low THEN top ELSE Root(p, x)
    <3> HIDE DEF lr, rr
    <3> QED BY <1>1, <2>1, <2>2, LinkMovesOneRoot
  <2> QED BY <1>1, <2>3, <2>4
<1> QED BY <1>3, <1>4

(* A disjoint set of single entries.                                          *)
LEMMA SingletonsAreRoots ==
    ASSUME NEW D
    PROVE  LET p == [i \in D |-> i]
           IN  Forest(D, p) /\ \A x \in D : Root(p, x) = x
<1> DEFINE p == [i \in D |-> i]
<1>1. p \in [D -> D] /\ \A x \in D : p[x] = x /\ p[p[x]] = p[x]
  OBVIOUS
<1> HIDE DEF p
<1>2. \A x \in D : x \in Path(p, x)
  BY <1>1, PathSelf
<1>3. Forest(D, p) /\ \A x \in D : Root(p, x) = x
  BY <1>1, <1>2, RootIsRoot DEF Forest
<1> QED BY <1>3 DEF p

-----------------------------------------------------------------------------
(* The reference: which entries are one course.                               *)

LEMMA SameCourseSymmetric ==
    ASSUME NEW b, NEW e \in Entry, NEW f \in Entry, SameCourse(b, e, f)
    PROVE  SameCourse(b, f, e)
<1>1. e.title.words \in Seq(Words \cup Years) /\ f.title.words \in Seq(Words \cup Years)
  BY DEF Entry, Title
<1>2. ASSUME NEW v \in Seq(Words \cup Years), NEW w \in Seq(Words \cup Years),
             WholeTokenTitleContains(v, w)
      PROVE  WholeTokenTitleContains(w, v)
  <2>1. Len(v) \in Nat /\ Len(w) \in Nat /\ Len(v) # Len(w)
    BY <1>2 DEF WholeTokenTitleContains
  <2>2. CASE Len(v) > Len(w)
    BY <1>2, <2>1, <2>2 DEF WholeTokenTitleContains
  <2>3. CASE Len(v) < Len(w)
    BY <1>2, <2>1, <2>3 DEF WholeTokenTitleContains
  <2> QED BY <2>1, <2>2, <2>3
<1>3. CompatibleYears(e, f) => CompatibleYears(f, e)
  BY DEF CompatibleYears
<1>4. WholeTokenTitleContains(e.title.words, f.title.words)
        => WholeTokenTitleContains(f.title.words, e.title.words)
  BY <1>1, <1>2
<1>5. TrustedKeys(b, e) \cap TrustedKeys(b, f) = TrustedKeys(b, f) \cap TrustedKeys(b, e)
  OBVIOUS
<1> QED BY <1>3, <1>4, <1>5 DEF SameCourse

Same(i, j) == SameCourse(build, entries[i], entries[j])

Closed(S) == S \in SUBSET Index /\ \A x \in S : \A y \in Index : Same(x, y) => y \in S

LEMMA ComponentIsLeastClosed ==
    ASSUME NEW i \in Index
    PROVE  /\ Component[i] \subseteq Index
           /\ \A j \in Index : j \in Component[i] <=> \A S : Closed(S) /\ i \in S => j \in S
<1> DEFINE Pairs == {xy \in Index \X Index : SameCourse(build, entries[xy[1]], entries[xy[2]])}
<1>1. \A x, y \in Index : <<x, y>> \in Pairs <=> Same(x, y)
  BY DEF Same
<1>2. \A xy \in Pairs : \E x, y \in Index : xy = <<x, y>>
  OBVIOUS
<1>3. ASSUME NEW S \in SUBSET Index
      PROVE  Closed(S) <=> \A xy \in Pairs : xy[1] \in S => xy[2] \in S
  <2> HIDE DEF Pairs
  <2>1. ASSUME Closed(S), NEW xy \in Pairs, xy[1] \in S PROVE xy[2] \in S
    <3>1. PICK x, y \in Index : xy = <<x, y>>
      BY <1>2
    <3>2. x \in S /\ Same(x, y)
      BY <1>1, <2>1, <3>1
    <3> QED BY <2>1, <3>1, <3>2 DEF Closed
  <2>2. ASSUME \A xy \in Pairs : xy[1] \in S => xy[2] \in S,
               NEW x \in S, NEW y \in Index, Same(x, y)
        PROVE  y \in S
    <3>1. <<x, y>> \in Pairs
      BY <1>1, <2>2
    <3> QED BY <2>2, <3>1
  <2> QED BY <2>1, <2>2 DEF Closed
<1>4. Component[i] = {j \in Index : \A S \in {T \in SUBSET Index :
                        \A xy \in Pairs : xy[1] \in T => xy[2] \in T} : i \in S => j \in S}
  BY DEF Component
<1> HIDE DEF Pairs
<1>5. \A S : Closed(S) => S \in SUBSET Index
  BY DEF Closed
<1> QED BY <1>3, <1>4, <1>5

LEMMA ComponentSelf ==
    ASSUME NEW i \in Index
    PROVE  i \in Component[i]
BY ComponentIsLeastClosed

LEMMA ComponentStep ==
    ASSUME NEW i \in Index, NEW j \in Index, Same(i, j)
    PROVE  j \in Component[i]
BY ComponentIsLeastClosed DEF Closed

LEMMA ComponentTransitive ==
    ASSUME NEW i \in Index, NEW j \in Component[i], NEW k \in Component[j]
    PROVE  k \in Component[i]
<1>1. j \in Index
  BY ComponentIsLeastClosed
<1>2. k \in Index
  BY <1>1, ComponentIsLeastClosed
<1> QED BY <1>1, <1>2, ComponentIsLeastClosed

LEMMA ComponentSymmetric ==
    ASSUME entries \in Seq(Entry), NEW i \in Index, NEW j \in Component[i]
    PROVE  i \in Component[j]
<1>1. j \in Index
  BY ComponentIsLeastClosed
<1>2. \A x, y \in Index : Same(x, y) => Same(y, x)
  <2>1. \A x \in Index : entries[x] \in Entry
    BY DEF Index
  <2> QED BY <2>1, SameCourseSymmetric DEF Same
<1>3. ASSUME NEW S, Closed(S), j \in S, i \notin S PROVE FALSE
  <2>1. Closed(Index \ S)
    BY <1>2, <1>3 DEF Closed
  <2>2. j \in Index \ S
    BY <1>1, <1>3, <2>1, ComponentIsLeastClosed
  <2> QED BY <1>3, <2>2
<1> QED BY <1>1, <1>3, ComponentIsLeastClosed

-----------------------------------------------------------------------------
(* Each union joins entries of one component, and when all are made, each pair
   that is the same course has been joined.                                   *)

(* The first of a set of entries up to one of them is the first of the set.   *)
LEMMA MinUpTo ==
    ASSUME NEW n \in Nat, NEW T \in SUBSET (1..n), NEW i \in T
    PROVE  Min({j \in 1..i : j \in T}) = Min(T)
<1> DEFINE U == {j \in 1..i : j \in T}
<1>1. U \in SUBSET Nat /\ T \in SUBSET Nat /\ i \in U
  OBVIOUS
<1> HIDE DEF U
<1>2. Min(U) \in U /\ \A x \in U : Min(U) <= x
  BY <1>1, MinIsLeast
<1>3. Min(T) \in T /\ \A x \in T : Min(T) <= x
  BY <1>1, MinIsLeast
<1>4. \A x : x \in U <=> x \in 1..i /\ x \in T
  BY DEF U
<1>5. Min(T) \in U
  <2>1. Min(T) \in 1..n /\ i \in 1..n /\ Min(T) <= i
    BY <1>3
  <2>2. Min(T) \in 1..i
    BY <2>1
  <2> QED BY <1>3, <1>4, <2>2
<1> QED BY <1>1, <1>2, <1>3, <1>4, <1>5 DEF U

LEMMA IndexEntries ==
    ASSUME entries \in Seq(Entry)
    PROVE  Len(entries) \in Nat /\ \A i \in Index : i \in Nat /\ entries[i] \in Entry
BY DEF Index

SameIdentity(i) == {j \in Index : Identity(entries[j]) = Identity(entries[i])}

LEMMA IdentityOwnerIs ==
    ASSUME entries \in Seq(Entry), NEW i \in Index
    PROVE  IdentityOwner(i) = Min(SameIdentity(i)) /\ IdentityOwner(i) \in SameIdentity(i)
<1>1. Len(entries) \in Nat /\ SameIdentity(i) \in SUBSET (1..Len(entries)) /\ i \in SameIdentity(i)
  BY IndexEntries DEF SameIdentity, Index
<1>2. IdentityOwner(i) = Min({j \in 1..i : j \in SameIdentity(i)})
  <2>1. {j \in 1..i : Identity(entries[j]) = Identity(entries[i])}
          = {j \in 1..i : j \in SameIdentity(i)}
    BY <1>1 DEF SameIdentity, Index
  <2> QED BY <2>1 DEF IdentityOwner
<1>3. IdentityOwner(i) = Min(SameIdentity(i))
  <2> HIDE DEF SameIdentity
  <2> QED BY <1>1, <1>2, MinUpTo
<1>4. SameIdentity(i) \in SUBSET Nat /\ SameIdentity(i) # {}
  BY <1>1
<1> QED BY <1>3, <1>4, MinIsLeast

SameTitleLink(i, k) ==
    {j \in Index : entries[j].title.words = entries[i].title.words /\ k \in Trusted(j)}

LEMMA TitleLinkOwnerIs ==
    ASSUME entries \in Seq(Entry), NEW i \in Index, NEW k \in Trusted(i)
    PROVE  /\ TitleLinkOwner(i, k) = Min(SameTitleLink(i, k))
           /\ TitleLinkOwner(i, k) \in SameTitleLink(i, k)
<1>1. /\ Len(entries) \in Nat /\ SameTitleLink(i, k) \in SUBSET (1..Len(entries))
      /\ i \in SameTitleLink(i, k)
  BY IndexEntries DEF SameTitleLink, Index
<1>2. TitleLinkOwner(i, k) = Min({j \in 1..i : j \in SameTitleLink(i, k)})
  <2>1. {j \in 1..i : entries[j].title.words = entries[i].title.words /\ k \in Trusted(j)}
          = {j \in 1..i : j \in SameTitleLink(i, k)}
    BY <1>1 DEF SameTitleLink, Index
  <2> QED BY <2>1 DEF TitleLinkOwner
<1>3. TitleLinkOwner(i, k) = Min(SameTitleLink(i, k))
  <2> HIDE DEF SameTitleLink
  <2> QED BY <1>1, <1>2, MinUpTo
<1>4. SameTitleLink(i, k) \in SUBSET Nat /\ SameTitleLink(i, k) # {}
  BY <1>1
<1> QED BY <1>3, <1>4, MinIsLeast

JobSound(job) == /\ job.left \in Index /\ job.right \in Index
                 /\ job.right \in Component[job.left]

LEMMA IdentityJobsSound ==
    ASSUME entries \in Seq(Entry), NEW job \in IdentityJobs
    PROVE  JobSound(job)
<1>1. CASE \E i \in Index : job = [group |-> 0, step |-> 2 * i, left |-> i, right |-> IdentityOwner(i)]
  <2>1. PICK i \in Index : job.left = i /\ job.right = IdentityOwner(i)
    BY <1>1
  <2>2. IdentityOwner(i) \in Index /\ Same(i, IdentityOwner(i))
    BY IdentityOwnerIs DEF SameIdentity, Same, SameCourse
  <2> QED BY <2>1, <2>2, ComponentStep DEF JobSound
<1>2. CASE \E i \in Index : \E k \in Trusted(i) :
             job = [group |-> 0, step |-> 2 * i + 1, left |-> i, right |-> TitleLinkOwner(i, k)]
  <2>0. PICK i \in Index : \E k \in Trusted(i) : job.left = i /\ job.right = TitleLinkOwner(i, k)
    BY <1>2
  <2>1. PICK k \in Trusted(i) : job.left = i /\ job.right = TitleLinkOwner(i, k)
    BY <2>0
  <2>2. TitleLinkOwner(i, k) \in Index /\ Same(i, TitleLinkOwner(i, k))
    BY TitleLinkOwnerIs DEF SameTitleLink, Same, SameCourse, Trusted
  <2> QED BY <2>1, <2>2, ComponentStep DEF JobSound
<1> QED BY <1>1, <1>2 DEF IdentityJobs

RepairOwners(i) == {j \in Index : Identity(entries[j]) = RepairedIdentity(entries[i])}

LEMMA RepairedJobsSound ==
    ASSUME entries \in Seq(Entry), NEW job \in RepairedJobs
    PROVE  JobSound(job)
<1>1. PICK i \in Index : /\ Repairable(entries[i]) /\ RepairOwners(i) # {}
                         /\ job.left = i /\ job.right = Min(RepairOwners(i))
  BY DEF RepairedJobs, RepairOwners
<1>2. Min(RepairOwners(i)) \in RepairOwners(i)
  <2>1. RepairOwners(i) \in SUBSET Nat
    BY IndexEntries DEF RepairOwners
  <2> QED BY <1>1, <2>1, MinIsLeast
<1>3. Min(RepairOwners(i)) \in Index /\ Same(i, Min(RepairOwners(i)))
  BY <1>1, <1>2 DEF RepairOwners, Same, SameCourse
<1> QED BY <1>1, <1>3, ComponentStep DEF JobSound

LEMMA SharedURLJobsSound ==
    ASSUME entries \in Seq(Entry), NEW job \in SharedURLJobs
    PROVE  JobSound(job)
<1>1. PICK k \in Keys, ij \in Index \X Index :
        /\ k \in Trusted(ij[1]) \cap Trusted(ij[2])
        /\ CompatibleYears(entries[ij[1]], entries[ij[2]])
        /\ WholeTokenTitleContains(entries[ij[1]].title.words, entries[ij[2]].title.words)
        /\ job.left = ij[1] /\ job.right = ij[2]
  BY DEF SharedURLJobs
<1>2. ij[1] \in Index /\ ij[2] \in Index /\ Same(ij[1], ij[2])
  BY <1>1 DEF Same, SameCourse, Trusted
<1> QED BY <1>1, <1>2, ComponentStep DEF JobSound

DisplayOwners(i) == {j \in Index : DisplayIdentity(entries[j]) = DisplayIdentity(entries[i])}

LEMMA NormalizedJobsSound ==
    ASSUME entries \in Seq(Entry), NEW job \in NormalizedJobs
    PROVE  JobSound(job)
<1>1. PICK i \in Index : /\ \E j \in DisplayOwners(i) : Renamed(entries[j])
                         /\ job.left = Min(DisplayOwners(i)) /\ job.right = i
  BY DEF NormalizedJobs, DisplayOwners
<1>2. PICK j \in DisplayOwners(i) : Renamed(entries[j])
  BY <1>1
<1> DEFINE m == Min(DisplayOwners(i))
<1>3. m \in DisplayOwners(i)
  <2>1. DisplayOwners(i) \in SUBSET Nat /\ DisplayOwners(i) # {}
    BY <1>2, IndexEntries DEF DisplayOwners
  <2> QED BY <2>1, MinIsLeast
<1> HIDE DEF m
<1>4. m \in Index /\ j \in Index /\ Same(m, j) /\ Same(j, i)
  BY <1>2, <1>3 DEF DisplayOwners, Same, SameCourse
<1>5. j \in Component[m] /\ i \in Component[j]
  BY <1>4, ComponentStep
<1>6. i \in Component[m]
  BY <1>4, <1>5, ComponentTransitive
<1> QED BY <1>1, <1>4, <1>6 DEF JobSound, m

(* All the jobs of a set have been done.                                      *)
Joined(J) == \A job \in J : Root(parent, job.left) = Root(parent, job.right)

LEMMA JobsSuffice ==
    ASSUME entries \in Seq(Entry),
           Joined(IdentityJobs), Joined(RepairedJobs), Joined(SharedURLJobs), Joined(NormalizedJobs),
           NEW i \in Index, NEW j \in Index, Same(i, j)
    PROVE  Root(parent, i) = Root(parent, j)
<1>1. ASSUME NEW x \in Index, NEW y \in Index, Identity(entries[x]) = Identity(entries[y])
      PROVE  Root(parent, x) = Root(parent, y)
  <2>1. \A z \in Index : Root(parent, z) = Root(parent, IdentityOwner(z))
    <3> SUFFICES ASSUME NEW z \in Index PROVE Root(parent, z) = Root(parent, IdentityOwner(z))
      OBVIOUS
    <3>1. [group |-> 0, step |-> 2 * z, left |-> z, right |-> IdentityOwner(z)] \in IdentityJobs
      BY DEF IdentityJobs
    <3> QED BY <3>1 DEF Joined
  <2>2. SameIdentity(x) = SameIdentity(y)
    BY <1>1 DEF SameIdentity
  <2>3. IdentityOwner(x) = IdentityOwner(y)
    BY <2>2, IdentityOwnerIs
  <2> QED BY <2>1, <2>3
<1>2. ASSUME NEW x \in Index, NEW y \in Index, NEW k \in Trusted(x) \cap Trusted(y),
             entries[x].title.words = entries[y].title.words
      PROVE  Root(parent, x) = Root(parent, y)
  <2>1. \A z \in {x, y} : Root(parent, z) = Root(parent, TitleLinkOwner(z, k))
    <3> SUFFICES ASSUME NEW z \in {x, y} PROVE Root(parent, z) = Root(parent, TitleLinkOwner(z, k))
      OBVIOUS
    <3>1. [group |-> 0, step |-> 2 * z + 1, left |-> z, right |-> TitleLinkOwner(z, k)] \in IdentityJobs
      BY <1>2 DEF IdentityJobs
    <3> QED BY <3>1 DEF Joined
  <2>2. SameTitleLink(x, k) = SameTitleLink(y, k)
    BY <1>2 DEF SameTitleLink
  <2>3. TitleLinkOwner(x, k) = TitleLinkOwner(y, k)
    BY <2>2, TitleLinkOwnerIs
  <2> QED BY <2>1, <2>3
<1>3. ASSUME NEW x \in Index, NEW y \in Index,
             Repairable(entries[x]), RepairedIdentity(entries[x]) = Identity(entries[y])
      PROVE  Root(parent, x) = Root(parent, y)
  <2> DEFINE m == Min(RepairOwners(x))
  <2>1. y \in RepairOwners(x) /\ RepairOwners(x) \in SUBSET Nat
    BY <1>3, IndexEntries DEF RepairOwners
  <2>2. m \in RepairOwners(x)
    BY <2>1, MinIsLeast
  <2>3. m \in Index /\ Identity(entries[m]) = Identity(entries[y])
    BY <1>3, <2>2 DEF RepairOwners
  <2>4. [group |-> 0, step |-> x, left |-> x, right |-> m] \in RepairedJobs
    BY <1>3, <2>1 DEF RepairedJobs, RepairOwners
  <2>5. Root(parent, x) = Root(parent, m)
    BY <2>4 DEF Joined
  <2> HIDE DEF m
  <2> QED BY <1>1, <2>3, <2>5
<1>4. ASSUME NEW x \in Index, NEW y \in Index, x < y, NEW k \in Trusted(x) \cap Trusted(y),
             CompatibleYears(entries[x], entries[y]),
             WholeTokenTitleContains(entries[x].title.words, entries[y].title.words)
      PROVE  Root(parent, x) = Root(parent, y)
  <2>1. k \in Keys
    <3>1. k \in DOMAIN entries[x].links /\ entries[x].links \in LinkMap
      BY <1>4, IndexEntries DEF Trusted, TrustedKeys, Entry
    <3> QED BY <3>1 DEF LinkMap
  <2>2. [group |-> k, step |-> x * Len(entries) + y, left |-> x, right |-> y] \in SharedURLJobs
    <3> DEFINE Pairs(l) == {ij \in Index \X Index :
            /\ ij[1] < ij[2]
            /\ l \in Trusted(ij[1]) \cap Trusted(ij[2])
            /\ CompatibleYears(entries[ij[1]], entries[ij[2]])
            /\ WholeTokenTitleContains(entries[ij[1]].title.words, entries[ij[2]].title.words)}
          Of(l) == {[group |-> l, step |-> ij[1] * Len(entries) + ij[2],
                     left |-> ij[1], right |-> ij[2]] : ij \in Pairs(l)}
    <3>1. <<x, y>> \in Pairs(k)
      BY <1>4
    <3>2. SharedURLJobs = UNION {Of(l) : l \in Keys}
      BY DEF SharedURLJobs
    <3> HIDE DEF Pairs
    <3>3. [group |-> k, step |-> x * Len(entries) + y, left |-> x, right |-> y] \in Of(k)
      BY <3>1
    <3> HIDE DEF Of
    <3> QED BY <2>1, <3>2, <3>3
  <2> QED BY <2>2 DEF Joined
<1>5. ASSUME NEW x \in Index, NEW y \in Index,
             DisplayIdentity(entries[x]) = DisplayIdentity(entries[y]),
             Renamed(entries[x]) \/ Renamed(entries[y])
      PROVE  Root(parent, x) = Root(parent, y)
  <2>1. DisplayOwners(x) = DisplayOwners(y) /\ \E z \in DisplayOwners(x) : Renamed(entries[z])
    BY <1>5 DEF DisplayOwners
  <2>2. \A z \in {x, y} : Root(parent, Min(DisplayOwners(z))) = Root(parent, z)
    <3> SUFFICES ASSUME NEW z \in {x, y} PROVE Root(parent, Min(DisplayOwners(z))) = Root(parent, z)
      OBVIOUS
    <3>1. [group |-> Min(DisplayOwners(z)), step |-> z, left |-> Min(DisplayOwners(z)), right |-> z]
            \in NormalizedJobs
      BY <2>1 DEF NormalizedJobs, DisplayOwners
    <3> QED BY <3>1 DEF Joined
  <2> QED BY <2>1, <2>2
<1>6. i = j \/ i < j \/ j < i
  BY IndexEntries
<1>7. \A x, y \in Index : Same(x, y) =>
        \/ Identity(entries[x]) = Identity(entries[y])
        \/ entries[x].title.words = entries[y].title.words /\ \E k : k \in Trusted(x) \cap Trusted(y)
        \/ Repairable(entries[x]) /\ RepairedIdentity(entries[x]) = Identity(entries[y])
        \/ Repairable(entries[y]) /\ RepairedIdentity(entries[y]) = Identity(entries[x])
        \/ /\ \E k : k \in Trusted(x) \cap Trusted(y)
           /\ CompatibleYears(entries[x], entries[y])
           /\ WholeTokenTitleContains(entries[x].title.words, entries[y].title.words)
        \/ /\ DisplayIdentity(entries[x]) = DisplayIdentity(entries[y])
           /\ Renamed(entries[x]) \/ Renamed(entries[y])
  BY DEF Same, SameCourse, Trusted
<1>8. Same(j, i)
  BY IndexEntries, SameCourseSymmetric DEF Same
<1> QED BY <1>1, <1>2, <1>3, <1>4, <1>5, <1>6, <1>7, <1>8

-----------------------------------------------------------------------------
(* What depends on the build and the entries alone.                           *)
LEMMA Frame ==
    ASSUME build' = build, entries' = entries
    PROVE  /\ Index' = Index /\ Component' = Component
           /\ IdentityJobs' = IdentityJobs /\ RepairedJobs' = RepairedJobs
           /\ SharedURLJobs' = SharedURLJobs /\ NormalizedJobs' = NormalizedJobs
<1>1. Index' = Index
  BY DEF Index
<1>2. Component' = Component
  BY DEF Component, Index
<1>3. IdentityJobs' = IdentityJobs
  BY DEF IdentityJobs, IdentityOwner, TitleLinkOwner, Trusted, Index
<1>4. RepairedJobs' = RepairedJobs
  BY DEF RepairedJobs, Index
<1>5. SharedURLJobs' = SharedURLJobs
  BY DEF SharedURLJobs, Trusted, Index
<1>6. NormalizedJobs' = NormalizedJobs
  BY DEF NormalizedJobs, Index
<1> QED BY <1>1, <1>2, <1>3, <1>4, <1>5, <1>6

(* The merged entry, field by field.                                          *)
LEMMA MergedFields ==
    ASSUME NEW e \in Entry, NEW f
    PROVE  MergeSourceEntry(e, f) =
             [id      |-> e.id,
              message |-> IF f.message = NoMessage THEN e.message ELSE f.message,
              title   |-> IF f.title.blank THEN e.title ELSE f.title,
              credit  |-> IF f.credit.blank THEN e.credit ELSE f.credit,
              author  |-> IF f.credit.blank THEN e.author ELSE f.author,
              raw     |-> IF f.raw.blank THEN e.raw ELSE f.raw,
              year    |-> IF f.year = NoYear THEN e.year ELSE f.year,
              added   |-> IF f.added = NoTime THEN e.added ELSE f.added,
              links   |-> MergeLinks(e.links, f.links),
              origins |-> MergeOrigins(e.origins, f.origins)]
<1>1. PICK R : e \in [id: R, message: R, title: R, credit: R, author: R, raw: R, year: R,
                    added: R, links: R, origins: R]
  <2>1. e = [id |-> e.id, message |-> e.message, title |-> e.title, credit |-> e.credit,
             author |-> e.author, raw |-> e.raw, year |-> e.year, added |-> e.added,
             links |-> e.links, origins |-> e.origins]
    BY DEF Entry
  <2> WITNESS {e.id, e.message, e.title, e.credit, e.author, e.raw, e.year, e.added,
               e.links, e.origins}
  <2> QED BY <2>1
<1>2. ASSUME NEW message, NEW heading, NEW credit, NEW author, NEW raw, NEW year, NEW added,
             NEW links, NEW origins
      PROVE  [e EXCEPT !.message = message, !.title = heading, !.credit = credit, !.author = author,
                       !.raw = raw, !.year = year, !.added = added, !.links = links,
                       !.origins = origins]
             = [id |-> e.id, message |-> message, title |-> heading, credit |-> credit,
                author |-> author, raw |-> raw, year |-> year, added |-> added,
                links |-> links, origins |-> origins]
  <2> DEFINE m == [e EXCEPT !.message = message, !.title = heading, !.credit = credit,
                            !.author = author, !.raw = raw, !.year = year, !.added = added,
                            !.links = links, !.origins = origins]
  <2>1. DOMAIN m = {"id", "message", "title", "credit", "author", "raw", "year", "added",
                    "links", "origins"}
    BY <1>1
  <2>2. /\ m.id = e.id /\ m.message = message /\ m.title = heading /\ m.credit = credit
        /\ m.author = author /\ m.raw = raw /\ m.year = year /\ m.added = added
        /\ m.links = links /\ m.origins = origins
    BY <1>1
  <2>3. m = [z \in DOMAIN m |-> m[z]]
    BY <1>1
  <2> SUFFICES m = [id |-> e.id, message |-> message, title |-> heading, credit |-> credit,
                    author |-> author, raw |-> raw, year |-> year, added |-> added,
                    links |-> links, origins |-> origins]
    OBVIOUS
  <2> HIDE DEF m
  <2> QED BY <2>1, <2>2, <2>3
<1> DEFINE message == IF f.message = NoMessage THEN e.message ELSE f.message
           heading == IF f.title.blank THEN e.title ELSE f.title
           credit == IF f.credit.blank THEN e.credit ELSE f.credit
           author == IF f.credit.blank THEN e.author ELSE f.author
           raw == IF f.raw.blank THEN e.raw ELSE f.raw
           year == IF f.year = NoYear THEN e.year ELSE f.year
           added == IF f.added = NoTime THEN e.added ELSE f.added
           links == MergeLinks(e.links, f.links)
           origins == MergeOrigins(e.origins, f.origins)
<1>3. MergeSourceEntry(e, f) =
        [e EXCEPT !.message = message, !.title = heading, !.credit = credit, !.author = author,
                  !.raw = raw, !.year = year, !.added = added, !.links = links,
                  !.origins = origins]
  BY DEF MergeSourceEntry
<1> SUFFICES MergeSourceEntry(e, f) =
               [id |-> e.id, message |-> message, title |-> heading, credit |-> credit,
                author |-> author, raw |-> raw, year |-> year, added |-> added,
                links |-> links, origins |-> origins]
  OBVIOUS
<1> HIDE DEF message, heading, credit, author, raw, year, added, links, origins
<1> QED BY <1>2, <1>3, Zenon

LEMMA MergedId ==
    ASSUME NEW e \in Entry, NEW f
    PROVE  MergeSourceEntry(e, f).id = e.id
<1>1. e = [e EXCEPT !.id = e.id] /\ "id" \in DOMAIN e
  BY DEF Entry
<1> QED BY <1>1 DEF MergeSourceEntry

(* Merging two accounts of an entry makes an entry.                           *)
LEMMA MergedEntryIsEntry ==
    ASSUME NEW e \in Entry, NEW f \in Entry
    PROVE  MergeSourceEntry(e, f) \in Entry
<1>0. /\ e.links \in LinkMap /\ f.links \in LinkMap
      /\ e.origins \in OriginMap /\ f.origins \in OriginMap
      /\ DOMAIN e.origins = DOMAIN e.links /\ DOMAIN f.origins = DOMAIN f.links
  BY DEF Entry
<1>1. ASSUME NEW s \in LinkMap, NEW t \in LinkMap
      PROVE  MergeLinks(s, t) \in LinkMap
  <2> DEFINE D == DOMAIN s \cup DOMAIN t
  <2>1. /\ DOMAIN s \subseteq Keys /\ DOMAIN t \subseteq Keys
        /\ \A k \in DOMAIN s : s[k] \in LinkInfo
        /\ \A k \in DOMAIN t : t[k] \in LinkInfo
    BY DEF LinkMap
  <2>2. MergeLinks(s, t) \in [D -> LinkInfo]
    BY <2>1 DEF MergeLinks, LinkInfo
  <2>3. D \in SUBSET Keys
    BY <2>1
  <2> QED BY <2>2, <2>3 DEF LinkMap
<1>2. ASSUME NEW s \in OriginMap, NEW t \in OriginMap
      PROVE  MergeOrigins(s, t) \in OriginMap
  <2> DEFINE D == DOMAIN s \cup DOMAIN t
  <2>1. /\ DOMAIN s \subseteq Keys /\ DOMAIN t \subseteq Keys
        /\ \A k \in DOMAIN s : s[k] \in Origin
        /\ \A k \in DOMAIN t : t[k] \in Origin
    BY DEF OriginMap
  <2>2. ASSUME NEW p \in Origin, NEW q \in Origin
        PROVE  [firm   |-> p.firm,
                from   |-> IF p.from = "" THEN q.from ELSE p.from,
                places |-> p.places \cup q.places] \in Origin
    BY DEF Origin
  <2>3. MergeOrigins(s, t) \in [D -> Origin]
    BY <2>1, <2>2 DEF MergeOrigins
  <2>4. D \in SUBSET Keys
    BY <2>1
  <2> QED BY <2>3, <2>4 DEF OriginMap
<1>3. MergeLinks(e.links, f.links) \in LinkMap /\ MergeOrigins(e.origins, f.origins) \in OriginMap
  BY <1>0, <1>1, <1>2
<1>4. DOMAIN MergeOrigins(e.origins, f.origins) = DOMAIN MergeLinks(e.links, f.links)
  BY <1>0 DEF MergeOrigins, MergeLinks
<1>5. /\ e.id \in Nat /\ {e.message, f.message} \subseteq Messages \cup {NoMessage}
      /\ {e.title, f.title} \subseteq Title /\ {e.credit, f.credit} \subseteq Text
      /\ {e.author, f.author} \subseteq Seq(Words \cup Years) /\ {e.raw, f.raw} \subseteq Text
      /\ {e.year, f.year} \subseteq Years \cup {NoYear} /\ {e.added, f.added} \subseteq Time \cup {NoTime}
  BY DEF Entry
<1> DEFINE links == MergeLinks(e.links, f.links)
           origins == MergeOrigins(e.origins, f.origins)
           m == MergeSourceEntry(e, f)
<1>6. /\ m = [id |-> m.id, message |-> m.message, title |-> m.title, credit |-> m.credit,
              author |-> m.author, raw |-> m.raw, year |-> m.year, added |-> m.added,
              links |-> m.links, origins |-> m.origins]
      /\ m.id = e.id /\ m.message \in {e.message, f.message} /\ m.title \in {e.title, f.title}
      /\ m.credit \in {e.credit, f.credit} /\ m.author \in {e.author, f.author}
      /\ m.raw \in {e.raw, f.raw} /\ m.year \in {e.year, f.year} /\ m.added \in {e.added, f.added}
      /\ m.links = links /\ m.origins = origins
  <2> HIDE DEF links, origins
  <2>1. m = [id      |-> e.id,
             message |-> IF f.message = NoMessage THEN e.message ELSE f.message,
             title   |-> IF f.title.blank THEN e.title ELSE f.title,
             credit  |-> IF f.credit.blank THEN e.credit ELSE f.credit,
             author  |-> IF f.credit.blank THEN e.author ELSE f.author,
             raw     |-> IF f.raw.blank THEN e.raw ELSE f.raw,
             year    |-> IF f.year = NoYear THEN e.year ELSE f.year,
             added   |-> IF f.added = NoTime THEN e.added ELSE f.added,
             links   |-> links,
             origins |-> origins]
    BY MergedFields DEF links, origins
  <2> HIDE DEF m
  <2> QED BY <2>1
<1> HIDE DEF m, links, origins
<1>7. m \in [id: Nat, message: Messages \cup {NoMessage}, title: Title,
             credit: Text, author: Seq(Words \cup Years), raw: Text, year: Years \cup {NoYear},
             added: Time \cup {NoTime}, links: LinkMap, origins: OriginMap]
  BY <1>3, <1>5, <1>6 DEF links, origins
<1>8. DOMAIN m.origins = DOMAIN m.links
  BY <1>4, <1>6 DEF links, origins
<1> QED BY <1>7, <1>8 DEF Entry, m

-----------------------------------------------------------------------------
(* The inductive invariant, in four parts.                                    *)

(* The entries are entries, and so is all that is still to be merged.         *)
Typed ==
    /\ build \in Build
    /\ entries \in Seq(Entry)
    /\ read \in (Nat \ {0}) \X (Nat \ {0})
    /\ read[1] <= Len(build.exports) => read[2] <= Len(build.exports[read[1]])

Before(p) == CASE p = "identity"   -> {"merge"}
               [] p = "repaired"   -> {"merge", "identity"}
               [] p = "shared"     -> {"merge", "identity", "repaired"}
               [] p = "normalized" -> {"merge", "identity", "repaired", "shared"}
               [] p = "canonical"  -> {"merge", "identity", "repaired", "shared", "normalized"}
               [] p = "assemble"   -> {"merge", "identity", "repaired", "shared", "normalized",
                                       "canonical"}

(* The pass has joined all but what is left of it, and each pass before it all. *)
Progress ==
    /\ pass \in Before("assemble") \cup {"assemble", "failed", "done"}
    /\ todo \subseteq Jobs(pass)
    /\ Joined(Jobs(pass) \ todo)
    /\ pass \notin Before("repaired") => Joined(IdentityJobs)
    /\ pass \notin Before("shared") => Joined(RepairedJobs)
    /\ pass \notin Before("normalized") => Joined(SharedURLJobs)
    /\ pass \notin Before("canonical") => Joined(NormalizedJobs)

(* The disjoint set is a forest, and no tree holds entries of two components.  *)
Rooted ==
    pass # "merge" =>
        Forest(Index, parent) /\ \A i \in Index : Root(parent, i) \in Component[i]

(* Each cluster has one of its own as canonical entry as soon as one of them has
   been looked at, and its course bears the identity of that entry.           *)
Speakers ==
    /\ next \in Nat \ {0}
    /\ \A r \in DOMAIN canonical :
         canonical[r] \in Index /\ Root(parent, canonical[r]) = r
    /\ pass \in Before("canonical") => canonical = <<>> /\ next = 1
    /\ pass = "canonical" => \A i \in Index : i < next => Root(parent, i) \in DOMAIN canonical
    /\ pass \notin Before("assemble") => \A i \in Index : Root(parent, i) \in DOMAIN canonical
    /\ pass \in Before("assemble") => courses = <<>>
    /\ \A r \in DOMAIN courses :
         /\ r \in DOMAIN canonical /\ "identity" \in DOMAIN courses[r]
         /\ courses[r].identity = Identity(entries[canonical[r]])

ClusterInv == Typed /\ Progress /\ Rooted /\ Speakers

LEMMA InvInit == Init => ClusterInv
<1> SUFFICES ASSUME Init PROVE ClusterInv
  OBVIOUS
<1> USE DEF Init, ClustersInit
<1>1. build \in Build
  BY BuildsAssumption
<1>2. /\ build.exports \in Seq(Seq(Entry) \ {<<>>}) /\ build.exports # <<>>
  BY <1>1 DEF Build
<1>3. Len(build.exports) \in Nat /\ Len(build.exports) >= 1
  BY <1>2
<1>4. build.exports[1] \in Seq(Entry)
  BY <1>2, <1>3
<1>5. 2 <= Len(build.exports) => Len(build.exports[2]) >= 1
  <2> SUFFICES ASSUME 2 <= Len(build.exports) PROVE Len(build.exports[2]) >= 1
    OBVIOUS
  <2>1. build.exports[2] \in Seq(Entry) /\ build.exports[2] # <<>>
    BY <1>2, <1>3
  <2> QED BY <2>1
<1>6. Typed
  BY <1>1, <1>4, <1>5 DEF Typed
<1>7. Progress
  BY DEF Progress, Jobs, Joined, Before
<1>8. Rooted
  BY DEF Rooted
<1>9. Speakers
  BY DEF Speakers, Before
<1> QED BY <1>6, <1>7, <1>8, <1>9 DEF ClusterInv

LEMMA MergeKeepsTyped ==
    ASSUME Typed, MergeEntry
    PROVE  Typed'
<1> DEFINE export == build.exports[read[1]]
           e == export[read[2]]
           known == {i \in Index : entries[i].id = e.id}
<1>0. /\ build \in Build /\ entries \in Seq(Entry) /\ read[1] \in Nat /\ read[2] \in Nat
      /\ read = <<read[1], read[2]>> /\ read[1] >= 1 /\ read[2] >= 1
  BY DEF Typed
<1>1. build.exports \in Seq(Seq(Entry) \ {<<>>})
  BY <1>0 DEF Build
<1>2. Len(build.exports) \in Nat /\ read[1] <= Len(build.exports)
  BY <1>1 DEF MergeEntry
<1>3. export \in Seq(Entry) /\ Len(export) \in Nat /\ read[2] <= Len(export)
  BY <1>0, <1>1, <1>2 DEF Typed
<1>4. e \in Entry
  BY <1>0, <1>3
<1>5. entries' \in Seq(Entry)
  <2>1. entries' = IF known = {} THEN Append(entries, e)
                   ELSE [entries EXCEPT ![Max(known)] = MergeSourceEntry(@, e)]
    BY DEF MergeEntry
  <2> HIDE DEF known, e
  <2>2. CASE known = {}
    BY <1>0, <1>4, <2>1, <2>2
  <2>3. CASE known # {}
    <3> DEFINE m == Max(known)
    <3>1. entries' = [entries EXCEPT ![m] = MergeSourceEntry(entries[m], e)]
      BY <2>1, <2>3
    <3> HIDE DEF m
    <3>2. m \in 1..Len(entries) => MergeSourceEntry(entries[m], e) \in Entry
      BY <1>0, <1>4, MergedEntryIsEntry
    <3>3. CASE m \in 1..Len(entries)
      BY <1>0, <3>1, <3>2, <3>3, ExceptSeq
    <3>4. CASE m \notin 1..Len(entries)
      <4>1. DOMAIN entries = 1..Len(entries)
        BY <1>0
      <4>2. entries' = entries
        BY <1>0, <3>1, <3>4, <4>1
      <4> QED BY <1>0, <4>2
    <3> QED BY <3>3, <3>4
  <2> QED BY <2>2, <2>3
<1>6. build' = build
  BY DEF MergeEntry
<1>7. CASE read[2] < Len(export)
  <2>1. read' = <<read[1], read[2] + 1>>
    BY <1>7 DEF MergeEntry
  <2> HIDE DEF export
  <2>2. read'[1] = read[1] /\ read'[2] = read[2] + 1
    BY <2>1
  <2>3. read' \in (Nat \ {0}) \X (Nat \ {0})
    BY <1>0, <2>1
  <2>4. read'[2] <= Len(export)
    BY <1>0, <1>3, <1>7, <2>2
  <2> QED BY <1>0, <1>5, <1>6, <2>2, <2>3, <2>4 DEF Typed, export
<1>8. CASE ~(read[2] < Len(export))
  <2>1. read' = <<read[1] + 1, 1>>
    BY <1>8 DEF MergeEntry
  <2>2. read' \in (Nat \ {0}) \X (Nat \ {0}) /\ read'[1] = read[1] + 1 /\ read'[2] = 1
    BY <1>0, <2>1
  <2>3. read'[1] <= Len(build.exports) => 1 <= Len(build.exports[read'[1]])
    <3> SUFFICES ASSUME read[1] + 1 <= Len(build.exports)
                 PROVE  1 <= Len(build.exports[read[1] + 1])
      BY <2>2
    <3>1. build.exports[read[1] + 1] \in Seq(Entry) /\ build.exports[read[1] + 1] # <<>>
      BY <1>0, <1>1, <1>2
    <3> QED BY <3>1
  <2> QED BY <1>0, <1>5, <1>6, <2>2, <2>3 DEF Typed
<1> QED BY <1>7, <1>8

LEMMA MergePreserves ==
    ASSUME ClusterInv, MergeEntry, UNCHANGED <<courses, catalogue, removed>>
    PROVE  ClusterInv'
<1>1. Typed'
  BY MergeKeepsTyped DEF ClusterInv
<1>2. /\ pass = "merge" /\ pass' = "merge" /\ todo' = todo /\ canonical' = canonical
      /\ courses' = courses /\ next' = next
  BY DEF MergeEntry
<1>3. todo = {} /\ canonical = <<>> /\ courses = <<>>
  BY <1>2 DEF ClusterInv, Progress, Speakers, Before, Jobs
<1>4. Progress'
  BY <1>2, <1>3 DEF Progress, Before, Jobs, Joined
<1>5. Rooted'
  BY <1>2 DEF Rooted
<1>6. Speakers'
  BY <1>2, <1>3 DEF ClusterInv, Speakers, Before
<1> QED BY <1>1, <1>4, <1>5, <1>6 DEF ClusterInv

(* What a step leaves of the typing if it merges nothing.                     *)
LEMMA TypedKept ==
    ASSUME Typed, build' = build, entries' = entries, read' = read
    PROVE  Typed'
BY DEF Typed

LEMMA StartPreserves ==
    ASSUME ClusterInv, StartClustering, UNCHANGED <<courses, catalogue, removed>>
    PROVE  ClusterInv'
<1>1. /\ pass = "merge" /\ pass' = "identity" /\ build' = build /\ entries' = entries
      /\ read' = read /\ todo' = IdentityJobs /\ parent' = [i \in Index |-> i]
      /\ next' = next /\ canonical' = canonical /\ courses' = courses
  BY DEF StartClustering
<1>2. Typed'
  BY <1>1, TypedKept DEF ClusterInv
<1>3. Index' = Index /\ Component' = Component /\ IdentityJobs' = IdentityJobs
  BY <1>1, Frame
<1>4. Progress'
  <2>1. Jobs(pass)' = IdentityJobs
    BY <1>1, <1>3 DEF Jobs
  <2> QED BY <1>1, <2>1 DEF Progress, Before, Joined
<1>5. Rooted'
  <2>1. Forest(Index, parent') /\ \A i \in Index : Root(parent', i) = i
    BY <1>1, SingletonsAreRoots
  <2>2. \A i \in Index : Root(parent', i) \in Component[i]
    BY <2>1, ComponentSelf
  <2> QED BY <1>3, <2>1, <2>2 DEF Rooted
<1>6. Speakers'
  <2>1. canonical = <<>> /\ courses = <<>> /\ next = 1
    BY <1>1 DEF ClusterInv, Speakers, Before
  <2> QED BY <1>1, <2>1 DEF Speakers, Before
<1> QED BY <1>2, <1>4, <1>5, <1>6 DEF ClusterInv

(* A union of a sound job keeps the trees within the components, joins the two
   entries of the job and parts none.                                         *)
LEMMA JobSoundness ==
    ASSUME entries \in Seq(Entry), NEW job \in Jobs(pass)
    PROVE  JobSound(job)
BY IdentityJobsSound, RepairedJobsSound, SharedURLJobsSound, NormalizedJobsSound DEF Jobs

LEMMA UnionJoins ==
    ASSUME entries \in Seq(Entry), Forest(Index, parent),
           \A i \in Index : Root(parent, i) \in Component[i],
           NEW job, JobSound(job), Union(job.left, job.right)
    PROVE  /\ Forest(Index, parent')
           /\ \A i \in Index : Root(parent', i) \in Component[i]
           /\ Root(parent', job.left) = Root(parent', job.right)
           /\ \A i, j \in Index : Root(parent, i) = Root(parent, j)
                                    => Root(parent', i) = Root(parent', j)
<1> DEFINE lr == Root(parent, job.left)
           rr == Root(parent, job.right)
<1>0. job.left \in Index /\ job.right \in Index /\ job.right \in Component[job.left]
  BY DEF JobSound
<1>1. /\ Forest(Index, parent')
      /\ \E t \in {lr, rr} : \A x \in Index : Root(parent', x) =
           IF Root(parent, x) \in {lr, rr} THEN t ELSE Root(parent, x)
  BY <1>0, UnionMovesRoots
<1>2. PICK t \in {lr, rr} : \A x \in Index : Root(parent', x) =
           IF Root(parent, x) \in {lr, rr} THEN t ELSE Root(parent, x)
  BY <1>1
<1>3. lr \in Index /\ rr \in Index /\ lr \in Component[job.left] /\ rr \in Component[job.right]
  BY <1>0, RootIsRoot
<1>4. rr \in Component[lr] /\ lr \in Component[rr]
  <2>1. rr \in Component[job.left] /\ job.left \in Component[lr]
    BY <1>0, <1>3, ComponentTransitive, ComponentSymmetric
  <2>2. rr \in Component[lr]
    BY <1>0, <1>3, <2>1, ComponentTransitive
  <2> QED BY <1>3, <2>2, ComponentSymmetric
<1>5. t \in Component[lr] /\ t \in Component[rr]
  BY <1>3, <1>4, ComponentSelf
<1> HIDE DEF lr, rr
<1>6. ASSUME NEW i \in Index PROVE Root(parent', i) \in Component[i]
  <2>1. CASE Root(parent, i) \in {lr, rr}
    <3>1. Root(parent, i) \in Component[i] /\ t \in Component[Root(parent, i)] /\ Root(parent', i) = t
      BY <1>2, <1>5, <2>1
    <3> QED BY <3>1, ComponentTransitive
  <2>2. CASE Root(parent, i) \notin {lr, rr}
    BY <1>2, <2>2
  <2> QED BY <2>1, <2>2
<1> QED BY <1>0, <1>1, <1>2, <1>6 DEF lr, rr

(* Jobs that are done stay done as long as no two entries are parted.         *)
LEMMA JoinedKept ==
    ASSUME NEW J, \A job \in J : JobSound(job), Joined(J),
           \A i, j \in Index : Root(parent, i) = Root(parent, j)
                                 => Root(parent', i) = Root(parent', j)
    PROVE  \A job \in J : Root(parent', job.left) = Root(parent', job.right)
BY DEF Joined, JobSound

LEMMA UnitePreserves ==
    ASSUME ClusterInv, Unite, UNCHANGED <<courses, catalogue, removed>>
    PROVE  ClusterInv'
<1>1. PICK job \in todo : Union(job.left, job.right) /\ todo' = todo \ {job}
  BY DEF Unite
<1>2. /\ build' = build /\ entries' = entries /\ read' = read /\ pass' = pass
      /\ next' = next /\ canonical' = canonical /\ courses' = courses
  BY DEF Unite
<1>3. entries \in Seq(Entry) /\ job \in Jobs(pass) /\ todo \subseteq Jobs(pass)
  BY <1>1 DEF ClusterInv, Typed, Progress
<1>4. pass \in {"identity", "repaired", "shared", "normalized"}
  BY <1>3 DEF Jobs
<1>5. JobSound(job)
  BY <1>3, JobSoundness
<1>6. /\ Index' = Index /\ Component' = Component
      /\ IdentityJobs' = IdentityJobs /\ RepairedJobs' = RepairedJobs
      /\ SharedURLJobs' = SharedURLJobs /\ NormalizedJobs' = NormalizedJobs
  BY <1>2, Frame
<1>7. /\ Forest(Index, parent')
      /\ \A i \in Index : Root(parent', i) \in Component[i]
      /\ Root(parent', job.left) = Root(parent', job.right)
      /\ \A i, j \in Index : Root(parent, i) = Root(parent, j)
                               => Root(parent', i) = Root(parent', j)
  BY <1>1, <1>3, <1>4, <1>5, UnionJoins DEF ClusterInv, Rooted
<1>8. Typed'
  BY <1>2, TypedKept DEF ClusterInv
<1>9. Progress'
  <2>1. Jobs(pass)' = Jobs(pass)
    BY <1>2, <1>6 DEF Jobs
  <2>2. Joined(Jobs(pass) \ todo)'
    <3>1. \A other \in Jobs(pass) \ todo : JobSound(other)
      BY <1>3, JobSoundness
    <3>2. \A other \in Jobs(pass) \ todo :
            Root(parent', other.left) = Root(parent', other.right)
      BY <1>7, <3>1, JoinedKept DEF ClusterInv, Progress
    <3> QED BY <1>1, <1>7, <2>1, <3>2 DEF Joined
  <2>3. todo' \subseteq Jobs(pass)'
    BY <1>1, <1>3, <2>1
  <2>4. Joined(IdentityJobs) => Joined(IdentityJobs)'
    BY <1>3, <1>6, <1>7, IdentityJobsSound, JoinedKept DEF Joined
  <2>5. Joined(RepairedJobs) => Joined(RepairedJobs)'
    BY <1>3, <1>6, <1>7, RepairedJobsSound, JoinedKept DEF Joined
  <2>6. Joined(SharedURLJobs) => Joined(SharedURLJobs)'
    BY <1>3, <1>6, <1>7, SharedURLJobsSound, JoinedKept DEF Joined
  <2>7. Joined(NormalizedJobs) => Joined(NormalizedJobs)'
    BY <1>3, <1>6, <1>7, NormalizedJobsSound, JoinedKept DEF Joined
  <2> QED BY <1>2, <1>4, <2>2, <2>3, <2>4, <2>5, <2>6, <2>7
          DEF ClusterInv, Progress, Before
<1>10. Rooted'
  BY <1>2, <1>6, <1>7 DEF Rooted
<1>11. Speakers'
  <2>1. canonical = <<>> /\ courses = <<>> /\ next = 1
    BY <1>4 DEF ClusterInv, Speakers, Before
  <2> QED BY <1>2, <1>4, <2>1 DEF Speakers, Before
<1> QED BY <1>8, <1>9, <1>10, <1>11 DEF ClusterInv

LEMMA NextPassPreserves ==
    ASSUME ClusterInv, NextPass, UNCHANGED <<courses, catalogue, removed>>
    PROVE  ClusterInv'
<1>1. /\ build' = build /\ entries' = entries /\ read' = read /\ parent' = parent
      /\ next' = next /\ canonical' = canonical /\ courses' = courses /\ todo = {}
  BY DEF NextPass
<1>2. \/ pass = "identity"   /\ pass' = "repaired"   /\ todo' = RepairedJobs
      \/ pass = "repaired"   /\ pass' = "shared"     /\ todo' = SharedURLJobs
      \/ pass = "shared"     /\ pass' = "normalized" /\ todo' = NormalizedJobs
      \/ pass = "normalized" /\ pass' = "canonical"  /\ todo' = {}
  BY DEF NextPass, Passes, Jobs
<1>3. /\ Index' = Index /\ Component' = Component
      /\ IdentityJobs' = IdentityJobs /\ RepairedJobs' = RepairedJobs
      /\ SharedURLJobs' = SharedURLJobs /\ NormalizedJobs' = NormalizedJobs
  BY <1>1, Frame
<1>4. Joined(Jobs(pass))
  <2>1. Jobs(pass) \ todo = Jobs(pass)
    BY <1>1
  <2> QED BY <2>1 DEF ClusterInv, Progress
<1>5. Typed'
  BY <1>1, TypedKept DEF ClusterInv
<1>6. Progress'
  <2>1. todo' = Jobs(pass)'
    BY <1>2, <1>3 DEF Jobs
  <2>2. Joined((Jobs(pass) \ todo)')
    BY <2>1 DEF Joined
  <2>3. \A J : Joined(J) => \A job \in J : Root(parent', job.left) = Root(parent', job.right)
    BY <1>1 DEF Joined
  <2>4. /\ pass = "identity"   => Joined(IdentityJobs)
        /\ pass = "repaired"   => Joined(IdentityJobs) /\ Joined(RepairedJobs)
        /\ pass = "shared"     => Joined(IdentityJobs) /\ Joined(RepairedJobs) /\ Joined(SharedURLJobs)
        /\ pass = "normalized" => /\ Joined(IdentityJobs) /\ Joined(RepairedJobs)
                                  /\ Joined(SharedURLJobs) /\ Joined(NormalizedJobs)
    BY <1>4 DEF ClusterInv, Progress, Jobs, Before
  <2>5. /\ Joined(IdentityJobs) => Joined(IdentityJobs)'
        /\ Joined(RepairedJobs) => Joined(RepairedJobs)'
        /\ Joined(SharedURLJobs) => Joined(SharedURLJobs)'
        /\ Joined(NormalizedJobs) => Joined(NormalizedJobs)'
        /\ Joined(Jobs(pass) \ todo)'
    BY <1>3, <2>1, <2>3 DEF Joined
  <2> QED BY <1>2, <2>1, <2>4, <2>5 DEF Progress, Before
<1>7. Rooted'
  BY <1>1, <1>2, <1>3 DEF ClusterInv, Rooted
<1>8. Speakers'
  <2>1. canonical = <<>> /\ courses = <<>> /\ next = 1
    BY <1>2 DEF ClusterInv, Speakers, Before
  <2>2. \A i \in Index : ~(i < 1)
    BY DEF Index
  <2> QED BY <1>1, <1>2, <1>3, <2>1, <2>2 DEF Speakers, Before
<1> QED BY <1>5, <1>6, <1>7, <1>8 DEF ClusterInv

(* The steps after the last union: they move no root and leave nothing to do.  *)
LEMMA LaterStep ==
    ASSUME ClusterInv, pass \notin Before("canonical"),
           build' = build, entries' = entries, read' = read, todo' = todo,
           pass' \in {"canonical", "assemble", "failed", "done"},
           Forest(Index, parent'), \A i \in Index : Root(parent', i) = Root(parent, i)
    PROVE  Typed' /\ Progress' /\ Rooted'
<1>1. /\ Index' = Index /\ Component' = Component
      /\ IdentityJobs' = IdentityJobs /\ RepairedJobs' = RepairedJobs
      /\ SharedURLJobs' = SharedURLJobs /\ NormalizedJobs' = NormalizedJobs
  BY Frame
<1>2. entries \in Seq(Entry)
  BY DEF ClusterInv, Typed
<1>3. todo = {} /\ Jobs(pass)' = {}
  BY DEF ClusterInv, Progress, Jobs, Before
<1>4. \A i, j \in Index : Root(parent, i) = Root(parent, j)
                            => Root(parent', i) = Root(parent', j)
  OBVIOUS
<1>5. /\ Joined(IdentityJobs)' /\ Joined(RepairedJobs)'
      /\ Joined(SharedURLJobs)' /\ Joined(NormalizedJobs)'
  <2>1. /\ Joined(IdentityJobs) /\ Joined(RepairedJobs)
        /\ Joined(SharedURLJobs) /\ Joined(NormalizedJobs)
    BY DEF ClusterInv, Progress, Before
  <2>2. Joined(IdentityJobs)'
    BY <1>1, <1>2, <1>4, <2>1, IdentityJobsSound, JoinedKept DEF Joined
  <2>3. Joined(RepairedJobs)'
    BY <1>1, <1>2, <1>4, <2>1, RepairedJobsSound, JoinedKept DEF Joined
  <2>4. Joined(SharedURLJobs)'
    BY <1>1, <1>2, <1>4, <2>1, SharedURLJobsSound, JoinedKept DEF Joined
  <2>5. Joined(NormalizedJobs)'
    BY <1>1, <1>2, <1>4, <2>1, NormalizedJobsSound, JoinedKept DEF Joined
  <2> QED BY <2>2, <2>3, <2>4, <2>5
<1>6. Progress'
  BY <1>3, <1>5 DEF Progress, Before, Joined
<1>7. Rooted'
  BY <1>1 DEF ClusterInv, Rooted, Before
<1>8. Typed'
  BY TypedKept DEF ClusterInv
<1> QED BY <1>6, <1>7, <1>8

LEMMA ConsiderPreserves ==
    ASSUME ClusterInv, ConsiderCanonical, UNCHANGED <<courses, catalogue, removed>>
    PROVE  ClusterInv'
<1> DEFINE root == Root(parent, next)
<1>1. /\ pass = "canonical" /\ pass' = pass /\ next \in Index /\ next' = next + 1
      /\ build' = build /\ entries' = entries /\ read' = read /\ todo' = todo
      /\ parent' = Compressed(parent, next) /\ courses' = courses
      /\ canonical' = IF root \in DOMAIN canonical /\ ~Precedes(next, canonical[root])
                      THEN canonical ELSE Put(canonical, root, next)
  BY DEF ConsiderCanonical
<1>2. Forest(Index, parent)
  BY <1>1 DEF ClusterInv, Rooted
<1>3. Forest(Index, parent') /\ \A i \in Index : Root(parent', i) = Root(parent, i)
  BY <1>1, <1>2, CompressedKeepsRoots
<1>4. Typed' /\ Progress' /\ Rooted'
  BY <1>1, <1>3, LaterStep DEF Before
<1>5. Index' = Index
  BY <1>1, Frame
<1>6. /\ DOMAIN canonical' = DOMAIN canonical \cup {root}
      /\ \A r \in DOMAIN canonical' :
           \/ canonical'[r] = next /\ r = root
           \/ r \in DOMAIN canonical /\ canonical'[r] = canonical[r]
  <2> HIDE DEF root
  <2>1. CASE root \in DOMAIN canonical /\ ~Precedes(next, canonical[root])
    BY <1>1, <2>1
  <2>2. CASE ~(root \in DOMAIN canonical /\ ~Precedes(next, canonical[root]))
    <3>1. canonical' = [x \in DOMAIN canonical \cup {root} |->
                            IF x = root THEN next ELSE canonical[x]]
      BY <1>1, <2>2 DEF Put
    <3> QED BY <3>1
  <2> QED BY <2>1, <2>2
<1>7. Speakers'
  <2>1. /\ next \in Nat \ {0} /\ courses = <<>>
        /\ \A r \in DOMAIN canonical : canonical[r] \in Index /\ Root(parent, canonical[r]) = r
        /\ \A i \in Index : i < next => Root(parent, i) \in DOMAIN canonical
    BY <1>1 DEF ClusterInv, Speakers, Before
  <2>2. \A r \in DOMAIN canonical' : canonical'[r] \in Index /\ Root(parent', canonical'[r]) = r
    BY <1>1, <1>3, <1>6, <2>1
  <2>3. \A i \in Index : i < next + 1 => Root(parent', i) \in DOMAIN canonical'
    <3> SUFFICES ASSUME NEW i \in Index, i < next + 1
                 PROVE  Root(parent', i) \in DOMAIN canonical'
      OBVIOUS
    <3>1. i = next \/ i < next
      BY <2>1 DEF Index
    <3> QED BY <1>3, <1>6, <2>1, <3>1
  <2>4. next' \in Nat \ {0}
    BY <1>1, <2>1
  <2> QED BY <1>1, <1>5, <2>1, <2>2, <2>3, <2>4 DEF Speakers, Before
<1> QED BY <1>4, <1>7 DEF ClusterInv

LEMMA StartAssemblingPreserves ==
    ASSUME ClusterInv, StartAssembling, UNCHANGED <<courses, catalogue, removed>>
    PROVE  ClusterInv'
<1>1. /\ pass = "canonical" /\ pass' = "assemble" /\ next \notin Index /\ next' = 1
      /\ build' = build /\ entries' = entries /\ read' = read /\ todo' = todo
      /\ parent' = parent /\ courses' = courses /\ canonical' = canonical
  BY DEF StartAssembling
<1>2. Forest(Index, parent)
  BY <1>1 DEF ClusterInv, Rooted
<1>3. Typed' /\ Progress' /\ Rooted'
  BY <1>1, <1>2, LaterStep DEF Before
<1>4. Index' = Index
  BY <1>1, Frame
<1>5. Speakers'
  <2>1. /\ next \in Nat \ {0} /\ courses = <<>>
        /\ \A r \in DOMAIN canonical : canonical[r] \in Index /\ Root(parent, canonical[r]) = r
        /\ \A i \in Index : i < next => Root(parent, i) \in DOMAIN canonical
    BY <1>1 DEF ClusterInv, Speakers, Before
  <2>2. \A i \in Index : i < next
    <3>1. Len(entries) \in Nat
      BY DEF ClusterInv, Typed
    <3> QED BY <1>1, <2>1, <3>1 DEF Index
  <2> QED BY <1>1, <1>4, <2>1, <2>2 DEF Speakers, Before
<1> QED BY <1>3, <1>5 DEF ClusterInv

LEMMA AssemblePreserves ==
    ASSUME ClusterInv, Assemble
    PROVE  ClusterInv'
<1> DEFINE root == Root(parent, next)
           candidate == Candidate(next, Identity(entries[canonical[root]]))
           joined == IF root \notin DOMAIN courses THEN candidate
                     ELSE IF next = canonical[root]
                     THEN MergeCatalogEntry(candidate, courses[root])
                     ELSE MergeCatalogEntry(courses[root], candidate)
<1>1. /\ pass = "assemble" /\ pass' = pass /\ next \in Index /\ next' = next + 1
      /\ build' = build /\ entries' = entries /\ read' = read /\ todo' = todo
      /\ parent' = Compressed(parent, next) /\ canonical' = canonical
      /\ courses' = Put(courses, root, joined)
  BY DEF Assemble
<1>2. Forest(Index, parent)
  BY <1>1 DEF ClusterInv, Rooted
<1>3. Forest(Index, parent') /\ \A i \in Index : Root(parent', i) = Root(parent, i)
  BY <1>1, <1>2, CompressedKeepsRoots
<1>4. Typed' /\ Progress' /\ Rooted'
  BY <1>1, <1>3, LaterStep DEF Before
<1>5. Index' = Index
  BY <1>1, Frame
<1>6. /\ next \in Nat \ {0}
      /\ \A r \in DOMAIN canonical : canonical[r] \in Index /\ Root(parent, canonical[r]) = r
      /\ \A i \in Index : Root(parent, i) \in DOMAIN canonical
      /\ \A r \in DOMAIN courses :
           /\ r \in DOMAIN canonical /\ "identity" \in DOMAIN courses[r]
           /\ courses[r].identity = Identity(entries[canonical[r]])
  BY <1>1 DEF ClusterInv, Speakers, Before
<1>7. ASSUME NEW c, NEW d, "identity" \in DOMAIN c
      PROVE  /\ "identity" \in DOMAIN MergeCatalogEntry(c, d)
             /\ MergeCatalogEntry(c, d).identity = c.identity
  BY <1>7 DEF MergeCatalogEntry
<1>8. "identity" \in DOMAIN joined /\ joined.identity = Identity(entries[canonical[root]])
  <2>1. /\ "identity" \in DOMAIN candidate
        /\ candidate.identity = Identity(entries[canonical[root]])
    BY DEF Candidate
  <2> HIDE DEF candidate, root
  <2>2. CASE root \notin DOMAIN courses
    BY <2>1, <2>2
  <2>3. CASE root \in DOMAIN courses /\ next = canonical[root]
    BY <1>7, <2>1, <2>3
  <2>4. CASE root \in DOMAIN courses /\ next # canonical[root]
    BY <1>6, <1>7, <2>4
  <2> QED BY <2>2, <2>3, <2>4
<1>9. /\ DOMAIN courses' = DOMAIN courses \cup {root} /\ courses'[root] = joined
      /\ \A r \in DOMAIN courses : r # root => courses'[r] = courses[r]
  <2> HIDE DEF root, joined
  <2> QED BY <1>1 DEF Put
<1>10. Speakers'
  <2>1. \A r \in DOMAIN courses' :
          /\ r \in DOMAIN canonical /\ "identity" \in DOMAIN courses'[r]
          /\ courses'[r].identity = Identity(entries[canonical[r]])
    <3> HIDE DEF joined, candidate
    <3> QED BY <1>1, <1>6, <1>8, <1>9
  <2>2. next' \in Nat \ {0}
    BY <1>1, <1>6
  <2>3. \A r \in DOMAIN canonical : canonical[r] \in Index /\ Root(parent', canonical[r]) = r
    BY <1>3, <1>6
  <2> HIDE DEF root, joined, candidate
  <2> QED BY <1>1, <1>3, <1>5, <1>6, <2>1, <2>2, <2>3 DEF Speakers, Before
<1> QED BY <1>4, <1>10 DEF ClusterInv

LEMMA EndPreserves ==
    ASSUME ClusterInv, Reject \/ Publish
    PROVE  ClusterInv'
<1>1. /\ pass = "assemble" /\ pass' \in {"failed", "done"} /\ next' = next
      /\ build' = build /\ entries' = entries /\ read' = read /\ todo' = todo
      /\ parent' = parent /\ canonical' = canonical /\ courses' = courses
  BY DEF Reject, Publish
<1>2. Forest(Index, parent)
  BY <1>1 DEF ClusterInv, Rooted
<1>3. Typed' /\ Progress' /\ Rooted'
  BY <1>1, <1>2, LaterStep DEF Before
<1>4. Index' = Index
  BY <1>1, Frame
<1>5. Speakers'
  BY <1>1, <1>4 DEF ClusterInv, Speakers, Before
<1> QED BY <1>3, <1>5 DEF ClusterInv

LEMMA InvNext == ClusterInv /\ [Next]_vars => ClusterInv'
<1> SUFFICES ASSUME ClusterInv, [Next]_vars PROVE ClusterInv'
  OBVIOUS
<1>1. CASE Cluster
  BY <1>1, MergePreserves, StartPreserves, UnitePreserves, NextPassPreserves,
     ConsiderPreserves, StartAssemblingPreserves DEF Cluster, ClustersNext
<1>2. CASE Assemble
  BY <1>2, AssemblePreserves
<1>3. CASE Reject \/ Publish
  BY <1>3, EndPreserves
<1>4. CASE UNCHANGED vars
  <2>1. /\ build' = build /\ entries' = entries /\ read' = read /\ todo' = todo /\ pass' = pass
        /\ parent' = parent /\ canonical' = canonical /\ courses' = courses /\ next' = next
    BY <1>4 DEF vars, clusterVars
  <2>2. /\ Index' = Index /\ Component' = Component
        /\ IdentityJobs' = IdentityJobs /\ RepairedJobs' = RepairedJobs
        /\ SharedURLJobs' = SharedURLJobs /\ NormalizedJobs' = NormalizedJobs
    BY <2>1, Frame
  <2>3. Jobs(pass)' = Jobs(pass)
    BY <2>1, <2>2 DEF Jobs
  <2>4. Typed'
    BY <2>1, TypedKept DEF ClusterInv
  <2>5. Progress'
    BY <2>1, <2>2, <2>3 DEF ClusterInv, Progress, Joined
  <2>6. Rooted'
    BY <2>1, <2>2 DEF ClusterInv, Rooted
  <2>7. Speakers'
    BY <2>1, <2>2 DEF ClusterInv, Speakers
  <2> QED BY <2>4, <2>5, <2>6, <2>7 DEF ClusterInv
<1> QED BY <1>1, <1>2, <1>3, <1>4 DEF Next

(* The invariant holds throughout a build: no step of merging, uniting or
   assembling breaks it.                                                      *)
THEOREM InvHolds == Spec => []ClusterInv
BY InvInit, InvNext, PTL DEF Spec

-----------------------------------------------------------------------------
LEMMA ClustersFromInv ==
    ASSUME ClusterInv
    PROVE  ClustersAreComponents
<1> SUFFICES ASSUME pass # "merge", NEW i \in Index
             PROVE  LET roots == [x \in Index |-> Root(parent, x)]
                        cluster == {j \in Index : roots[j] = roots[i]}
                    IN  /\ parent[roots[i]] = roots[i]
                        /\ cluster \subseteq Component[i]
                        /\ pass \notin {Passes[n] : n \in 1..4} => Component[i] \subseteq cluster
  BY DEF ClustersAreComponents
<1> DEFINE cluster == {j \in Index : Root(parent, j) = Root(parent, i)}
<1>0. /\ entries \in Seq(Entry) /\ Forest(Index, parent)
      /\ \A x \in Index : Root(parent, x) \in Component[x] /\ Root(parent, x) \in Index
  BY RootIsRoot DEF ClusterInv, Typed, Rooted
<1>1. parent[Root(parent, i)] = Root(parent, i)
  BY <1>0, RootIsRoot
<1>2. ASSUME NEW j \in cluster PROVE j \in Component[i]
  <2>1. Root(parent, i) \in Component[i] /\ Root(parent, i) \in Component[j] /\ j \in Index
    BY <1>0
  <2>2. j \in Component[Root(parent, i)]
    BY <1>0, <2>1, ComponentSymmetric
  <2> QED BY <2>1, <2>2, ComponentTransitive
<1>3. ASSUME pass \notin {Passes[n] : n \in 1..4} PROVE Component[i] \subseteq cluster
  <2>1. pass \notin Before("canonical")
    BY <1>3 DEF Before, Passes
  <2>2. /\ Joined(IdentityJobs) /\ Joined(RepairedJobs)
        /\ Joined(SharedURLJobs) /\ Joined(NormalizedJobs)
    BY <2>1 DEF ClusterInv, Progress, Before
  <2>3. Closed(cluster)
    <3>1. ASSUME NEW x \in cluster, NEW y \in Index, Same(x, y) PROVE y \in cluster
      BY <1>0, <2>2, <3>1, JobsSuffice
    <3> QED BY <3>1 DEF Closed
  <2>4. i \in cluster
    OBVIOUS
  <2> HIDE DEF cluster
  <2> QED BY <2>3, <2>4, ComponentIsLeastClosed
<1> QED BY <1>1, <1>2, <1>3

(* At every moment of every build, whatever the exports, the side files and the
   title rules, and in whatever order the Go maps are walked, two entries hang
   on one root of the disjoint set only if a chain of same courses joins them;
   from the canonical pass on, exactly if one does.                           *)
THEOREM ClustersTheorem == Spec => []ClustersAreComponents
BY InvHolds, ClustersFromInv, PTL

LEMMA DistinctFromInv ==
    ASSUME ClusterInv
    PROVE  CoursesAreDistinct
<1> SUFFICES ASSUME NEW r \in DOMAIN courses, NEW s \in DOMAIN courses,
                    courses[r].identity = courses[s].identity
             PROVE  r = s
  BY DEF CoursesAreDistinct
<1>1. /\ canonical[r] \in Index /\ Root(parent, canonical[r]) = r
      /\ canonical[s] \in Index /\ Root(parent, canonical[s]) = s
      /\ Identity(entries[canonical[r]]) = Identity(entries[canonical[s]])
  BY DEF ClusterInv, Speakers
<1>2. entries \in Seq(Entry) /\ pass \notin Before("assemble")
  BY DEF ClusterInv, Typed, Speakers
<1>3. /\ Joined(IdentityJobs) /\ Joined(RepairedJobs)
      /\ Joined(SharedURLJobs) /\ Joined(NormalizedJobs)
  BY <1>2 DEF ClusterInv, Progress, Before
<1>4. Same(canonical[r], canonical[s])
  BY <1>1 DEF Same, SameCourse
<1> QED BY <1>1, <1>2, <1>3, <1>4, JobsSuffice

(* Of two courses of a build, whether it ends or fails, each has an identity of
   its own: the identity of the canonical entry that speaks for a cluster is not
   that of an entry of another.                                               *)
THEOREM DistinctTheorem == Spec => []CoursesAreDistinct
BY InvHolds, DistinctFromInv, PTL

-----------------------------------------------------------------------------
(* The accounts of an entry that have been merged.                            *)
Merged(p) == p[1] < read[1] \/ (p[1] = read[1] /\ p[2] < read[2])

Read(id) == {p \in Accounts(build) : Merged(p) /\ Account(build, p).id = id}

Distinct == \A i, j \in Index : entries[i].id = entries[j].id => i = j

(* Each entry is what the exports merged so far say of it, unless the first one
   has two of an identity, which the assembling pass will reject.             *)
Collected ==
    /\ pass # "merge" => read[1] > Len(build.exports)
    /\ \A p \in Accounts(build) :
         Merged(p) => \E i \in Index : entries[i].id = Account(build, p).id
    /\ Distinct => \A i \in Index :
         /\ Read(entries[i].id) # {}
         /\ entries[i] = Gathered(build, Read(entries[i].id))

(* No entry that has been looked at precedes the canonical one of its cluster. *)
Chosen ==
    \A i \in Index :
        (pass = "canonical" /\ i < next) \/ pass \notin Before("assemble") =>
            ~Precedes(i, canonical[Root(parent, i)])

(* Course c is that of the entries S, for which s speaks.                     *)
Assembled(c, S, s) ==
    /\ {"identity", "first", "last", "links", "sources"} \subseteq DOMAIN c
    /\ c.first \in Time /\ c.last \in Time /\ c.links \in LinkMap /\ c.sources \in Seq(Nat)
    /\ ToSet(c.sources) = {entries[i].id : i \in S}
    /\ Len(c.sources) = Cardinality(S)
    /\ \A i \in S :
         /\ ~TimestampBefore(entries[i].added, c.first)
         /\ ~TimestampBefore(c.last, entries[i].added)
         /\ \A k \in DOMAIN EntryLinks(build, entries[i]) :
              /\ k \in DOMAIN c.links
              /\ EntryLinks(build, entries[i])[k].primary => c.links[k].primary
              /\ i = s => EntryLinks(build, entries[i])[k].label \in {NoLabel, c.links[k].label}
    /\ \A k \in DOMAIN c.links : \E i \in S : k \in DOMAIN EntryLinks(build, entries[i])

(* What has been looked at of the cluster of r.                               *)
Looked(r) == {i \in Index : i < next /\ Root(parent, i) = r}

Assembling ==
    pass \notin Before("assemble") =>
        /\ \A i \in Index : i < next =>
             /\ Root(parent, i) \in DOMAIN courses /\ entries[i].added # NoTime
             /\ \A j \in 1..(i - 1) : entries[j].id # entries[i].id
        /\ \A r \in DOMAIN courses : Assembled(courses[r], Looked(r), canonical[r])
        /\ pass = "done" =>
             /\ \A i \in Index : i < next
             /\ catalogue = {courses[r] : r \in {x \in DOMAIN courses : Linked(courses[x])}}

CourseInv == Collected /\ Chosen /\ Assembling


-----------------------------------------------------------------------------
(* The links of an entry and of a course.                                     *)

LEMMA MergedLinks ==
    ASSUME NEW s \in LinkMap, NEW t \in LinkMap
    PROVE  /\ MergeLinks(s, t) \in LinkMap
           /\ DOMAIN MergeLinks(s, t) = DOMAIN s \cup DOMAIN t
           /\ \A k \in DOMAIN s : /\ s[k].primary => MergeLinks(s, t)[k].primary
                                  /\ s[k].label # NoLabel => MergeLinks(s, t)[k].label = s[k].label
           /\ \A k \in DOMAIN t : t[k].primary => MergeLinks(s, t)[k].primary
<1>1. /\ DOMAIN s \subseteq Keys /\ DOMAIN t \subseteq Keys
      /\ \A k \in DOMAIN s : s[k] \in LinkInfo
      /\ \A k \in DOMAIN t : t[k] \in LinkInfo
  BY DEF LinkMap
<1>2. DOMAIN MergeLinks(s, t) = DOMAIN s \cup DOMAIN t
  BY DEF MergeLinks
<1>3. MergeLinks(s, t) \in [DOMAIN s \cup DOMAIN t -> LinkInfo]
  BY <1>1 DEF MergeLinks, LinkInfo
<1>4. MergeLinks(s, t) \in LinkMap
  <2> DEFINE D == DOMAIN s \cup DOMAIN t
  <2>1. D \in SUBSET Keys
    BY <1>1
  <2> QED BY <1>3, <2>1 DEF LinkMap
<1>5. ASSUME NEW k \in DOMAIN s
      PROVE  /\ s[k].primary => MergeLinks(s, t)[k].primary
             /\ s[k].label # NoLabel => MergeLinks(s, t)[k].label = s[k].label
  BY <1>1, <1>5 DEF MergeLinks, LinkInfo
<1>6. ASSUME NEW k \in DOMAIN t PROVE t[k].primary => MergeLinks(s, t)[k].primary
  BY <1>1, <1>6 DEF MergeLinks, LinkInfo
<1> QED BY <1>2, <1>4, <1>5, <1>6

LEMMA LinksOfEntry ==
    ASSUME NEW b \in Build, NEW e \in Entry
    PROVE  /\ EntryLinks(b, e) \in LinkMap
           /\ \A k : k \in DOMAIN EntryLinks(b, e) <=>
                /\ ~Excluded(b, e, k)
                /\ \/ k \in TorrentKeys(b, e)
                   \/ k \in DOMAIN e.links /\ ActionableSourceLink(e, k)
           /\ \A k \in DOMAIN EntryLinks(b, e) :
                k \in DOMAIN e.links /\ e.links[k].primary => EntryLinks(b, e)[k].primary
<1> DEFINE A == [k \in AcceptedKeys(b, e) |-> e.links[k]]
           T == {t \in TorrentKeys(b, e) : ~Excluded(b, e, t)}
           B == [k \in T |-> [primary |-> FALSE, label |-> NoLabel]]
<1>1. DOMAIN e.links \subseteq Keys /\ \A k \in DOMAIN e.links : e.links[k] \in LinkInfo
  BY DEF Entry, LinkMap
<1>2. AcceptedKeys(b, e) \subseteq DOMAIN e.links /\ T \subseteq Keys
  BY DEF AcceptedKeys, TrustedKeys, TorrentKeys
<1>3. A \in LinkMap
  BY <1>1, <1>2 DEF LinkMap
<1>4. B \in LinkMap
  <2>1. [primary |-> FALSE, label |-> NoLabel] \in LinkInfo
    BY DEF LinkInfo
  <2>2. B \in [T -> LinkInfo] /\ T \in SUBSET Keys
    BY <1>2, <2>1
  <2> HIDE DEF B, T
  <2> QED BY <2>2 DEF LinkMap
<1>5. EntryLinks(b, e) = MergeLinks(A, B)
  BY DEF EntryLinks
<1>6. DOMAIN A = AcceptedKeys(b, e) /\ DOMAIN B = T /\ \A k \in AcceptedKeys(b, e) : A[k] = e.links[k]
  OBVIOUS
<1> HIDE DEF A, B
<1>7. EntryLinks(b, e) \in LinkMap /\ DOMAIN EntryLinks(b, e) = AcceptedKeys(b, e) \cup T
  BY <1>3, <1>4, <1>5, <1>6, MergedLinks
<1>8. \A k : k \in DOMAIN EntryLinks(b, e) <=>
                /\ ~Excluded(b, e, k)
                /\ \/ k \in TorrentKeys(b, e)
                   \/ k \in DOMAIN e.links /\ ActionableSourceLink(e, k)
  BY <1>7 DEF AcceptedKeys, TrustedKeys
<1>9. ASSUME NEW k \in DOMAIN EntryLinks(b, e), k \in DOMAIN e.links, e.links[k].primary
      PROVE  EntryLinks(b, e)[k].primary
  <2>1. k \in AcceptedKeys(b, e)
    BY <1>8, <1>9 DEF AcceptedKeys, TrustedKeys, ActionableSourceLink
  <2> QED BY <1>3, <1>4, <1>5, <1>6, <1>9, <2>1, MergedLinks
<1> QED BY <1>7, <1>8, <1>9

(* What two courses of entries of one cluster make together, the first being the
   one with the entry that speaks for it, if that is among them.              *)
LEMMA MergedCourses ==
    ASSUME NEW c, NEW d, NEW S, NEW T, NEW s, IsFiniteSet(S), IsFiniteSet(T), S \cap T = {},
           Assembled(c, S, s), Assembled(d, T, s), s \notin T,
           \A i \in S \cup T : entries[i].added \in Time
    PROVE  Assembled(MergeCatalogEntry(c, d), S \cup T, s)
<1> DEFINE m == MergeCatalogEntry(c, d)
           links == MergeLinks(c.links, d.links)
<1>0. /\ {"identity", "first", "last", "links", "sources"} \subseteq DOMAIN c
      /\ c.first \in Time /\ c.last \in Time /\ c.links \in LinkMap /\ c.sources \in Seq(Nat)
      /\ d.first \in Time /\ d.last \in Time /\ d.links \in LinkMap /\ d.sources \in Seq(Nat)
  BY DEF Assembled
<1>1. /\ DOMAIN m = DOMAIN c
      /\ m.first = IF TimestampBefore(d.first, c.first) THEN d.first ELSE c.first
      /\ m.last = IF TimestampBefore(c.last, d.last) THEN d.last ELSE c.last
      /\ m.links = links
      /\ m.sources = c.sources \o d.sources
  BY <1>0 DEF MergeCatalogEntry
<1>2. /\ links \in LinkMap /\ DOMAIN links = DOMAIN c.links \cup DOMAIN d.links
      /\ \A k \in DOMAIN c.links :
           /\ c.links[k].primary => links[k].primary
           /\ c.links[k].label # NoLabel => links[k].label = c.links[k].label
      /\ \A k \in DOMAIN d.links : d.links[k].primary => links[k].primary
  BY <1>0, MergedLinks
<1> HIDE DEF m, links
<1>3. /\ m.sources \in Seq(Nat) /\ Len(m.sources) = Len(c.sources) + Len(d.sources)
      /\ ToSet(m.sources) = ToSet(c.sources) \cup ToSet(d.sources)
  <2> DEFINE p == c.sources
             q == d.sources
  <2>1. /\ p \in Seq(Nat) /\ q \in Seq(Nat) /\ m.sources = p \o q
        /\ Len(p) \in Nat /\ Len(q) \in Nat /\ DOMAIN p = 1..Len(p) /\ DOMAIN q = 1..Len(q)
    BY <1>0, <1>1
  <2> HIDE DEF p, q
  <2>2. /\ p \o q \in Seq(Nat) /\ Len(p \o q) = Len(p) + Len(q)
        /\ DOMAIN (p \o q) = 1..(Len(p) + Len(q))
        /\ \A i \in 1..(Len(p) + Len(q)) : (p \o q)[i] = IF i <= Len(p) THEN p[i] ELSE q[i - Len(p)]
    BY <2>1, ConcatProperties
  <2>3. ASSUME NEW x \in ToSet(p \o q) PROVE x \in ToSet(p) \cup ToSet(q)
    <3>1. PICK i \in 1..(Len(p) + Len(q)) : x = (p \o q)[i]
      BY <2>2, <2>3 DEF ToSet
    <3>2. CASE i <= Len(p)
      BY <2>1, <2>2, <3>1, <3>2 DEF ToSet
    <3>3. CASE ~(i <= Len(p))
      <4>1. i - Len(p) \in DOMAIN q
        BY <2>1, <3>3
      <4> QED BY <2>2, <3>1, <3>3, <4>1 DEF ToSet
    <3> QED BY <3>2, <3>3
  <2>4. ASSUME NEW x \in ToSet(p) PROVE x \in ToSet(p \o q)
    <3>1. PICK i \in 1..Len(p) : x = p[i]
      BY <2>1, <2>4 DEF ToSet
    <3>2. i \in 1..(Len(p) + Len(q)) /\ (p \o q)[i] = x
      BY <2>1, <2>2, <3>1
    <3> QED BY <2>2, <3>2 DEF ToSet
  <2>5. ASSUME NEW x \in ToSet(q) PROVE x \in ToSet(p \o q)
    <3>1. PICK i \in 1..Len(q) : x = q[i]
      BY <2>1, <2>5 DEF ToSet
    <3>2. Len(p) + i \in 1..(Len(p) + Len(q)) /\ ~(Len(p) + i <= Len(p)) /\ Len(p) + i - Len(p) = i
      BY <2>1
    <3>3. (p \o q)[Len(p) + i] = x
      BY <2>2, <3>1, <3>2
    <3> QED BY <2>2, <3>2, <3>3 DEF ToSet
  <2>6. ToSet(p \o q) = ToSet(p) \cup ToSet(q)
    BY <2>3, <2>4, <2>5
  <2> QED BY <2>1, <2>2, <2>6 DEF p, q
<1>4. ToSet(m.sources) = {entries[i].id : i \in S \cup T}
  BY <1>3 DEF Assembled
<1>5. Len(m.sources) = Cardinality(S \cup T)
  <2>1. Cardinality(S \cup T) = Cardinality(S) + Cardinality(T)
    <3>1. Cardinality(S \cap T) = 0 /\ Cardinality(S) \in Nat /\ Cardinality(T) \in Nat
      BY FS_EmptySet, FS_CardinalityType
    <3>2. Cardinality(S \cup T) = Cardinality(S) + Cardinality(T) - Cardinality(S \cap T)
      BY FS_Union
    <3> QED BY <3>1, <3>2
  <2> QED BY <1>3, <2>1 DEF Assembled
<1>6. m.first \in Time /\ m.last \in Time
  BY <1>0, <1>1
<1>7. ASSUME NEW i \in S \cup T
      PROVE  ~TimestampBefore(entries[i].added, m.first) /\ ~TimestampBefore(m.last, entries[i].added)
  <2> DEFINE Instant(u) == IF u = NoTime THEN 0 ELSE u.instant
  <2>1. \A u \in Time : Instant(u) \in Nat
    BY DEF Time
  <2>2. entries[i].added \in Time
    BY <1>7
  <2>3. \/ ~TimestampBefore(entries[i].added, c.first) /\ ~TimestampBefore(c.last, entries[i].added)
        \/ ~TimestampBefore(entries[i].added, d.first) /\ ~TimestampBefore(d.last, entries[i].added)
    BY <1>7 DEF Assembled
  <2>4. \A u, v : TimestampBefore(u, v) <=> Instant(u) < Instant(v)
    BY DEF TimestampBefore
  <2> HIDE DEF Instant
  <2> QED BY <1>0, <1>1, <2>1, <2>2, <2>3, <2>4
<1>8. ASSUME NEW i \in S \cup T, NEW k \in DOMAIN EntryLinks(build, entries[i])
      PROVE  /\ k \in DOMAIN links
             /\ EntryLinks(build, entries[i])[k].primary => links[k].primary
             /\ i = s => EntryLinks(build, entries[i])[k].label \in {NoLabel, links[k].label}
  <2>1. CASE i \in S
    <3>1. /\ k \in DOMAIN c.links
          /\ EntryLinks(build, entries[i])[k].primary => c.links[k].primary
          /\ i = s => EntryLinks(build, entries[i])[k].label \in {NoLabel, c.links[k].label}
      BY <1>8, <2>1 DEF Assembled
    <3> QED BY <1>2, <3>1
  <2>2. CASE i \in T
    <3>1. /\ k \in DOMAIN d.links
          /\ EntryLinks(build, entries[i])[k].primary => d.links[k].primary
      BY <1>8, <2>2 DEF Assembled
    <3> QED BY <1>2, <2>2, <3>1
  <2> QED BY <2>1, <2>2
<1>9. ASSUME NEW k \in DOMAIN links
      PROVE  \E i \in S \cup T : k \in DOMAIN EntryLinks(build, entries[i])
  BY <1>2, <1>9 DEF Assembled
<1>10. {"identity", "first", "last", "links", "sources"} \subseteq DOMAIN m
  BY <1>0, <1>1
<1> QED BY <1>1, <1>2, <1>3, <1>4, <1>5, <1>6, <1>7, <1>8, <1>9, <1>10 DEF Assembled, m

(* The course that one sound entry makes.                                     *)
LEMMA OneEntryCourse ==
    ASSUME build \in Build, entries \in Seq(Entry), NEW i \in Index, entries[i].added # NoTime,
           NEW identity, NEW s
    PROVE  /\ Assembled(Candidate(i, identity), {i}, s)
           /\ entries[i].added \in Time
<1> DEFINE c == Candidate(i, identity)
<1>1. entries[i] \in Entry
  BY IndexEntries
<1>2. entries[i].added \in Time /\ entries[i].id \in Nat
  BY <1>1 DEF Entry
<1>3. EntryLinks(build, entries[i]) \in LinkMap
  BY <1>1, LinksOfEntry
<1>4. /\ DOMAIN c = {"identity", "first", "last", "links", "sources"}
      /\ c.first = entries[i].added /\ c.last = entries[i].added
      /\ c.links = EntryLinks(build, entries[i]) /\ c.sources = <<entries[i].id>>
  BY DEF Candidate
<1> HIDE DEF c
<1>5. c.sources \in Seq(Nat) /\ Len(c.sources) = 1 /\ ToSet(c.sources) = {entries[i].id}
  BY <1>2, <1>4 DEF ToSet
<1>6. Cardinality({i}) = 1
  BY FS_Singleton
<1>7. ~TimestampBefore(entries[i].added, entries[i].added)
  <2>1. entries[i].added.instant \in Nat
    BY <1>2 DEF Time
  <2> QED BY <2>1 DEF TimestampBefore
<1> QED BY <1>2, <1>3, <1>4, <1>5, <1>6, <1>7 DEF Assembled, c

-----------------------------------------------------------------------------
(* Merging the exports.                                                       *)

LEMMA MaxIsIn ==
    ASSUME NEW n \in Nat, NEW S \in SUBSET (1..n), S # {}
    PROVE  Max(S) \in S /\ \A x \in S : x <= Max(S)
<1> DEFINE T == {m \in Nat : \A x \in S : x <= m}
           least == Min(T)
<1>1. n \in T
  OBVIOUS
<1>2. least \in T /\ \A m \in T : least <= m
  BY <1>1, MinIsLeast
<1>3. least \in S
  <2> SUFFICES ASSUME least \notin S PROVE FALSE
    OBVIOUS
  <2>1. least \in Nat /\ \A x \in S : x <= least /\ x \in Nat /\ x >= 1
    BY <1>2
  <2>2. PICK x \in S : TRUE
    OBVIOUS
  <2> HIDE DEF least
  <2>3. \A y \in S : y <= least - 1
    BY <2>1
  <2>4. least - 1 \in Nat
    BY <2>1, <2>2
  <2>5. least - 1 \in T
    BY <2>3, <2>4
  <2> QED BY <1>2, <2>1, <2>5
<1>4. \A y \in S : least >= y
  BY <1>2
<1> HIDE DEF least
<1>5. Max(S) \in S /\ \A y \in S : Max(S) >= y
  BY <1>3, <1>4 DEF Max
<1> QED BY <1>5

LEMMA AccountsAre ==
    ASSUME NEW b \in Build
    PROVE  /\ b.exports \in Seq(Seq(Entry) \ {<<>>}) /\ Len(b.exports) \in Nat
           /\ DOMAIN b.exports = 1..Len(b.exports)
           /\ \A x \in DOMAIN b.exports :
                /\ b.exports[x] \in Seq(Entry) /\ Len(b.exports[x]) \in Nat
                /\ DOMAIN b.exports[x] = 1..Len(b.exports[x])
           /\ \A x, y : <<x, y>> \in Accounts(b) <=> x \in DOMAIN b.exports /\ y \in DOMAIN b.exports[x]
           /\ \A p \in Accounts(b) :
                /\ p = <<p[1], p[2]>> /\ p[1] \in Nat /\ p[2] \in Nat
                /\ p[1] \in DOMAIN b.exports /\ p[2] \in DOMAIN b.exports[p[1]]
                /\ Account(b, p) \in Entry
<1>1. b.exports \in Seq(Seq(Entry) \ {<<>>})
  BY DEF Build
<1>2. Len(b.exports) \in Nat /\ DOMAIN b.exports = 1..Len(b.exports)
  BY <1>1
<1>3. ASSUME NEW x \in DOMAIN b.exports
      PROVE  /\ b.exports[x] \in Seq(Entry) /\ Len(b.exports[x]) \in Nat
             /\ DOMAIN b.exports[x] = 1..Len(b.exports[x])
  <2>1. b.exports[x] \in Seq(Entry)
    BY <1>1
  <2> QED BY <2>1
<1>4. ASSUME NEW p \in Accounts(b)
      PROVE  \E x \in DOMAIN b.exports : \E y \in DOMAIN b.exports[x] : p = <<x, y>>
  BY DEF Accounts
<1>5. ASSUME NEW x \in DOMAIN b.exports, NEW y \in DOMAIN b.exports[x] PROVE <<x, y>> \in Accounts(b)
  <2> DEFINE Of(z) == {<<z, w>> : w \in DOMAIN b.exports[z]}
  <2>1. <<x, y>> \in Of(x)
    OBVIOUS
  <2>2. Accounts(b) = UNION {Of(z) : z \in DOMAIN b.exports}
    BY DEF Accounts
  <2> HIDE DEF Of
  <2> QED BY <2>1, <2>2
<1>6. ASSUME NEW x, NEW y, <<x, y>> \in Accounts(b)
      PROVE  x \in DOMAIN b.exports /\ y \in DOMAIN b.exports[x]
  BY <1>4, <1>6
<1>7. ASSUME NEW p \in Accounts(b)
      PROVE  /\ p = <<p[1], p[2]>> /\ p[1] \in Nat /\ p[2] \in Nat
             /\ p[1] \in DOMAIN b.exports /\ p[2] \in DOMAIN b.exports[p[1]]
             /\ Account(b, p) \in Entry
  <2>1. PICK x \in DOMAIN b.exports : \E y \in DOMAIN b.exports[x] : p = <<x, y>>
    BY <1>4
  <2>2. PICK y \in DOMAIN b.exports[x] : p = <<x, y>>
    BY <2>1
  <2>3. p[1] = x /\ p[2] = y
    BY <2>2
  <2>4. x \in Nat /\ y \in Nat
    BY <1>2, <1>3
  <2>5. b.exports[x][y] \in Entry
    BY <1>3
  <2> QED BY <2>2, <2>3, <2>4, <2>5 DEF Account
<1> QED BY <1>1, <1>2, <1>3, <1>5, <1>6, <1>7

(* Among some accounts there is a first and a last one.                       *)
LEMMA EarlierIsOrder ==
    ASSUME NEW b \in Build, NEW p \in Accounts(b), NEW q \in Accounts(b)
    PROVE  ~(Earlier(p, q) /\ Earlier(q, p)) /\ (p = q \/ Earlier(p, q) \/ Earlier(q, p))
<1>1. /\ p = <<p[1], p[2]>> /\ p[1] \in Nat /\ p[2] \in Nat
      /\ q = <<q[1], q[2]>> /\ q[1] \in Nat /\ q[2] \in Nat
  BY AccountsAre
<1>2. p[1] = q[1] /\ p[2] = q[2] => p = q
  BY <1>1
<1> QED BY <1>1, <1>2 DEF Earlier

LEMMA EarliestIs ==
    ASSUME NEW b \in Build, NEW S \in SUBSET Accounts(b), S # {}
    PROVE  Earliest(S) \in S /\ \A q \in S \ {Earliest(S)} : Earlier(Earliest(S), q)
<1>1. \A p \in S : p \in Accounts(b) /\ p = <<p[1], p[2]>> /\ p[1] \in Nat /\ p[2] \in Nat
  BY AccountsAre
<1> DEFINE X == {p[1] : p \in S}
           x == Min(X)
           Y == {p[2] : p \in {q \in S : q[1] = x}}
           y == Min(Y)
<1>2. x \in X /\ \A z \in X : x <= z
  <2>1. PICK p \in S : TRUE
    OBVIOUS
  <2>2. p[1] \in X /\ X \subseteq Nat
    BY <1>1
  <2> HIDE DEF X
  <2> QED BY <2>2, MinIsLeast
<1> HIDE DEF x
<1>3. y \in Y /\ \A z \in Y : y <= z
  <2>1. PICK p \in S : p[1] = x
    BY <1>2
  <2>2. p[2] \in Y /\ Y \subseteq Nat
    BY <1>1, <2>1
  <2> HIDE DEF Y
  <2> QED BY <2>2, MinIsLeast
<1> HIDE DEF y
<1>4. PICK p \in S : p[1] = x /\ p[2] = y
  BY <1>3
<1>5. ASSUME NEW q \in S \ {p} PROVE Earlier(p, q)
  <2>1. /\ x <= q[1] /\ q[1] \in Nat /\ x \in Nat /\ y \in Nat /\ q[2] \in Nat
        /\ q[1] = x => y <= q[2]
    BY <1>1, <1>2, <1>3, <1>4
  <2>2. ~(q[1] = p[1] /\ q[2] = p[2])
    BY <1>1
  <2> QED BY <1>4, <2>1, <2>2 DEF Earlier
<1> QED BY <1>5 DEF Earliest

LEMMA LatestIs ==
    ASSUME NEW b \in Build, NEW S \in SUBSET Accounts(b), S # {}
    PROVE  Latest(S) \in S /\ \A q \in S \ {Latest(S)} : Earlier(q, Latest(S))
<1>1. \A p \in S : p \in Accounts(b) /\ p = <<p[1], p[2]>> /\ p[1] \in Nat /\ p[2] \in Nat
  BY AccountsAre
<1> DEFINE X == {p[1] : p \in S}
           x == Max(X)
           Y == {p[2] : p \in {q \in S : q[1] = x}}
           y == Max(Y)
<1>2. x \in X /\ \A z \in X : z <= x
  <2>1. X # {}
    OBVIOUS
  <2>2. X \subseteq 1..Len(b.exports) /\ Len(b.exports) \in Nat
    BY AccountsAre
  <2> HIDE DEF X
  <2> QED BY <2>1, <2>2, MaxIsIn
<1> HIDE DEF x
<1>3. y \in Y /\ \A z \in Y : z <= y
  <2>1. PICK p \in S : p[1] = x
    BY <1>2
  <2>2. p[2] \in Y
    BY <2>1
  <2>3. Y \subseteq 1..Len(b.exports[x]) /\ Len(b.exports[x]) \in Nat
    <3>1. x \in DOMAIN b.exports
      BY <2>1, AccountsAre
    <3>2. DOMAIN b.exports[x] = 1..Len(b.exports[x]) /\ Len(b.exports[x]) \in Nat
      BY <3>1, AccountsAre
    <3>3. \A q \in S : q[1] = x => q[2] \in DOMAIN b.exports[x]
      BY AccountsAre
    <3> QED BY <3>2, <3>3
  <2> HIDE DEF Y
  <2> QED BY <2>2, <2>3, MaxIsIn
<1> HIDE DEF y
<1>4. PICK p \in S : p[1] = x /\ p[2] = y
  BY <1>3
<1>5. ASSUME NEW q \in S \ {p} PROVE Earlier(q, p)
  <2>1. /\ q[1] <= x /\ q[1] \in Nat /\ x \in Nat /\ y \in Nat /\ q[2] \in Nat
        /\ q[1] = x => q[2] <= y
    BY <1>1, <1>2, <1>3, <1>4
  <2>2. ~(q[1] = p[1] /\ q[2] = p[2])
    BY <1>1
  <2> QED BY <1>4, <2>1, <2>2 DEF Earlier
<1> QED BY <1>5 DEF Latest

(* The first and the last of some accounts when one more comes in, after all of
   them.                                                                       *)
After(b, P, p) ==
    P \in SUBSET Accounts(b) /\ P # {} /\ p \in Accounts(b) /\ \A q \in P : Earlier(q, p)

Extended(P, p) == P \cup {p}

LEMMA EarliestGrows ==
    ASSUME NEW b \in Build, NEW Q, NEW p, After(b, Q, p)
    PROVE  Earliest(Extended(Q, p)) = Earliest(Q)
<1> DEFINE f == Earliest(Q)
           R == Extended(Q, p)
           g == Earliest(R)
<1>0. /\ Q \in SUBSET Accounts(b) /\ Q # {} /\ p \in Accounts(b) /\ (\A q \in Q : Earlier(q, p))
      /\ R = Q \cup {p}
  BY DEF After, Extended
<1> HIDE DEF R
<1>1. f \in Q /\ \A q \in Q \ {f} : Earlier(f, q)
  BY <1>0, EarliestIs
<1>2. g \in R /\ \A q \in R \ {g} : Earlier(g, q)
  <2>1. R \in SUBSET Accounts(b) /\ R # {}
    BY <1>0
  <2> QED BY <2>1, EarliestIs
<1> HIDE DEF f, g
<1>3. Earlier(f, p) /\ f \in Accounts(b) /\ g \in Accounts(b)
  BY <1>0, <1>1, <1>2
<1>4. f # g => Earlier(f, g) /\ Earlier(g, f)
  BY <1>0, <1>1, <1>2, <1>3
<1>5. f = g
  BY <1>3, <1>4, EarlierIsOrder
<1> QED BY <1>5 DEF f, g, R

LEMMA LatestGrows ==
    ASSUME NEW b \in Build, NEW Q, NEW p, After(b, Q, p)
    PROVE  Latest(Extended(Q, p)) = p
<1> DEFINE R == Extended(Q, p)
           g == Latest(R)
<1>0. /\ Q \in SUBSET Accounts(b) /\ p \in Accounts(b) /\ (\A q \in Q : Earlier(q, p))
      /\ R = Q \cup {p}
  BY DEF After, Extended
<1> HIDE DEF R
<1>1. g \in R /\ \A q \in R \ {g} : Earlier(q, g)
  <2>1. R \in SUBSET Accounts(b) /\ R # {}
    BY <1>0
  <2> QED BY <2>1, LatestIs
<1> HIDE DEF g
<1>2. g # p => Earlier(p, g) /\ Earlier(g, p) /\ g \in Accounts(b)
  BY <1>0, <1>1
<1>3. g = p
  BY <1>0, <1>2, EarlierIsOrder
<1> QED BY <1>3 DEF g, R

LEMMA AloneIs ==
    ASSUME NEW b \in Build, NEW p \in Accounts(b)
    PROVE  Earliest(Extended({}, p)) = p /\ Latest(Extended({}, p)) = p
<1>1. {p} \in SUBSET Accounts(b) /\ {p} # {} /\ Extended({}, p) = {p}
  BY DEF Extended
<1>2. Earliest({p}) \in {p} /\ Latest({p}) \in {p}
  BY <1>1, EarliestIs, LatestIs
<1> QED BY <1>1, <1>2

(* The account that counts when one more comes in.                            *)
LEMMA LastWordGrows ==
    ASSUME NEW b \in Build, NEW P, NEW p, After(b, P, p), NEW S \in SUBSET P
    PROVE  /\ LastWord(Extended(P, p), S) = LastWord(P, S)
           /\ LastWord(Extended(P, p), Extended(S, p)) = p
<1>1. Earliest(Extended(P, p)) = Earliest(P)
  BY EarliestGrows
<1>2. Latest(Extended(S, p)) = p
  <2>1. p \in Accounts(b) /\ (S # {} => After(b, S, p))
    BY DEF After
  <2> QED BY <2>1, LatestGrows, AloneIs
<1>3. Extended(S, p) # {}
  BY DEF Extended
<1> QED BY <1>1, <1>2, <1>3 DEF LastWord

LEMMA FirstWordGrows ==
    ASSUME NEW b \in Build, NEW P, NEW p, After(b, P, p), NEW S \in SUBSET P
    PROVE  /\ FirstWord(Extended(P, p), S) = FirstWord(P, S)
           /\ FirstWord(Extended(P, p), Extended(S, p)) = IF S = {} THEN p ELSE Earliest(S)
           /\ FirstWord(P, S) \in P
           /\ S # {} => FirstWord(P, S) \in S
<1>1. Earliest(Extended(P, p)) = Earliest(P)
  BY EarliestGrows
<1>2. p \in Accounts(b) /\ (S # {} => After(b, S, p))
  BY DEF After
<1>3. Earliest(Extended(S, p)) = IF S = {} THEN p ELSE Earliest(S)
  BY <1>2, EarliestGrows, AloneIs
<1>4. Earliest(P) \in P /\ (S # {} => Earliest(S) \in S)
  <2>1. P \in SUBSET Accounts(b) /\ P # {} /\ S \in SUBSET Accounts(b)
    BY DEF After
  <2> QED BY <2>1, EarliestIs
<1>5. Extended(S, p) # {}
  BY DEF Extended
<1> QED BY <1>1, <1>3, <1>4, <1>5 DEF FirstWord

LEMMA OneWord ==
    ASSUME NEW b \in Build, NEW p \in Accounts(b)
    PROVE  /\ Earliest({p}) = p
           /\ \A S \in SUBSET {p} : LastWord({p}, S) = p /\ FirstWord({p}, S) = p
<1>1. {p} \in SUBSET Accounts(b) /\ {p} # {}
  OBVIOUS
<1>2. Earliest({p}) = p /\ Latest({p}) = p
  BY <1>1, EarliestIs, LatestIs
<1>3. \A S \in SUBSET {p} : S = {} \/ S = {p}
  OBVIOUS
<1> QED BY <1>2, <1>3 DEF LastWord, FirstWord

(* What a single account says of a link is that account.                      *)
LEMMA OneAccountLink ==
    ASSUME NEW b \in Build, NEW p \in Accounts(b), NEW k \in DOMAIN Account(b, p).links
    PROVE  /\ GatheredLink(b, {p}, k) = Account(b, p).links[k]
           /\ GatheredOrigin(b, {p}, k) = Account(b, p).origins[k]
<1> DEFINE e == Account(b, p)
<1>1. e \in Entry
  BY AccountsAre
<1>2. e.links \in LinkMap /\ e.origins \in OriginMap /\ DOMAIN e.origins = DOMAIN e.links
  BY <1>1 DEF Entry
<1>3. GatheredLink(b, {p}, k) = e.links[k]
  <2>1. e.links[k] \in LinkInfo
    BY <1>2 DEF LinkMap
  <2>2. FirstWord({p}, {q \in {p} : Account(b, q).links[k].label # NoLabel}) = p
    BY OneWord
  <2>3. GatheredLink(b, {p}, k) =
          [primary |-> \E q \in {p} : Account(b, q).links[k].primary, label |-> e.links[k].label]
    BY <2>2 DEF GatheredLink
  <2>4. (\E q \in {p} : Account(b, q).links[k].primary) = e.links[k].primary
    BY <2>1 DEF LinkInfo
  <2> HIDE DEF e
  <2> QED BY <2>1, <2>3, <2>4 DEF LinkInfo
<1>4. GatheredOrigin(b, {p}, k) = e.origins[k]
  <2>1. e.origins[k] \in Origin
    BY <1>2 DEF OriginMap
  <2>2. FirstWord({p}, {q \in {p} : Account(b, q).origins[k].from # ""}) = p /\ Earliest({p}) = p
    BY OneWord
  <2>3. UNION {Account(b, q).origins[k].places : q \in {p}} = e.origins[k].places
    OBVIOUS
  <2>4. GatheredOrigin(b, {p}, k) =
          [firm |-> e.origins[k].firm, from |-> e.origins[k].from, places |-> e.origins[k].places]
    BY <2>2, <2>3 DEF GatheredOrigin
  <2> HIDE DEF e
  <2> QED BY <2>1, <2>4 DEF Origin
<1> QED BY <1>3, <1>4

(* What a single account says of an entry is that account.                    *)
LEMMA GatheredOne ==
    ASSUME NEW b \in Build, NEW p \in Accounts(b)
    PROVE  Gathered(b, {p}) = Account(b, p)
<1> DEFINE e == Account(b, p)
           Having(k) == {q \in {p} : k \in DOMAIN Account(b, q).links}
           keys == UNION {DOMAIN Account(b, q).links : q \in {p}}
<1>1. e \in Entry
  BY AccountsAre
<1>2. e.links \in LinkMap /\ e.origins \in OriginMap /\ DOMAIN e.origins = DOMAIN e.links
  BY <1>1 DEF Entry
<1>3. keys = DOMAIN e.links /\ \A k \in DOMAIN e.links : Having(k) = {p}
  OBVIOUS
<1>4. \A k \in DOMAIN e.links : /\ GatheredLink(b, {p}, k) = e.links[k]
                                /\ GatheredOrigin(b, {p}, k) = e.origins[k]
  BY OneAccountLink
<1>6. /\ [k \in keys |-> GatheredLink(b, Having(k), k)] = e.links
      /\ [k \in keys |-> GatheredOrigin(b, Having(k), k)] = e.origins
  <2>1. e.links = [k \in DOMAIN e.links |-> e.links[k]] /\ e.origins = [k \in DOMAIN e.links |-> e.origins[k]]
    BY <1>2 DEF LinkMap, OriginMap
  <2> HIDE DEF e, Having, keys
  <2> QED BY <1>3, <1>4, <2>1
<1>7. \A S \in SUBSET {p} : LastWord({p}, S) = p
  BY OneWord
<1>8. Gathered(b, {p}) =
        [id |-> e.id, message |-> e.message, title |-> e.title, credit |-> e.credit,
         author |-> e.author, raw |-> e.raw, year |-> e.year, added |-> e.added,
         links |-> [k \in keys |-> GatheredLink(b, Having(k), k)],
         origins |-> [k \in keys |-> GatheredOrigin(b, Having(k), k)]]
  BY <1>7, OneWord DEF Gathered
<1> HIDE DEF e, Having, keys
<1>9. e = [id |-> e.id, message |-> e.message, title |-> e.title, credit |-> e.credit,
           author |-> e.author, raw |-> e.raw, year |-> e.year, added |-> e.added,
           links |-> e.links, origins |-> e.origins]
  BY <1>1 DEF Entry
<1>10. Gathered(b, {p}) = e
  BY <1>6, <1>8, <1>9
<1> QED BY <1>10 DEF e

(* What one account more says of a link.                                      *)
LEMMA GatheredLinkGrows ==
    ASSUME NEW b \in Build, NEW Q \in SUBSET Accounts(b), Q # {}, NEW p \in Accounts(b),
           \A q \in Q : Earlier(q, p), NEW k,
           \A q \in Q \cup {p} : k \in DOMAIN Account(b, q).links
    PROVE  /\ GatheredLink(b, Q \cup {p}, k) =
                [primary |-> GatheredLink(b, Q, k).primary \/ Account(b, p).links[k].primary,
                 label   |-> IF GatheredLink(b, Q, k).label = NoLabel THEN Account(b, p).links[k].label
                             ELSE GatheredLink(b, Q, k).label]
           /\ GatheredOrigin(b, Q \cup {p}, k) =
                [firm   |-> GatheredOrigin(b, Q, k).firm,
                 from   |-> IF GatheredOrigin(b, Q, k).from = "" THEN Account(b, p).origins[k].from
                            ELSE GatheredOrigin(b, Q, k).from,
                 places |-> GatheredOrigin(b, Q, k).places \cup Account(b, p).origins[k].places]
<1> DEFINE L(q) == Account(b, q).links[k]
           O(q) == Account(b, q).origins[k]
           S == {q \in Q : L(q).label # NoLabel}
           T == {q \in Q : O(q).from # ""}
           f == FirstWord(Q, S)
           g == FirstWord(Q, T)
<1>1. /\ Earliest(Q \cup {p}) = Earliest(Q)
      /\ \A U \in SUBSET Q :
           /\ FirstWord(Q \cup {p}, U) = FirstWord(Q, U)
           /\ FirstWord(Q \cup {p}, U \cup {p}) = IF U = {} THEN p ELSE Earliest(U)
           /\ FirstWord(Q, U) \in Q
           /\ U # {} => FirstWord(Q, U) \in U /\ FirstWord(Q, U) = Earliest(U)
  <2>1. ASSUME NEW U \in SUBSET Q
        PROVE  /\ Earliest(Q \cup {p}) = Earliest(Q)
               /\ FirstWord(Q \cup {p}, U) = FirstWord(Q, U)
               /\ FirstWord(Q \cup {p}, U \cup {p}) = IF U = {} THEN p ELSE Earliest(U)
               /\ FirstWord(Q, U) \in Q
               /\ U # {} => FirstWord(Q, U) \in U
    <3> HIDE DEF L, O, S, T, f, g
    <3>1. b \in Build /\ After(b, Q, p)
      BY DEF After
    <3>2. /\ Earliest(Extended(Q, p)) = Earliest(Q)
          /\ FirstWord(Extended(Q, p), U) = FirstWord(Q, U)
          /\ FirstWord(Extended(Q, p), Extended(U, p)) = IF U = {} THEN p ELSE Earliest(U)
          /\ FirstWord(Q, U) \in Q /\ (U # {} => FirstWord(Q, U) \in U)
      BY <3>1, EarliestGrows, FirstWordGrows
    <3> QED BY <3>2 DEF Extended
  <2>2. Q \in SUBSET Q /\ \A U \in SUBSET Q : U # {} => FirstWord(Q, U) = Earliest(U)
    BY DEF FirstWord
  <2> QED BY <2>1, <2>2
<1>2. /\ GatheredLink(b, Q, k) = [primary |-> \E q \in Q : L(q).primary, label |-> L(f).label]
      /\ GatheredOrigin(b, Q, k) = [firm |-> O(Earliest(Q)).firm, from |-> O(g).from,
                                    places |-> UNION {O(q).places : q \in Q}]
  BY DEF GatheredLink, GatheredOrigin
<1>3. /\ {q \in Q \cup {p} : L(q).label # NoLabel} = IF L(p).label # NoLabel THEN S \cup {p} ELSE S
      /\ {q \in Q \cup {p} : O(q).from # ""} = IF O(p).from # "" THEN T \cup {p} ELSE T
  <2> HIDE DEF L, O
  <2> QED OBVIOUS
<1>4. /\ S = {} <=> L(f).label = NoLabel
      /\ T = {} <=> O(g).from = ""
  <2> HIDE DEF L, O
  <2>1. S \in SUBSET Q /\ T \in SUBSET Q
    OBVIOUS
  <2>2. f \in Q /\ g \in Q /\ (S # {} => f \in S) /\ (T # {} => g \in T)
    BY <1>1, <2>1
  <2> QED BY <2>2
<1>5. /\ GatheredLink(b, Q \cup {p}, k) =
           [primary |-> \E q \in Q \cup {p} : L(q).primary,
            label |-> L(FirstWord(Q \cup {p}, {q \in Q \cup {p} : L(q).label # NoLabel})).label]
      /\ GatheredOrigin(b, Q \cup {p}, k) =
           [firm |-> O(Earliest(Q \cup {p})).firm,
            from |-> O(FirstWord(Q \cup {p}, {q \in Q \cup {p} : O(q).from # ""})).from,
            places |-> UNION {O(q).places : q \in Q \cup {p}}]
  BY DEF GatheredLink, GatheredOrigin
<1>6. L(FirstWord(Q \cup {p}, {q \in Q \cup {p} : L(q).label # NoLabel})).label
        = IF L(f).label = NoLabel THEN L(p).label ELSE L(f).label
  <2>1. S \in SUBSET Q
    OBVIOUS
  <2>2. CASE L(p).label = NoLabel
    <3>1. FirstWord(Q \cup {p}, {q \in Q \cup {p} : L(q).label # NoLabel}) = f
      BY <1>1, <1>3, <2>1, <2>2
    <3> QED BY <2>2, <3>1
  <2>3. CASE L(p).label # NoLabel
    <3>1. FirstWord(Q \cup {p}, {q \in Q \cup {p} : L(q).label # NoLabel})
            = IF S = {} THEN p ELSE f
      BY <1>1, <1>3, <2>1, <2>3
    <3> QED BY <1>4, <3>1
  <2> QED BY <2>2, <2>3
<1>7. O(FirstWord(Q \cup {p}, {q \in Q \cup {p} : O(q).from # ""})).from
        = IF O(g).from = "" THEN O(p).from ELSE O(g).from
  <2>1. T \in SUBSET Q
    OBVIOUS
  <2>2. CASE O(p).from = ""
    <3>1. FirstWord(Q \cup {p}, {q \in Q \cup {p} : O(q).from # ""}) = g
      BY <1>1, <1>3, <2>1, <2>2
    <3> QED BY <2>2, <3>1
  <2>3. CASE O(p).from # ""
    <3>1. FirstWord(Q \cup {p}, {q \in Q \cup {p} : O(q).from # ""}) = IF T = {} THEN p ELSE g
      BY <1>1, <1>3, <2>1, <2>3
    <3> QED BY <1>4, <3>1
  <2> QED BY <2>2, <2>3
<1> DEFINE any == \E q \in Q : L(q).primary
           anyOf == \E q \in Q \cup {p} : L(q).primary
           places == UNION {O(q).places : q \in Q}
           placesOf == UNION {O(q).places : q \in Q \cup {p}}
<1>8. anyOf = (any \/ L(p).primary)
  <2> HIDE DEF L
  <2> QED OBVIOUS
<1>9. placesOf = places \cup O(p).places
  <2> HIDE DEF O
  <2> QED OBVIOUS
<1>10. /\ GatheredLink(b, Q, k) = [primary |-> any, label |-> L(f).label]
       /\ GatheredLink(b, Q \cup {p}, k) =
            [primary |-> anyOf, label |-> IF L(f).label = NoLabel THEN L(p).label ELSE L(f).label]
  BY <1>2, <1>5, <1>6
<1>11. GatheredOrigin(b, Q, k) = [firm |-> O(Earliest(Q)).firm, from |-> O(g).from, places |-> places]
  BY <1>2
<1>12. GatheredOrigin(b, Q \cup {p}, k) =
         [firm |-> O(Earliest(Q)).firm, from |-> IF O(g).from = "" THEN O(p).from ELSE O(g).from,
          places |-> placesOf]
  <2>1. Earliest(Q \cup {p}) = Earliest(Q)
    BY <1>1, Zenon
  <2> QED BY <1>5, <1>7, <2>1
<1> HIDE DEF L, O, f, g, any, anyOf, places, placesOf
<1>13. GatheredLink(b, Q \cup {p}, k) =
         [primary |-> GatheredLink(b, Q, k).primary \/ L(p).primary,
          label   |-> IF GatheredLink(b, Q, k).label = NoLabel THEN L(p).label
                      ELSE GatheredLink(b, Q, k).label]
  BY <1>8, <1>10
<1>14. GatheredOrigin(b, Q \cup {p}, k) =
         [firm   |-> GatheredOrigin(b, Q, k).firm,
          from   |-> IF GatheredOrigin(b, Q, k).from = "" THEN O(p).from
                     ELSE GatheredOrigin(b, Q, k).from,
          places |-> GatheredOrigin(b, Q, k).places \cup O(p).places]
  <2> DEFINE G == GatheredOrigin(b, Q, k)
  <2>1. G.firm = O(Earliest(Q)).firm /\ G.from = O(g).from /\ G.places = places
    BY <1>11
  <2>2. placesOf = G.places \cup O(p).places
    BY <1>9, <2>1
  <2> HIDE DEF G
  <2>3. GatheredOrigin(b, Q \cup {p}, k) =
          [firm |-> G.firm, from |-> IF G.from = "" THEN O(p).from ELSE G.from,
           places |-> G.places \cup O(p).places]
    BY <1>12, <2>1, <2>2, Zenon
  <2> QED BY <2>3 DEF G
<1> QED BY <1>13, <1>14 DEF L, O

(* What one account more, later than the others, says of an entry.             *)
LEMMA GatheredGrows ==
    ASSUME NEW b \in Build, NEW P \in SUBSET Accounts(b), P # {}, NEW p \in Accounts(b),
           \A q \in P : Earlier(q, p), Gathered(b, P) \in Entry
    PROVE  MergeSourceEntry(Gathered(b, P), Account(b, p)) = Gathered(b, P \cup {p})
<1> DEFINE SaidBy(q) == Account(b, q)
           e == SaidBy(p)
           P2 == P \cup {p}
           keys == UNION {DOMAIN SaidBy(q).links : q \in P}
           keys2 == UNION {DOMAIN SaidBy(q).links : q \in P2}
           Having(k) == {q \in P : k \in DOMAIN SaidBy(q).links}
           With2(k) == {q \in P2 : k \in DOMAIN SaidBy(q).links}
           Word(X) == LastWord(P, {q \in P : q \in X})
           Word2(X) == LastWord(P2, {q \in P2 : q \in X})
<1>1. e \in Entry /\ \A q \in P : SaidBy(q) \in Entry
  BY AccountsAre
<1>2. \A q \in P2 : /\ SaidBy(q).links \in LinkMap /\ SaidBy(q).origins \in OriginMap
                    /\ DOMAIN SaidBy(q).origins = DOMAIN SaidBy(q).links
  <2> HIDE DEF SaidBy
  <2> QED BY <1>1 DEF Entry, e
<1>3. ASSUME NEW X PROVE Word2(X) = IF p \in X THEN p ELSE Word(X)
  <2> DEFINE S == {q \in P : q \in X}
  <2>1. {q \in P2 : q \in X} = IF p \in X THEN S \cup {p} ELSE S
    OBVIOUS
  <2>2. S \in SUBSET P
    OBVIOUS
  <2> HIDE DEF S
  <2>3. /\ LastWord(P2, S) = LastWord(P, S)
        /\ LastWord(P2, S \cup {p}) = p
    <3>1. b \in Build /\ After(b, P, p)
      BY DEF After
    <3>2. LastWord(Extended(P, p), S) = LastWord(P, S) /\ LastWord(Extended(P, p), Extended(S, p)) = p
      BY <2>2, <3>1, LastWordGrows
    <3> QED BY <3>2 DEF Extended
  <2> QED BY <2>1, <2>3 DEF S
<1>4. Earliest(P2) = Earliest(P)
  <2>1. b \in Build /\ After(b, P, p)
    BY DEF After
  <2>2. Earliest(Extended(P, p)) = Earliest(P)
    BY <2>1, EarliestGrows
  <2> QED BY <2>2 DEF Extended
<1>5. keys2 = keys \cup DOMAIN e.links
  <2> HIDE DEF SaidBy
  <2> QED BY DEF e
<1>6. \A k : With2(k) = IF k \in DOMAIN e.links THEN Having(k) \cup {p} ELSE Having(k)
  <2> HIDE DEF SaidBy
  <2> QED BY DEF e
<1>7. \A k : k \in keys <=> Having(k) # {}
  <2> HIDE DEF SaidBy
  <2> QED OBVIOUS
<1>8. Gathered(b, P) =
        [id      |-> SaidBy(Earliest(P)).id,
         message |-> SaidBy(LastWord(P, {q \in P : SaidBy(q).message # NoMessage})).message,
         title   |-> SaidBy(LastWord(P, {q \in P : ~SaidBy(q).title.blank})).title,
         credit  |-> SaidBy(LastWord(P, {q \in P : ~SaidBy(q).credit.blank})).credit,
         author  |-> SaidBy(LastWord(P, {q \in P : ~SaidBy(q).credit.blank})).author,
         raw     |-> SaidBy(LastWord(P, {q \in P : ~SaidBy(q).raw.blank})).raw,
         year    |-> SaidBy(LastWord(P, {q \in P : SaidBy(q).year # NoYear})).year,
         added   |-> SaidBy(LastWord(P, {q \in P : SaidBy(q).added # NoTime})).added,
         links   |-> [k \in keys |-> GatheredLink(b, Having(k), k)],
         origins |-> [k \in keys |-> GatheredOrigin(b, Having(k), k)]]
  BY DEF Gathered
<1>9. Gathered(b, P2) =
        [id      |-> SaidBy(Earliest(P2)).id,
         message |-> SaidBy(LastWord(P2, {q \in P2 : SaidBy(q).message # NoMessage})).message,
         title   |-> SaidBy(LastWord(P2, {q \in P2 : ~SaidBy(q).title.blank})).title,
         credit  |-> SaidBy(LastWord(P2, {q \in P2 : ~SaidBy(q).credit.blank})).credit,
         author  |-> SaidBy(LastWord(P2, {q \in P2 : ~SaidBy(q).credit.blank})).author,
         raw     |-> SaidBy(LastWord(P2, {q \in P2 : ~SaidBy(q).raw.blank})).raw,
         year    |-> SaidBy(LastWord(P2, {q \in P2 : SaidBy(q).year # NoYear})).year,
         added   |-> SaidBy(LastWord(P2, {q \in P2 : SaidBy(q).added # NoTime})).added,
         links   |-> [k \in keys2 |-> GatheredLink(b, With2(k), k)],
         origins |-> [k \in keys2 |-> GatheredOrigin(b, With2(k), k)]]
  BY DEF Gathered
<1> HIDE DEF SaidBy, keys, keys2, Having, With2
<1>10. /\ LastWord(P2, {q \in P2 : SaidBy(q).message # NoMessage}) =
             IF e.message # NoMessage THEN p ELSE LastWord(P, {q \in P : SaidBy(q).message # NoMessage})
       /\ LastWord(P2, {q \in P2 : ~SaidBy(q).title.blank}) =
             IF ~e.title.blank THEN p ELSE LastWord(P, {q \in P : ~SaidBy(q).title.blank})
       /\ LastWord(P2, {q \in P2 : ~SaidBy(q).credit.blank}) =
             IF ~e.credit.blank THEN p ELSE LastWord(P, {q \in P : ~SaidBy(q).credit.blank})
       /\ LastWord(P2, {q \in P2 : ~SaidBy(q).raw.blank}) =
             IF ~e.raw.blank THEN p ELSE LastWord(P, {q \in P : ~SaidBy(q).raw.blank})
       /\ LastWord(P2, {q \in P2 : SaidBy(q).year # NoYear}) =
             IF e.year # NoYear THEN p ELSE LastWord(P, {q \in P : SaidBy(q).year # NoYear})
       /\ LastWord(P2, {q \in P2 : SaidBy(q).added # NoTime}) =
             IF e.added # NoTime THEN p ELSE LastWord(P, {q \in P : SaidBy(q).added # NoTime})
  <2> DEFINE Mean(Q, X) == {q \in Q : q \in X}
             X1 == {q \in P2 : SaidBy(q).message # NoMessage}
             X2 == {q \in P2 : ~SaidBy(q).title.blank}
             X3 == {q \in P2 : ~SaidBy(q).credit.blank}
             X4 == {q \in P2 : ~SaidBy(q).raw.blank}
             X5 == {q \in P2 : SaidBy(q).year # NoYear}
             X6 == {q \in P2 : SaidBy(q).added # NoTime}
  <2>1. /\ Mean(P2, X1) = X1 /\ Mean(P, X1) = {q \in P : SaidBy(q).message # NoMessage}
        /\ Mean(P2, X2) = X2 /\ Mean(P, X2) = {q \in P : ~SaidBy(q).title.blank}
        /\ Mean(P2, X3) = X3 /\ Mean(P, X3) = {q \in P : ~SaidBy(q).credit.blank}
        /\ Mean(P2, X4) = X4 /\ Mean(P, X4) = {q \in P : ~SaidBy(q).raw.blank}
        /\ Mean(P2, X5) = X5 /\ Mean(P, X5) = {q \in P : SaidBy(q).year # NoYear}
        /\ Mean(P2, X6) = X6 /\ Mean(P, X6) = {q \in P : SaidBy(q).added # NoTime}
    OBVIOUS
  <2>2. /\ p \in X1 <=> e.message # NoMessage
        /\ p \in X2 <=> ~e.title.blank
        /\ p \in X3 <=> ~e.credit.blank
        /\ p \in X4 <=> ~e.raw.blank
        /\ p \in X5 <=> e.year # NoYear
        /\ p \in X6 <=> e.added # NoTime
    BY DEF e
  <2>3. \A X : LastWord(P2, Mean(P2, X)) = IF p \in X THEN p ELSE LastWord(P, Mean(P, X))
    BY <1>3
  <2> HIDE DEF Mean, X1, X2, X3, X4, X5, X6, e, P2
  <2>4. /\ LastWord(P2, X1) = IF e.message # NoMessage THEN p ELSE LastWord(P, Mean(P, X1))
        /\ LastWord(P2, X2) = IF ~e.title.blank THEN p ELSE LastWord(P, Mean(P, X2))
        /\ LastWord(P2, X3) = IF ~e.credit.blank THEN p ELSE LastWord(P, Mean(P, X3))
        /\ LastWord(P2, X4) = IF ~e.raw.blank THEN p ELSE LastWord(P, Mean(P, X4))
        /\ LastWord(P2, X5) = IF e.year # NoYear THEN p ELSE LastWord(P, Mean(P, X5))
        /\ LastWord(P2, X6) = IF e.added # NoTime THEN p ELSE LastWord(P, Mean(P, X6))
    BY <2>1, <2>2, <2>3
  <2> QED BY <2>1, <2>4 DEF X1, X2, X3, X4, X5, X6
<1> DEFINE links == [k \in keys |-> GatheredLink(b, Having(k), k)]
           origins == [k \in keys |-> GatheredOrigin(b, Having(k), k)]
           links2 == [k \in keys2 |-> GatheredLink(b, With2(k), k)]
           origins2 == [k \in keys2 |-> GatheredOrigin(b, With2(k), k)]
<1>11. ASSUME NEW k \in keys2
       PROVE  /\ links2[k] = MergeLinks(links, e.links)[k]
              /\ origins2[k] = MergeOrigins(origins, e.origins)[k]
  <2>1. /\ links2[k] = GatheredLink(b, With2(k), k) /\ origins2[k] = GatheredOrigin(b, With2(k), k)
        /\ k \in keys => /\ links[k] = GatheredLink(b, Having(k), k)
                         /\ origins[k] = GatheredOrigin(b, Having(k), k)
        /\ DOMAIN links = keys /\ DOMAIN origins = keys /\ DOMAIN e.origins = DOMAIN e.links
        /\ k \in keys \cup DOMAIN e.links
    BY <1>2, <1>5 DEF e
  <2> HIDE DEF links, origins, links2, origins2
  <2>2. CASE k \notin keys
    <3>1. k \in DOMAIN e.links /\ With2(k) = {p}
      BY <1>6, <1>7, <2>1, <2>2
    <3>2. GatheredLink(b, {p}, k) = e.links[k] /\ GatheredOrigin(b, {p}, k) = e.origins[k]
      <4>1. k \in DOMAIN Account(b, p).links
        BY <3>1 DEF e, SaidBy
      <4> QED BY <4>1, OneAccountLink DEF e, SaidBy
    <3>3. /\ MergeLinks(links, e.links)[k] = e.links[k]
          /\ MergeOrigins(origins, e.origins)[k] = e.origins[k]
      BY <2>1, <2>2 DEF MergeLinks, MergeOrigins
    <3> QED BY <2>1, <3>1, <3>2, <3>3
  <2>3. CASE k \in keys /\ k \notin DOMAIN e.links
    <3>1. With2(k) = Having(k)
      BY <1>6, <2>3
    <3>2. /\ MergeLinks(links, e.links)[k] = links[k]
          /\ MergeOrigins(origins, e.origins)[k] = origins[k]
      BY <2>1, <2>3 DEF MergeLinks, MergeOrigins
    <3> QED BY <2>1, <2>3, <3>1, <3>2
  <2>4. CASE k \in keys /\ k \in DOMAIN e.links
    <3>1. With2(k) = Having(k) \cup {p}
      BY <1>6, <2>4
    <3>2. /\ Having(k) \in SUBSET Accounts(b) /\ Having(k) # {} /\ \A q \in Having(k) : Earlier(q, p)
          /\ \A q \in Having(k) \cup {p} : k \in DOMAIN Account(b, q).links
      BY <1>7, <2>4 DEF Having, SaidBy, e
    <3>3. /\ GatheredLink(b, Having(k) \cup {p}, k) =
                [primary |-> GatheredLink(b, Having(k), k).primary \/ e.links[k].primary,
                 label   |-> IF GatheredLink(b, Having(k), k).label = NoLabel THEN e.links[k].label
                             ELSE GatheredLink(b, Having(k), k).label]
          /\ GatheredOrigin(b, Having(k) \cup {p}, k) =
                [firm   |-> GatheredOrigin(b, Having(k), k).firm,
                 from   |-> IF GatheredOrigin(b, Having(k), k).from = "" THEN e.origins[k].from
                            ELSE GatheredOrigin(b, Having(k), k).from,
                 places |-> GatheredOrigin(b, Having(k), k).places \cup e.origins[k].places]
      BY <3>2, GatheredLinkGrows DEF e, SaidBy
    <3>4. /\ MergeLinks(links, e.links)[k] =
                [primary |-> links[k].primary \/ e.links[k].primary,
                 label   |-> IF links[k].label = NoLabel THEN e.links[k].label ELSE links[k].label]
          /\ MergeOrigins(origins, e.origins)[k] =
                [firm   |-> origins[k].firm,
                 from   |-> IF origins[k].from = "" THEN e.origins[k].from ELSE origins[k].from,
                 places |-> origins[k].places \cup e.origins[k].places]
      BY <2>1, <2>4 DEF MergeLinks, MergeOrigins
    <3>5. links2[k] = GatheredLink(b, Having(k) \cup {p}, k) /\ links[k] = GatheredLink(b, Having(k), k)
      BY <2>1, <2>4, <3>1
    <3>6. origins2[k] = GatheredOrigin(b, Having(k) \cup {p}, k) /\ origins[k] = GatheredOrigin(b, Having(k), k)
      BY <2>1, <2>4, <3>1
    <3>7. links2[k] = MergeLinks(links, e.links)[k]
      BY <3>3, <3>4, <3>5, Zenon
    <3>8. origins2[k] = MergeOrigins(origins, e.origins)[k]
      BY <3>3, <3>4, <3>6, Zenon
    <3> QED BY <3>7, <3>8
  <2> QED BY <2>1, <2>2, <2>3, <2>4
<1>12. links2 = MergeLinks(links, e.links) /\ origins2 = MergeOrigins(origins, e.origins)
  <2>1. /\ DOMAIN links2 = keys2 /\ DOMAIN origins2 = keys2
        /\ DOMAIN MergeLinks(links, e.links) = keys2 /\ DOMAIN MergeOrigins(origins, e.origins) = keys2
    BY <1>2, <1>5 DEF MergeLinks, MergeOrigins, e
  <2>2. /\ links2 = [k \in DOMAIN links2 |-> links2[k]]
        /\ origins2 = [k \in DOMAIN origins2 |-> origins2[k]]
    OBVIOUS
  <2>3. /\ MergeLinks(links, e.links) =
             [k \in DOMAIN MergeLinks(links, e.links) |-> MergeLinks(links, e.links)[k]]
        /\ MergeOrigins(origins, e.origins) =
             [k \in DOMAIN MergeOrigins(origins, e.origins) |-> MergeOrigins(origins, e.origins)[k]]
    BY DEF MergeLinks, MergeOrigins
  <2> HIDE DEF links, origins, links2, origins2, e
  <2> QED BY <1>11, <2>1, <2>2, <2>3
<1> DEFINE G == Gathered(b, P)
<1> HIDE DEF links, origins, links2, origins2, e, P2
<1>13. /\ G.id = SaidBy(Earliest(P)).id
       /\ G.message = SaidBy(LastWord(P, {q \in P : SaidBy(q).message # NoMessage})).message
       /\ G.title = SaidBy(LastWord(P, {q \in P : ~SaidBy(q).title.blank})).title
       /\ G.credit = SaidBy(LastWord(P, {q \in P : ~SaidBy(q).credit.blank})).credit
       /\ G.author = SaidBy(LastWord(P, {q \in P : ~SaidBy(q).credit.blank})).author
       /\ G.raw = SaidBy(LastWord(P, {q \in P : ~SaidBy(q).raw.blank})).raw
       /\ G.year = SaidBy(LastWord(P, {q \in P : SaidBy(q).year # NoYear})).year
       /\ G.added = SaidBy(LastWord(P, {q \in P : SaidBy(q).added # NoTime})).added
       /\ G.links = links /\ G.origins = origins
  BY <1>8 DEF links, origins
<1>14. Gathered(b, P2) =
         [id      |-> G.id,
          message |-> IF e.message = NoMessage THEN G.message ELSE e.message,
          title   |-> IF e.title.blank THEN G.title ELSE e.title,
          credit  |-> IF e.credit.blank THEN G.credit ELSE e.credit,
          author  |-> IF e.credit.blank THEN G.author ELSE e.author,
          raw     |-> IF e.raw.blank THEN G.raw ELSE e.raw,
          year    |-> IF e.year = NoYear THEN G.year ELSE e.year,
          added   |-> IF e.added = NoTime THEN G.added ELSE e.added,
          links   |-> MergeLinks(G.links, e.links),
          origins |-> MergeOrigins(G.origins, e.origins)]
  <2>1. SaidBy(p) = e
    BY DEF e
  <2>2. /\ SaidBy(Earliest(P2)).id = G.id
        /\ SaidBy(LastWord(P2, {q \in P2 : SaidBy(q).message # NoMessage})).message
             = IF e.message = NoMessage THEN G.message ELSE e.message
        /\ SaidBy(LastWord(P2, {q \in P2 : ~SaidBy(q).title.blank})).title
             = IF e.title.blank THEN G.title ELSE e.title
        /\ SaidBy(LastWord(P2, {q \in P2 : ~SaidBy(q).credit.blank})).credit
             = IF e.credit.blank THEN G.credit ELSE e.credit
        /\ SaidBy(LastWord(P2, {q \in P2 : ~SaidBy(q).credit.blank})).author
             = IF e.credit.blank THEN G.author ELSE e.author
        /\ SaidBy(LastWord(P2, {q \in P2 : ~SaidBy(q).raw.blank})).raw
             = IF e.raw.blank THEN G.raw ELSE e.raw
        /\ SaidBy(LastWord(P2, {q \in P2 : SaidBy(q).year # NoYear})).year
             = IF e.year = NoYear THEN G.year ELSE e.year
        /\ SaidBy(LastWord(P2, {q \in P2 : SaidBy(q).added # NoTime})).added
             = IF e.added = NoTime THEN G.added ELSE e.added
    BY <1>4, <1>10, <1>13, <2>1
  <2>3. /\ links2 = MergeLinks(G.links, e.links) /\ origins2 = MergeOrigins(G.origins, e.origins)
    BY <1>12, <1>13
  <2> HIDE DEF G
  <2> QED BY <1>9, <2>2, <2>3 DEF links2, origins2
<1>15. MergeSourceEntry(G, e) = Gathered(b, P2)
  BY <1>14, MergedFields
<1> QED BY <1>15 DEF e, P2, SaidBy

(* One step of the merge: one account more has been merged, after all of those
   before it.                                                                 *)
LEMMA MergeReads ==
    ASSUME Typed, MergeEntry
    PROVE  /\ read = <<read[1], read[2]>> /\ read \in Accounts(build) /\ ~Merged(read)
           /\ \A p \in Accounts(build) :
                /\ Merged(p)' <=> Merged(p) \/ p = read
                /\ Merged(p) => Earlier(p, read)
<1>0. /\ build \in Build /\ read[1] \in Nat /\ read[2] \in Nat
      /\ read = <<read[1], read[2]>> /\ read[1] >= 1 /\ read[2] >= 1
  BY DEF Typed
<1>1. read[1] \in DOMAIN build.exports
  <2>1. Len(build.exports) \in Nat /\ DOMAIN build.exports = 1..Len(build.exports)
    BY <1>0, AccountsAre
  <2> QED BY <1>0, <2>1 DEF MergeEntry
<1>2. read[2] \in DOMAIN build.exports[read[1]]
  <2>1. /\ Len(build.exports[read[1]]) \in Nat
        /\ DOMAIN build.exports[read[1]] = 1..Len(build.exports[read[1]])
    BY <1>0, <1>1, AccountsAre
  <2> QED BY <1>0, <2>1 DEF Typed, MergeEntry
<1>3. read \in Accounts(build)
  <2>1. <<read[1], read[2]>> \in Accounts(build)
    BY <1>0, <1>1, <1>2, AccountsAre
  <2> QED BY <1>0, <2>1
<1>4. ~Merged(read)
  BY <1>0 DEF Merged
<1>5. ASSUME NEW p \in Accounts(build)
      PROVE  /\ Merged(p)' <=> Merged(p) \/ p = read
             /\ Merged(p) => Earlier(p, read)
  <2> DEFINE n == Len(build.exports[read[1]])
  <2>1. /\ p = <<p[1], p[2]>> /\ p[1] \in Nat /\ p[2] \in Nat
        /\ p[1] \in DOMAIN build.exports /\ p[2] \in DOMAIN build.exports[p[1]]
    BY <1>0, AccountsAre
  <2>2. n \in Nat /\ DOMAIN build.exports[read[1]] = 1..n
    BY <1>0, <1>1, AccountsAre
  <2>3. read[2] <= n /\ (p[1] = read[1] => p[2] <= n /\ p[2] >= 1) /\ p[2] >= 1
    <3>1. DOMAIN build.exports[p[1]] = 1..Len(build.exports[p[1]]) /\ Len(build.exports[p[1]]) \in Nat
      BY <1>0, <2>1, AccountsAre
    <3> QED BY <1>2, <2>1, <2>2, <3>1
  <2>4. p = read <=> p[1] = read[1] /\ p[2] = read[2]
    BY <1>0, <2>1
  <2>5. \/ read[2] < n /\ read'[1] = read[1] /\ read'[2] = read[2] + 1
        \/ ~(read[2] < n) /\ read'[1] = read[1] + 1 /\ read'[2] = 1
    BY DEF MergeEntry
  <2> HIDE DEF n
  <2>6. Merged(p)' <=> p[1] < read'[1] \/ (p[1] = read'[1] /\ p[2] < read'[2])
    BY DEF Merged
  <2>7. Merged(p)' <=> Merged(p) \/ p = read
    BY <1>0, <2>1, <2>2, <2>3, <2>4, <2>5, <2>6 DEF Merged
  <2>8. Merged(p) => Earlier(p, read)
    BY DEF Merged, Earlier
  <2> QED BY <2>7, <2>8
<1> QED BY <1>0, <1>3, <1>4, <1>5

(* Every entry is still what the exports merged so far say of it.             *)
LEMMA MergeCollects ==
    ASSUME Typed, Collected, MergeEntry
    PROVE  Collected'
<1> DEFINE e == Account(build, read)
           known == {i \in Index : entries[i].id = e.id}
           m == Max(known)
           Now(n) == {p \in Accounts(build) : Merged(p)' /\ Account(build, p).id = n}
<1>0. build \in Build /\ entries \in Seq(Entry) /\ build' = build /\ pass' = "merge"
  BY DEF Typed, MergeEntry
<1>1. /\ read \in Accounts(build) /\ ~Merged(read)
      /\ \A p \in Accounts(build) :
           /\ Merged(p)' <=> Merged(p) \/ p = read
           /\ Merged(p) => Earlier(p, read)
  BY MergeReads
<1>2. e \in Entry
  BY <1>0, <1>1, AccountsAre
<1>3. entries' = IF known = {} THEN Append(entries, e)
                 ELSE [entries EXCEPT ![m] = MergeSourceEntry(entries[m], e)]
  BY DEF MergeEntry, Account
<1>4. Len(entries) \in Nat /\ known \subseteq 1..Len(entries) /\ Index = 1..Len(entries)
  BY <1>0 DEF Index
<1>5. \A n : Now(n) = IF n = e.id THEN Read(n) \cup {read} ELSE Read(n)
  BY <1>1 DEF Read
<1>6. \A n : /\ Read(n) \in SUBSET Accounts(build)
             /\ \A q \in Read(n) : Earlier(q, read) /\ Account(build, q).id = n
  BY <1>1 DEF Read
<1>7. \A n : Read(n) # {} => \E i \in Index : entries[i].id = n
  BY DEF Read, Collected
<1> SUFFICES /\ \A p \in Accounts(build) :
                  Merged(p)' => \E i \in Index' : entries'[i].id = Account(build, p).id
             /\ Distinct' => \A i \in Index' :
                  Now(entries'[i].id) # {} /\ entries'[i] = Gathered(build, Now(entries'[i].id))
  <2>1. \A n : Now(n) = {p \in Accounts(build') : Merged(p)' /\ Account(build', p).id = n}
    BY <1>0
  <2> HIDE DEF Now
  <2> QED BY <1>0, <2>1 DEF Collected, Read
<1> HIDE DEF e, known, m, Now
<1>8. CASE known = {}
  <2>1. entries' = Append(entries, e)
    BY <1>3, <1>8
  <2>2. /\ Len(entries') = Len(entries) + 1 /\ entries'[Len(entries) + 1] = e
        /\ \A i \in Index : entries'[i] = entries[i]
    BY <1>0, <1>2, <1>4, <2>1
  <2>3. /\ Index' = Index \cup {Len(entries) + 1} /\ Len(entries) + 1 \notin Index
    BY <1>4, <2>2 DEF Index
  <2>4. ASSUME NEW p \in Accounts(build), Merged(p)'
        PROVE  \E i \in Index' : entries'[i].id = Account(build, p).id
    <3>1. CASE Merged(p)
      BY <2>2, <2>3, <3>1 DEF Collected
    <3>2. CASE p = read
      BY <2>2, <2>3, <3>2 DEF e
    <3> QED BY <1>1, <2>4, <3>1, <3>2
  <2>5. ASSUME Distinct', NEW i \in Index'
        PROVE  Now(entries'[i].id) # {} /\ entries'[i] = Gathered(build, Now(entries'[i].id))
    <3>1. Distinct
      BY <2>2, <2>3, <2>5 DEF Distinct
    <3>2. CASE i \in Index
      <4>1. entries'[i] = entries[i] /\ entries[i].id # e.id
        BY <1>8, <2>2, <3>2 DEF known
      <4> QED BY <1>5, <3>1, <3>2, <4>1 DEF Collected
    <3>3. CASE i = Len(entries) + 1
      <4>1. entries'[i] = e
        BY <2>2, <3>3
      <4>2. Read(e.id) = {}
        BY <1>7, <1>8 DEF known
      <4>3. Now(e.id) = {read}
        BY <1>5, <4>2
      <4>4. Gathered(build, {read}) = e
        BY <1>0, <1>1, GatheredOne DEF e
      <4> QED BY <4>1, <4>3, <4>4
    <3> QED BY <2>3, <3>2, <3>3
  <2> QED BY <2>4, <2>5
<1>9. CASE known # {}
  <2> DEFINE f == MergeSourceEntry(entries[m], e)
  <2>1. m \in Index /\ entries[m].id = e.id
    <3>1. m \in known
      BY <1>4, <1>9, MaxIsIn DEF m
    <3> QED BY <3>1 DEF known
  <2>2. entries' = [entries EXCEPT ![m] = f]
    BY <1>3, <1>9
  <2>3. entries[m] \in Entry
    BY <1>0, <2>1, IndexEntries
  <2>4. f \in Entry /\ f.id = e.id
    <3>1. f \in Entry
      BY <1>2, <2>3, MergedEntryIsEntry
    <3>2. f.id = entries[m].id
      BY <2>3, MergedId
    <3> QED BY <2>1, <3>1, <3>2
  <2> HIDE DEF f
  <2>5. Index' = Index /\ entries'[m] = f /\ \A i \in Index : i # m => entries'[i] = entries[i]
    <3>1. m \in 1..Len(entries)
      BY <2>1 DEF Index
    <3>2. Len(entries') = Len(entries) /\ \A i \in 1..Len(entries) : entries'[i] = IF i = m THEN f ELSE entries[i]
      BY <1>0, <2>2, <2>4, <3>1, ExceptSeq
    <3> QED BY <2>1, <3>2 DEF Index
  <2>6. \A i \in Index : entries'[i].id = entries[i].id
    BY <2>1, <2>4, <2>5
  <2>7. ASSUME NEW p \in Accounts(build), Merged(p)'
        PROVE  \E i \in Index' : entries'[i].id = Account(build, p).id
    <3>1. CASE Merged(p)
      BY <2>5, <2>6, <3>1 DEF Collected
    <3>2. CASE p = read
      BY <2>1, <2>5, <2>6, <3>2 DEF e
    <3> QED BY <1>1, <2>7, <3>1, <3>2
  <2>8. ASSUME Distinct', NEW i \in Index'
        PROVE  Now(entries'[i].id) # {} /\ entries'[i] = Gathered(build, Now(entries'[i].id))
    <3>1. Distinct
      BY <2>5, <2>6, <2>8 DEF Distinct
    <3>2. /\ Read(entries[i].id) # {} /\ entries[i] = Gathered(build, Read(entries[i].id))
      BY <2>5, <3>1 DEF Collected
    <3>3. CASE i # m
      <4>1. entries'[i] = entries[i] /\ entries[i].id # e.id
        BY <2>1, <2>5, <3>1, <3>3 DEF Distinct
      <4> QED BY <1>5, <3>2, <4>1
    <3>4. CASE i = m
      <4> DEFINE P == Read(e.id)
      <4>1. /\ P # {} /\ entries[m] = Gathered(build, P) /\ P \in SUBSET Accounts(build)
            /\ \A q \in P : Earlier(q, read)
        BY <1>6, <2>1, <3>2, <3>4
      <4>2. Now(e.id) = P \cup {read}
        BY <1>5
      <4> HIDE DEF P
      <4>3. f = Gathered(build, P \cup {read})
        BY <1>0, <1>1, <2>3, <4>1, GatheredGrows DEF f, e
      <4>4. entries'[i] = f /\ entries'[i].id = e.id
        BY <2>4, <2>5, <3>4
      <4> QED BY <4>2, <4>3, <4>4
    <3> QED BY <3>3, <3>4
  <2> QED BY <2>7, <2>8
<1> QED BY <1>8, <1>9

LEMMA CollectedKept ==
    ASSUME Collected, UNCHANGED <<build, read, entries>>,
           pass' # "merge" => read[1] > Len(build.exports)
    PROVE  Collected'
<1>1. Index' = Index /\ (Distinct' <=> Distinct)
  BY DEF Index, Distinct
<1>2. \A n : {p \in Accounts(build') : Merged(p)' /\ Account(build', p).id = n} = Read(n)
  BY DEF Read, Merged
<1>3. \A i \in Index : Read(entries[i].id)' = Read(entries[i].id)
  BY <1>2 DEF Read
<1>4. \A p : Merged(p)' <=> Merged(p)
  BY DEF Merged
<1> QED BY <1>1, <1>3, <1>4 DEF Collected

-----------------------------------------------------------------------------
(* Choosing who speaks.                                                       *)

LEMMA PrecedesIsOrder ==
    ASSUME entries \in Seq(Entry), NEW i \in Index, NEW j \in Index, NEW k \in Index
    PROVE  /\ ~Precedes(i, i)
           /\ Precedes(j, k) /\ ~Precedes(i, k) => ~Precedes(i, j)
<1> DEFINE Instant(u) == IF u = NoTime THEN 0 ELSE u.instant
<1>1. \A x \in Index : Instant(entries[x].added) \in Nat /\ entries[x].id \in Nat
  <2> SUFFICES ASSUME NEW x \in Index
               PROVE  Instant(entries[x].added) \in Nat /\ entries[x].id \in Nat
    OBVIOUS
  <2>1. entries[x] \in Entry
    BY IndexEntries
  <2>2. entries[x].id \in Nat /\ entries[x].added \in Time \cup {NoTime}
    BY <2>1 DEF Entry
  <2> QED BY <2>2 DEF Time
<1>2. \A x, y : TimestampBefore(x, y) <=> Instant(x) < Instant(y)
  BY DEF TimestampBefore
<1> HIDE DEF Instant
<1>3. \A x, y \in Index : Precedes(x, y) <=>
        \/ Instant(entries[x].added) < Instant(entries[y].added)
        \/ entries[x].added = entries[y].added /\ entries[x].id < entries[y].id
  BY <1>2 DEF Precedes
<1>4. ~Precedes(i, i)
  BY <1>1, <1>3
<1>5. ASSUME Precedes(j, k), ~Precedes(i, k) PROVE ~Precedes(i, j)
  <2> DEFINE ti == Instant(entries[i].added)
             tj == Instant(entries[j].added)
             tk == Instant(entries[k].added)
  <2>1. ti \in Nat /\ tj \in Nat /\ tk \in Nat /\ entries[i].id \in Nat /\ entries[j].id \in Nat /\ entries[k].id \in Nat
    BY <1>1
  <2>2. /\ tj < tk \/ (entries[j].added = entries[k].added /\ entries[j].id < entries[k].id)
        /\ ~(ti < tk) /\ ~(entries[i].added = entries[k].added /\ entries[i].id < entries[k].id)
    BY <1>3, <1>5
  <2>3. entries[j].added = entries[k].added => tj = tk
    OBVIOUS
  <2>4. entries[i].added = entries[j].added => ti = tj
    OBVIOUS
  <2> HIDE DEF ti, tj, tk
  <2>5. ~(ti < tj)
    BY <2>1, <2>2, <2>3
  <2>6. ~(entries[i].added = entries[j].added /\ entries[i].id < entries[j].id)
    BY <2>1, <2>2, <2>3, <2>4
  <2> QED BY <1>3, <2>5, <2>6 DEF ti, tj
<1> QED BY <1>4, <1>5

LEMMA ConsiderChooses ==
    ASSUME ClusterInv, Chosen, ConsiderCanonical
    PROVE  Chosen'
<1> DEFINE root == Root(parent, next)
<1>1. /\ pass = "canonical" /\ pass' = pass /\ next \in Index /\ next' = next + 1
      /\ build' = build /\ entries' = entries /\ parent' = Compressed(parent, next)
      /\ canonical' = IF root \in DOMAIN canonical /\ ~Precedes(next, canonical[root])
                      THEN canonical ELSE Put(canonical, root, next)
  BY DEF ConsiderCanonical
<1>2. Forest(Index, parent) /\ entries \in Seq(Entry)
  BY <1>1 DEF ClusterInv, Rooted, Typed
<1>3. \A i \in Index : Root(parent', i) = Root(parent, i)
  BY <1>1, <1>2, CompressedKeepsRoots
<1>4. Index' = Index
  BY <1>1, Frame
<1>5. /\ \A r \in DOMAIN canonical : canonical[r] \in Index
      /\ \A i \in Index : i < next => Root(parent, i) \in DOMAIN canonical
      /\ next \in Nat
  BY <1>1 DEF ClusterInv, Speakers, Before
<1>6. \A i \in Index : i < next => ~Precedes(i, canonical[Root(parent, i)])
  BY <1>1 DEF Chosen
<1>7. \A i \in Index : i < next + 1 => i < next \/ i = next
  BY <1>5 DEF Index
<1> HIDE DEF root
<1>8. ASSUME NEW i \in Index, i < next + 1 PROVE ~Precedes(i, canonical'[Root(parent, i)])
  <2>1. CASE root \in DOMAIN canonical /\ ~Precedes(next, canonical[root])
    BY <1>1, <1>6, <1>7, <1>8, <2>1 DEF root
  <2>2. CASE ~(root \in DOMAIN canonical /\ ~Precedes(next, canonical[root]))
    <3>1. canonical' = [x \in DOMAIN canonical \cup {root} |->
                            IF x = root THEN next ELSE canonical[x]]
      BY <1>1, <2>2 DEF Put
    <3>2. CASE i = next
      BY <1>1, <1>2, <3>1, <3>2, PrecedesIsOrder DEF root
    <3>3. CASE i < next /\ Root(parent, i) = root
      <4>1. root \in DOMAIN canonical /\ Precedes(next, canonical[root]) /\ canonical[root] \in Index
        BY <1>5, <2>2, <3>3
      <4>2. ~Precedes(i, canonical[root])
        BY <1>6, <3>3
      <4> QED BY <1>1, <1>2, <3>1, <3>3, <4>1, <4>2, PrecedesIsOrder
    <3>4. CASE i < next /\ Root(parent, i) # root
      BY <1>5, <1>6, <3>1, <3>4
    <3> QED BY <1>7, <1>8, <3>2, <3>3, <3>4
  <2> QED BY <2>1, <2>2
<1>9. pass' \in Before("assemble") /\ pass' = "canonical"
  BY <1>1 DEF Before
<1>10. \A i \in Index : i < next + 1 => ~Precedes(i, canonical[Root(parent, i)])'
  BY <1>1, <1>3, <1>8 DEF Precedes
<1> QED BY <1>1, <1>4, <1>9, <1>10 DEF Chosen

LEMMA ChosenKept ==
    ASSUME Chosen, UNCHANGED <<entries, canonical>>,
           \A i \in Index : Root(parent', i) = Root(parent, i),
           pass \notin Before("assemble") \/ (pass = "canonical" /\ \A i \in Index : i < next)
    PROVE  Chosen'
<1>1. Index' = Index
  BY DEF Index
<1>2. \A i \in Index : ~Precedes(i, canonical[Root(parent, i)])
  BY DEF Chosen
<1>3. \A i \in Index : ~Precedes(i, canonical[Root(parent, i)])'
  BY <1>2 DEF Precedes
<1> QED BY <1>1, <1>3 DEF Chosen

-----------------------------------------------------------------------------
(* Assembling the courses.                                                    *)

LEMMA LookedIsFinite ==
    ASSUME entries \in Seq(Entry), NEW r
    PROVE  IsFiniteSet(Looked(r)) /\ Looked(r) \subseteq Index
<1>1. IsFiniteSet(1..Len(entries))
  BY FS_Interval
<1>2. Looked(r) \in SUBSET (1..Len(entries))
  BY DEF Looked, Index
<1> QED BY <1>1, <1>2, FS_Subset DEF Index

LEMMA AssembleAssembles ==
    ASSUME ClusterInv, Assembling, Assemble
    PROVE  Assembling'
<1> DEFINE root == Root(parent, next)
           candidate == Candidate(next, Identity(entries[canonical[root]]))
           joined == IF root \notin DOMAIN courses THEN candidate
                     ELSE IF next = canonical[root]
                     THEN MergeCatalogEntry(candidate, courses[root])
                     ELSE MergeCatalogEntry(courses[root], candidate)
           speaker == canonical[root]
<1>1. /\ pass = "assemble" /\ pass' = pass /\ next \in Index /\ next' = next + 1
      /\ build' = build /\ entries' = entries /\ canonical' = canonical
      /\ parent' = Compressed(parent, next)
      /\ courses' = Put(courses, root, joined)
      /\ entries[next].added # NoTime
      /\ \A j \in 1..(next - 1) : entries[j].id # entries[next].id
  BY DEF Assemble, Sound
<1>2. Forest(Index, parent) /\ entries \in Seq(Entry) /\ build \in Build
  BY <1>1 DEF ClusterInv, Rooted, Typed
<1>3. \A i \in Index : Root(parent', i) = Root(parent, i)
  BY <1>1, <1>2, CompressedKeepsRoots
<1>4. Index' = Index
  BY <1>1, Frame
<1>5. /\ \A i \in Index : i < next =>
           /\ Root(parent, i) \in DOMAIN courses /\ entries[i].added # NoTime
           /\ \A j \in 1..(i - 1) : entries[j].id # entries[i].id
      /\ \A r \in DOMAIN courses : Assembled(courses[r], Looked(r), canonical[r])
  BY <1>1 DEF Assembling, Before
<1>6. \A i \in Index : i < next + 1 <=> i < next \/ i = next
  BY <1>1, <1>2 DEF Index
<1>7. /\ DOMAIN courses' = DOMAIN courses \cup {root} /\ courses'[root] = joined
      /\ \A r \in DOMAIN courses : r # root => courses'[r] = courses[r]
  <2> HIDE DEF root, joined
  <2> QED BY <1>1 DEF Put
<1>8. \A r : Looked(r)' = Looked(r) \cup (IF r = root THEN {next} ELSE {})
  <2> SUFFICES ASSUME NEW r PROVE Looked(r)' = Looked(r) \cup (IF r = root THEN {next} ELSE {})
    OBVIOUS
  <2>1. Looked(r)' = {i \in Index : i < next + 1 /\ Root(parent', i) = r}
    BY <1>1, <1>4 DEF Looked
  <2>2. \A i \in Index : i < next + 1 /\ Root(parent', i) = r
                           <=> (i < next /\ Root(parent, i) = r) \/ (i = next /\ r = root)
    BY <1>3, <1>6
  <2> HIDE DEF root
  <2> QED BY <1>1, <2>1, <2>2 DEF Looked
<1>9. next \notin Looked(root)
  BY <1>1, <1>2 DEF Looked, Index
<1>10. /\ Assembled(candidate, {next}, speaker) /\ entries[next].added \in Time
  BY <1>1, <1>2, OneEntryCourse
<1>11. \A i \in Looked(root) : entries[i].added \in Time
  <2> SUFFICES ASSUME NEW i \in Looked(root) PROVE entries[i].added \in Time
    OBVIOUS
  <2>1. i \in Index /\ entries[i].added # NoTime
    BY <1>5 DEF Looked
  <2> QED BY <1>2, <2>1, OneEntryCourse
<1>12. /\ IsFiniteSet(Looked(root)) /\ IsFiniteSet({next})
       /\ Looked(root) \cap {next} = {} /\ {next} \cap Looked(root) = {}
       /\ Looked(root) \cup {next} = {next} \cup Looked(root)
       /\ \A i \in Looked(root) \cup {next} : entries[i].added \in Time
  BY <1>2, <1>9, <1>10, <1>11, LookedIsFinite, FS_Singleton
<1> HIDE DEF candidate, speaker, joined
<1>13. Assembled(joined, Looked(root) \cup {next}, speaker)
  <2>1. CASE root \notin DOMAIN courses
    <3>1. Looked(root) = {}
      BY <1>5, <2>1 DEF Looked
    <3> QED BY <1>10, <2>1, <3>1 DEF joined
  <2>2. CASE root \in DOMAIN courses /\ next = canonical[root]
    <3>1. Assembled(courses[root], Looked(root), speaker) /\ speaker = next
      BY <1>5, <2>2 DEF speaker
    <3>2. Assembled(MergeCatalogEntry(candidate, courses[root]), {next} \cup Looked(root), speaker)
      BY <1>9, <1>10, <1>12, <3>1, MergedCourses
    <3> QED BY <1>12, <2>2, <3>2 DEF joined
  <2>3. CASE root \in DOMAIN courses /\ next # canonical[root]
    <3>1. Assembled(courses[root], Looked(root), speaker) /\ speaker # next
      BY <1>5, <2>3 DEF speaker
    <3>2. Assembled(MergeCatalogEntry(courses[root], candidate), Looked(root) \cup {next}, speaker)
      BY <1>10, <1>12, <3>1, MergedCourses
    <3> QED BY <2>3, <3>2 DEF joined
  <2> QED BY <2>1, <2>2, <2>3
<1>14. \A c, S, s : Assembled(c, S, s) => Assembled(c, S, s)'
  BY <1>1 DEF Assembled
<1>15. ASSUME NEW r \in DOMAIN courses' PROVE Assembled(courses[r], Looked(r), canonical[r])'
  <2>1. CASE r = root
    <3>1. courses'[r] = joined /\ Looked(r)' = Looked(r) \cup {next} /\ canonical'[r] = speaker
      BY <1>1, <1>7, <1>8, <2>1 DEF speaker
    <3>2. Assembled(joined, Looked(r) \cup {next}, speaker)
      BY <1>13, <2>1
    <3> QED BY <1>1, <3>1, <3>2 DEF Assembled
  <2>2. CASE r # root
    <3>1. courses'[r] = courses[r] /\ Looked(r)' = Looked(r) /\ canonical'[r] = canonical[r]
      <4> HIDE DEF root
      <4> QED BY <1>1, <1>7, <1>8, <2>2
    <3>2. Assembled(courses[r], Looked(r), canonical[r])
      BY <1>5, <1>7, <2>2
    <3> QED BY <1>1, <3>1, <3>2 DEF Assembled
  <2> QED BY <2>1, <2>2
<1>16. \A i \in Index : i < next + 1 =>
         /\ Root(parent', i) \in DOMAIN courses' /\ entries[i].added # NoTime
         /\ \A j \in 1..(i - 1) : entries[j].id # entries[i].id
  BY <1>1, <1>3, <1>5, <1>6, <1>7
<1> QED BY <1>1, <1>4, <1>15, <1>16 DEF Assembling

LEMMA NothingLooked ==
    ASSUME ClusterInv, StartAssembling, UNCHANGED courses
    PROVE  Assembling'
<1>1. courses = <<>> /\ pass' = "assemble" /\ next' = 1
  BY DEF StartAssembling, ClusterInv, Speakers, Before
<1>2. \A i \in Index' : ~(i < 1)
  BY DEF Index
<1> QED BY <1>1, <1>2 DEF Assembling

LEMMA EndAssembles ==
    ASSUME ClusterInv, Assembling, Reject \/ Publish
    PROVE  Assembling'
<1>1. /\ pass = "assemble" /\ pass' \in {"failed", "done"} /\ next' = next
      /\ build' = build /\ entries' = entries /\ parent' = parent /\ canonical' = canonical
      /\ courses' = courses
  BY DEF Reject, Publish
<1>2. Index' = Index
  BY <1>1, Frame
<1>3. /\ \A i \in Index : i < next =>
           /\ Root(parent, i) \in DOMAIN courses /\ entries[i].added # NoTime
           /\ \A j \in 1..(i - 1) : entries[j].id # entries[i].id
      /\ \A r \in DOMAIN courses : Assembled(courses[r], Looked(r), canonical[r])
  BY <1>1 DEF Assembling, Before
<1>4. \A r : Looked(r)' = Looked(r)
  BY <1>1, <1>2 DEF Looked
<1>5. ASSUME NEW r \in DOMAIN courses PROVE Assembled(courses[r], Looked(r), canonical[r])'
  <2>1. Assembled(courses[r], Looked(r), canonical[r])
    BY <1>3
  <2>2. courses'[r] = courses[r] /\ Looked(r)' = Looked(r) /\ canonical'[r] = canonical[r]
    BY <1>1, <1>4
  <2> QED BY <1>1, <2>1, <2>2 DEF Assembled
<1>6. ASSUME pass' = "done"
      PROVE  /\ \A i \in Index : i < next
             /\ catalogue' = {courses[r] : r \in {x \in DOMAIN courses : Linked(courses[x])}}
  <2>1. Publish
    BY <1>6 DEF Reject
  <2>2. next \in Nat \ {0} /\ Len(entries) \in Nat
    BY DEF ClusterInv, Speakers, Typed
  <2> QED BY <2>1, <2>2 DEF Publish, Index
<1> QED BY <1>1, <1>2, <1>3, <1>5, <1>6 DEF Assembling

-----------------------------------------------------------------------------
LEMMA CourseInit == Init => CourseInv
<1> SUFFICES ASSUME Init PROVE CourseInv
  OBVIOUS
<1>0. /\ build \in Build /\ pass = "merge" /\ read[1] = 2 /\ read[2] = 1 /\ entries = build.exports[1]
  BY BuildsAssumption DEF Init, ClustersInit
<1>1. build.exports # <<>>
  BY <1>0 DEF Build
<1>2. 1 \in DOMAIN build.exports /\ DOMAIN build.exports[1] = Index
  <2>1. Len(build.exports) \in Nat /\ DOMAIN build.exports = 1..Len(build.exports)
        /\ build.exports \in Seq(Seq(Entry) \ {<<>>})
    BY <1>0, AccountsAre
  <2>2. Len(build.exports) # 0
    BY <1>1, <2>1
  <2>3. 1 \in DOMAIN build.exports
    BY <2>1, <2>2
  <2> QED BY <1>0, <2>3, AccountsAre DEF Index
<1>3. Collected
  <2>1. ASSUME NEW p \in Accounts(build)
        PROVE  /\ Merged(p) <=> p[1] = 1
               /\ p[1] = 1 => p[2] \in Index /\ Account(build, p) = entries[p[2]] /\ p = <<1, p[2]>>
    <3>1. /\ p = <<p[1], p[2]>> /\ p[1] \in Nat /\ p[2] \in Nat
          /\ p[1] \in DOMAIN build.exports /\ p[2] \in DOMAIN build.exports[p[1]]
          /\ DOMAIN build.exports = 1..Len(build.exports) /\ Len(build.exports) \in Nat
      BY <1>0, AccountsAre
    <3>2. p[2] >= 1
      <4>1. DOMAIN build.exports[p[1]] = 1..Len(build.exports[p[1]]) /\ Len(build.exports[p[1]]) \in Nat
        BY <1>0, <3>1, AccountsAre
      <4> QED BY <3>1, <4>1
    <3> QED BY <1>0, <1>2, <3>1, <3>2 DEF Merged, Account
  <2>2. ASSUME NEW i \in Index
        PROVE  <<1, i>> \in Accounts(build) /\ Account(build, <<1, i>>) = entries[i]
    BY <1>0, <1>2, AccountsAre DEF Account
  <2>3. ASSUME Distinct, NEW i \in Index
        PROVE  Read(entries[i].id) # {} /\ entries[i] = Gathered(build, Read(entries[i].id))
    <3>1. ASSUME NEW p \in Read(entries[i].id) PROVE p = <<1, i>>
      <4>1. p \in Accounts(build) /\ Merged(p) /\ Account(build, p).id = entries[i].id
        BY DEF Read
      <4>2. p[2] \in Index /\ entries[p[2]].id = entries[i].id /\ p = <<1, p[2]>>
        BY <2>1, <4>1
      <4>3. p[2] = i
        BY <2>3, <4>2 DEF Distinct
      <4> QED BY <4>2, <4>3
    <3>2. <<1, i>> \in Read(entries[i].id)
      <4>1. <<1, i>>[1] = 1
        OBVIOUS
      <4>2. Merged(<<1, i>>)
        BY <2>1, <2>2, <4>1
      <4> QED BY <2>2, <4>2 DEF Read
    <3>3. Read(entries[i].id) = {<<1, i>>}
      BY <3>1, <3>2
    <3>4. Gathered(build, {<<1, i>>}) = entries[i]
      BY <1>0, <2>2, GatheredOne
    <3> QED BY <3>3, <3>4
  <2>4. \A p \in Accounts(build) : Merged(p) => \E i \in Index : entries[i].id = Account(build, p).id
    BY <2>1
  <2> QED BY <1>0, <2>3, <2>4 DEF Collected
<1>4. Chosen /\ Assembling
  BY <1>0 DEF Chosen, Assembling, Before
<1> QED BY <1>3, <1>4 DEF CourseInv

LEMMA CourseNext == ClusterInv /\ CourseInv /\ [Next]_vars => CourseInv'
<1> SUFFICES ASSUME ClusterInv, CourseInv, [Next]_vars PROVE CourseInv'
  OBVIOUS
<1>0. Typed /\ Collected /\ Chosen /\ Assembling
  BY DEF ClusterInv, CourseInv
<1>1. CASE MergeEntry /\ UNCHANGED <<courses, catalogue, removed>>
  <2>1. pass' = "merge"
    BY <1>1 DEF MergeEntry
  <2>2. Chosen' /\ Assembling'
    BY <2>1 DEF Chosen, Assembling, Before
  <2> QED BY <1>0, <1>1, <2>2, MergeCollects DEF CourseInv
<1>2. CASE (StartClustering \/ Unite \/ NextPass) /\ UNCHANGED <<courses, catalogue, removed>>
  <2>1. /\ UNCHANGED <<build, read, entries, next, canonical>>
        /\ \/ pass = "merge" /\ pass' = "identity" /\ read[1] > Len(build.exports)
           \/ pass' = pass
           \/ pass # "merge" /\ pass' \in {"repaired", "shared", "normalized", "canonical"}
    BY <1>2 DEF StartClustering, Unite, NextPass, Passes
  <2>2. pass \in Before("assemble") /\ (pass = "canonical" => pass' # pass \/ next = 1)
    <3>1. CASE StartClustering \/ NextPass
      BY <3>1 DEF StartClustering, NextPass, Passes, Before
    <3>2. CASE Unite
      <4>1. todo \subseteq Jobs(pass) /\ todo # {}
        BY <3>2 DEF ClusterInv, Progress, Unite
      <4>2. pass \in {"identity", "repaired", "shared", "normalized"}
        BY <4>1 DEF Jobs
      <4> QED BY <4>2 DEF Before
    <3> QED BY <1>2, <3>1, <3>2
  <2>3. pass' = "canonical" => next' = 1
    <3> SUFFICES ASSUME pass' = "canonical" PROVE next' = 1
      OBVIOUS
    <3>1. CASE pass = "canonical"
      BY <2>1, <2>2, <3>1
    <3>2. CASE pass # "canonical"
      <4>1. pass \in Before("canonical")
        BY <2>2, <3>2 DEF Before
      <4> QED BY <2>1, <4>1 DEF ClusterInv, Speakers
    <3> QED BY <3>1, <3>2
  <2>4. pass' \in Before("assemble")
    BY <2>1, <2>2 DEF Before
  <2>5. Chosen'
    <3>1. \A i \in Index' : ~(i < 1)
      BY DEF Index
    <3> QED BY <2>3, <2>4, <3>1 DEF Chosen, Before
  <2>6. Assembling'
    BY <2>4 DEF Assembling, Before
  <2>7. Collected'
    BY <1>0, <2>1, CollectedKept DEF Collected
  <2> QED BY <2>5, <2>6, <2>7 DEF CourseInv
<1>3. CASE ConsiderCanonical /\ UNCHANGED <<courses, catalogue, removed>>
  <2>1. pass = "canonical" /\ pass' = "canonical" /\ UNCHANGED <<build, read, entries>>
    BY <1>3 DEF ConsiderCanonical
  <2>2. Collected'
    BY <1>0, <2>1, CollectedKept DEF Collected
  <2>3. pass' \in Before("assemble")
    BY <2>1 DEF Before
  <2>4. Assembling'
    BY <2>3 DEF Assembling
  <2> QED BY <1>0, <1>3, <2>2, <2>4, ConsiderChooses DEF CourseInv
<1>4. CASE StartAssembling /\ UNCHANGED <<courses, catalogue, removed>>
  <2>1. /\ pass = "canonical" /\ next \notin Index
        /\ UNCHANGED <<build, read, entries, canonical, parent>>
    BY <1>4 DEF StartAssembling
  <2>2. Collected'
    BY <1>0, <2>1, CollectedKept DEF Collected
  <2>3. \A i \in Index : i < next
    <3>1. next \in Nat \ {0} /\ Len(entries) \in Nat
      BY DEF ClusterInv, Speakers, Typed
    <3> QED BY <2>1, <3>1 DEF Index
  <2>4. Chosen'
    BY <1>0, <2>1, <2>3, ChosenKept
  <2> QED BY <1>0, <1>4, <2>2, <2>4, NothingLooked DEF CourseInv
<1>5. CASE Assemble
  <2>1. /\ pass = "assemble" /\ UNCHANGED <<build, read, entries, canonical>>
        /\ parent' = Compressed(parent, next) /\ next \in Index
    BY <1>5 DEF Assemble
  <2>2. Forest(Index, parent)
    BY <2>1 DEF ClusterInv, Rooted
  <2>3. \A i \in Index : Root(parent', i) = Root(parent, i)
    BY <2>1, <2>2, CompressedKeepsRoots
  <2>4. Collected'
    BY <1>0, <2>1, CollectedKept DEF Collected
  <2>5. Chosen'
    BY <1>0, <2>1, <2>3, ChosenKept DEF Before
  <2> QED BY <1>0, <1>5, <2>4, <2>5, AssembleAssembles DEF CourseInv
<1>6. CASE Reject \/ Publish
  <2>1. pass = "assemble" /\ UNCHANGED <<build, read, entries, canonical, parent>>
    BY <1>6 DEF Reject, Publish
  <2>2. Collected'
    BY <1>0, <2>1, CollectedKept DEF Collected
  <2>3. Chosen'
    BY <1>0, <2>1, ChosenKept DEF Before
  <2> QED BY <1>0, <1>6, <2>2, <2>3, EndAssembles DEF CourseInv
<1>7. CASE UNCHANGED vars
  <2>1. UNCHANGED <<build, entries, read, pass, parent, canonical, courses, catalogue, next>>
    BY <1>7 DEF vars, clusterVars
  <2>2. Index' = Index
    BY <2>1, Frame
  <2>3. Collected'
    BY <1>0, <2>1, CollectedKept DEF Collected
  <2>4. Chosen'
    BY <1>0, <2>1, <2>2 DEF Chosen, Precedes
  <2>5. Assembling'
    <3>1. \A r \in DOMAIN courses : Assembled(courses[r], Looked(r), canonical[r])
                                   => Assembled(courses[r], Looked(r), canonical[r])'
      <4> SUFFICES ASSUME NEW r \in DOMAIN courses, Assembled(courses[r], Looked(r), canonical[r])
                   PROVE  Assembled(courses[r], Looked(r), canonical[r])'
        OBVIOUS
      <4>1. Looked(r)' = Looked(r)
        BY <2>1, <2>2 DEF Looked
      <4>2. courses'[r] = courses[r] /\ canonical'[r] = canonical[r]
        BY <2>1
      <4> QED BY <2>1, <4>1, <4>2 DEF Assembled
    <3> QED BY <1>0, <2>1, <2>2, <3>1 DEF Assembling
  <2> QED BY <2>3, <2>4, <2>5 DEF CourseInv
<1> QED BY <1>1, <1>2, <1>3, <1>4, <1>5, <1>6, <1>7 DEF Next, Cluster, ClustersNext

(* Throughout a build, unless the first export names an entry twice (which fails
   it), each entry is exactly what the accounts of it merged so far say together
   (the last word in its texts, year, time and message, every link of any of
   them); no entry that was looked at precedes the one that speaks for its
   cluster; and each course is exactly that of the entries assembled into it.  *)
THEOREM CourseInvHolds == Spec => []CourseInv
BY InvInit, InvNext, CourseInit, CourseNext, PTL DEF Spec

LEMMA WholeFromInv ==
    ASSUME ClusterInv, CourseInv
    PROVE  CoursesAreWhole
<1> SUFFICES ASSUME pass = "done", NEW r \in DOMAIN courses
             PROVE  LET members == {i \in Index : Root(parent, i) = r}
                        c == courses[r]
                        speaker == entries[canonical[r]]
                    IN  /\ ToSet(c.sources) = {entries[i].id : i \in members}
                        /\ Len(c.sources) = Cardinality(members)
                        /\ canonical[r] \in members
                        /\ c.identity = Identity(speaker)
                        /\ \A k \in DOMAIN EntryLinks(build, speaker) :
                             EntryLinks(build, speaker)[k].label \in {NoLabel, c.links[k].label}
                        /\ \A i \in members :
                             /\ ~TimestampBefore(entries[i].added, c.first)
                             /\ ~TimestampBefore(c.last, entries[i].added)
                             /\ ~TimestampBefore(entries[i].added, speaker.added)
                             /\ entries[i].added = speaker.added => entries[i].id >= speaker.id
  BY DEF CoursesAreWhole
<1> DEFINE members == {i \in Index : Root(parent, i) = r}
           speaker == entries[canonical[r]]
<1>1. /\ Assembled(courses[r], Looked(r), canonical[r]) /\ \A i \in Index : i < next
      /\ \A i \in Index : ~Precedes(i, canonical[Root(parent, i)])
  BY DEF CourseInv, Assembling, Chosen, Before
<1>2. Looked(r) = members
  BY <1>1 DEF Looked
<1>3. canonical[r] \in members /\ courses[r].identity = Identity(speaker) /\ entries \in Seq(Entry)
  BY DEF ClusterInv, Speakers, Typed
<1>4. ASSUME NEW i \in members
      PROVE  /\ ~TimestampBefore(entries[i].added, speaker.added)
             /\ entries[i].added = speaker.added => entries[i].id >= speaker.id
  <2>1. ~Precedes(i, canonical[r])
    BY <1>1
  <2>2. entries[i] \in Entry /\ speaker \in Entry
    BY <1>3, IndexEntries
  <2>3. entries[i].id \in Nat /\ speaker.id \in Nat
    BY <2>2 DEF Entry
  <2> QED BY <2>1, <2>3 DEF Precedes
<1> QED BY <1>1, <1>2, <1>3, <1>4 DEF Assembled

(* When a build is done, every course has each entry of its cluster as a source
   exactly once, and nothing else; it bears the identity and the labels of an
   entry that no other of the cluster precedes, and spans the times of all of
   them, whatever order they were assembled in.                               *)
THEOREM WholeTheorem == Spec => []CoursesAreWhole
BY InvHolds, CourseInvHolds, WholeFromInv, PTL

LEMMA NothingLostFromInv ==
    ASSUME ClusterInv, CourseInv
    PROVE  NothingLostNothingDead
<1> DEFINE ids == {Account(build, p).id : p \in Accounts(build)}
           Of(n) == {p \in Accounts(build) : Account(build, p).id = n}
           said == [n \in ids |-> Gathered(build, Of(n))]
           Due(n, k) ==
                /\ ~Excluded(build, said[n], k)
                /\ \/ k \in TorrentKeys(build, said[n])
                   \/ k \in DOMAIN said[n].links /\ ActionableSourceLink(said[n], k)
<1> SUFFICES ASSUME pass = "done"
             PROVE  /\ \A n \in ids : \A k \in Keys : Due(n, k) =>
                         \E c \in catalogue :
                            /\ n \in ToSet(c.sources)
                            /\ k \in DOMAIN c.links
                            /\ k \in DOMAIN said[n].links /\ said[n].links[k].primary => c.links[k].primary
                    /\ \A c \in catalogue :
                         /\ Linked(c)
                         /\ \A k \in DOMAIN c.links : \E n \in ids : n \in ToSet(c.sources) /\ Due(n, k)
  BY DEF NothingLostNothingDead
<1>1. /\ \A i \in Index : /\ Root(parent, i) \in DOMAIN courses /\ i < next
                          /\ \A j \in 1..(i - 1) : entries[j].id # entries[i].id
      /\ \A r \in DOMAIN courses : Assembled(courses[r], Looked(r), canonical[r])
      /\ catalogue = {courses[r] : r \in {x \in DOMAIN courses : Linked(courses[x])}}
  BY DEF CourseInv, Assembling, Before
<1>2. build \in Build /\ entries \in Seq(Entry) /\ read[1] \in Nat
  BY DEF ClusterInv, Typed
<1>3. Distinct
  <2> SUFFICES ASSUME NEW i \in Index, NEW j \in Index, entries[i].id = entries[j].id, i # j
               PROVE  FALSE
    BY DEF Distinct
  <2>1. i \in Nat /\ j \in Nat /\ i >= 1 /\ j >= 1
    BY <1>2 DEF Index
  <2>2. i \in 1..(j - 1) \/ j \in 1..(i - 1)
    BY <2>1
  <2> QED BY <1>1, <2>2
<1>4. \A p \in Accounts(build) : Merged(p)
  <2> SUFFICES ASSUME NEW p \in Accounts(build) PROVE Merged(p)
    OBVIOUS
  <2>1. /\ p[1] \in DOMAIN build.exports /\ DOMAIN build.exports = 1..Len(build.exports)
        /\ Len(build.exports) \in Nat
    BY <1>2, AccountsAre
  <2>2. read[1] > Len(build.exports)
    BY DEF CourseInv, Collected
  <2> QED BY <1>2, <2>1, <2>2 DEF Merged
<1>5. \A n : Read(n) = Of(n)
  BY <1>4 DEF Read
<1>6. ASSUME NEW i \in Index
      PROVE  entries[i].id \in ids /\ said[entries[i].id] = entries[i]
  <2>1. Read(entries[i].id) # {} /\ entries[i] = Gathered(build, Read(entries[i].id))
    BY <1>3 DEF CourseInv, Collected
  <2>2. entries[i].id \in ids
    BY <2>1 DEF Read
  <2> HIDE DEF ids, Of
  <2> QED BY <1>5, <2>1, <2>2
<1>7. ASSUME NEW n \in ids PROVE \E i \in Index : entries[i].id = n
  <2>1. PICK p \in Accounts(build) : Account(build, p).id = n
    OBVIOUS
  <2> QED BY <1>4, <2>1 DEF CourseInv, Collected
<1> HIDE DEF said, ids
<1>8. ASSUME NEW i \in Index
      PROVE  /\ \A k : k \in DOMAIN EntryLinks(build, entries[i]) <=> Due(entries[i].id, k)
             /\ \A k \in DOMAIN EntryLinks(build, entries[i]) :
                  k \in DOMAIN entries[i].links /\ entries[i].links[k].primary
                    => EntryLinks(build, entries[i])[k].primary
  <2>1. entries[i] \in Entry
    BY <1>2, IndexEntries
  <2>2. said[entries[i].id] = entries[i]
    BY <1>6
  <2> QED BY <1>2, <2>1, <2>2, LinksOfEntry
<1> HIDE DEF Due
<1>9. ASSUME NEW n \in ids, NEW k \in Keys, Due(n, k)
      PROVE  \E c \in catalogue :
                 /\ n \in ToSet(c.sources)
                 /\ k \in DOMAIN c.links
                 /\ k \in DOMAIN said[n].links /\ said[n].links[k].primary => c.links[k].primary
  <2>1. PICK i \in Index : entries[i].id = n
    BY <1>7
  <2>2. /\ said[n] = entries[i] /\ k \in DOMAIN EntryLinks(build, entries[i])
        /\ k \in DOMAIN said[n].links /\ said[n].links[k].primary
             => EntryLinks(build, entries[i])[k].primary
    BY <1>6, <1>8, <1>9, <2>1
  <2> DEFINE r == Root(parent, i)
             c == courses[r]
  <2>3. r \in DOMAIN courses /\ i \in Looked(r)
    BY <1>1 DEF Looked
  <2> HIDE DEF r
  <2>4. /\ ToSet(c.sources) = {entries[j].id : j \in Looked(r)}
        /\ k \in DOMAIN c.links
        /\ EntryLinks(build, entries[i])[k].primary => c.links[k].primary
    BY <1>1, <2>2, <2>3 DEF Assembled
  <2>5. c \in catalogue
    BY <1>1, <2>3, <2>4 DEF Linked
  <2>6. n \in ToSet(c.sources)
    BY <2>1, <2>3, <2>4
  <2> HIDE DEF c
  <2> QED BY <2>2, <2>4, <2>5, <2>6
<1>10. ASSUME NEW c \in catalogue, NEW k \in DOMAIN c.links
       PROVE  \E n \in ids : n \in ToSet(c.sources) /\ Due(n, k)
  <2>1. PICK r \in DOMAIN courses : c = courses[r]
    BY <1>1
  <2>2. /\ ToSet(c.sources) = {entries[j].id : j \in Looked(r)}
        /\ \E i \in Looked(r) : k \in DOMAIN EntryLinks(build, entries[i])
    BY <1>1, <2>1 DEF Assembled
  <2>3. PICK i \in Looked(r) : k \in DOMAIN EntryLinks(build, entries[i])
    BY <2>2
  <2>4. i \in Index
    BY DEF Looked
  <2>5. entries[i].id \in ids /\ entries[i].id \in ToSet(c.sources) /\ Due(entries[i].id, k)
    BY <1>6, <1>8, <2>2, <2>3, <2>4
  <2> QED BY <2>5
<1>11. \A c \in catalogue : Linked(c)
  BY <1>1
<1> QED BY <1>9, <1>10, <1>11

(* From end to end, whatever the exports, in whatever order they are merged and
   their entries clustered: a link that any of them had, or the torrent of the
   message that counts, is in a course that names the entry as a source, unless a
   side file excludes it or all the accounts of the entry together make it a mere
   mention; it is primary if any export had it so; and no course has a link that
   is not one of these, of one of its sources.                                 *)
THEOREM NothingLostTheorem == Spec => []NothingLostNothingDead
BY InvHolds, CourseInvHolds, NothingLostFromInv, PTL
-----------------------------------------------------------------------------
(* Topics.                                                                    *)

(* What has joined course r.                                                  *)
Heard(r) == {i \in DOMAIN posts : i < joining /\ posts[i].course = r}

(* The courses cs know what their entries say, and the author of the canonical
   one.                                                                       *)
Told(cs) ==
    \A r \in DOMAIN cs :
        /\ {"author", "categories", "primary"} \subseteq DOMAIN cs[r]
        /\ Heard(r) # {}
        /\ cs[r].categories = UNION {Classify(posts[i]) : i \in Heard(r)}
        /\ \A i \in Heard(r) : posts[i].canonical => cs[r].author = posts[i].author

TopicsInv ==
    /\ posts \in Inputs /\ joining \in Nat \ {0}
    /\ topicPass \in {"merge", "propagate", "count", "done"}
    /\ topicPass = "merge" => \A i \in DOMAIN posts : i < joining => posts[i].course \in DOMAIN topical
    /\ topicPass # "merge" => \A i \in DOMAIN posts : i < joining
    /\ topicPass \in {"merge", "propagate"} => Told(topical)
    /\ topicPass \in {"count", "done"} => \E cs : Told(cs) /\ topical = PropagateTopics(cs)
    /\ topicPass = "done" => counts = CountsOf(topical)

LEMMA JoinTells ==
    ASSUME TopicsInv, Join
    PROVE  TopicsInv'
<1> DEFINE e == posts[joining]
           joined == IF e.course \notin DOMAIN topical THEN TopicCandidate(e)
                     ELSE IF e.canonical THEN MergeTopics(TopicCandidate(e), topical[e.course])
                     ELSE MergeTopics(topical[e.course], TopicCandidate(e))
<1>1. /\ topicPass = "merge" /\ topicPass' = "merge" /\ joining \in DOMAIN posts
      /\ joining' = joining + 1 /\ posts' = posts
      /\ topical' = [r \in DOMAIN topical \cup {e.course} |->
                        IF r = e.course THEN joined ELSE topical[r]]
  BY DEF Join, TopicsInv
<1>2. posts \in Seq(Post) /\ posts \in Inputs /\ joining \in Nat \ {0}
  BY TopicsAssumption DEF TopicsInv
<1>3. /\ Told(topical) /\ \A i \in DOMAIN posts : i < joining => posts[i].course \in DOMAIN topical
  BY <1>1 DEF TopicsInv
<1>4. \A i \in DOMAIN posts : i < joining + 1 <=> i < joining \/ i = joining
  BY <1>2
<1>5. ~(joining < joining)
  BY <1>2
<1>6. \A r : Heard(r)' = IF r = e.course THEN Heard(r) \cup {joining} ELSE Heard(r)
  <2> SUFFICES ASSUME NEW r
               PROVE  Heard(r)' = IF r = e.course THEN Heard(r) \cup {joining} ELSE Heard(r)
    OBVIOUS
  <2>1. Heard(r)' = {i \in DOMAIN posts : i < joining + 1 /\ posts[i].course = r}
    BY <1>1 DEF Heard
  <2> QED BY <1>1, <1>4, <2>1 DEF Heard
<1>7. /\ {"author", "categories", "primary"} \subseteq DOMAIN TopicCandidate(e)
      /\ TopicCandidate(e).categories = Classify(e) /\ TopicCandidate(e).author = e.author
  BY DEF TopicCandidate
<1>8. ASSUME NEW c, NEW d, {"author", "categories", "primary"} \subseteq DOMAIN c
      PROVE  /\ {"author", "categories", "primary"} \subseteq DOMAIN MergeTopics(c, d)
             /\ MergeTopics(c, d).categories = c.categories \cup d.categories
             /\ MergeTopics(c, d).author = c.author
  BY <1>8 DEF MergeTopics
<1>9. ASSUME NEW i \in DOMAIN posts, posts[i].course = e.course, posts[i].canonical, e.canonical
      PROVE  i = joining
  <2> DEFINE S == {j \in DOMAIN posts : posts[j].course = e.course /\ posts[j].canonical}
  <2>1. Cardinality(S) = 1
    BY <1>1, <1>2, TopicsAssumption
  <2>2. IsFiniteSet(S)
    <3>1. IsFiniteSet(1..Len(posts)) /\ S \in SUBSET (1..Len(posts))
      BY <1>2, FS_Interval
    <3> QED BY <3>1, FS_Subset
  <2>3. i \in S /\ joining \in S
    BY <1>1, <1>9
  <2> HIDE DEF S
  <2> QED BY <2>1, <2>2, <2>3, FS_Singleton
<1>10. /\ {"author", "categories", "primary"} \subseteq DOMAIN joined
       /\ joined.categories = UNION {Classify(posts[i]) : i \in Heard(e.course) \cup {joining}}
       /\ \A i \in Heard(e.course) \cup {joining} : posts[i].canonical => joined.author = posts[i].author
  <2> DEFINE r == e.course
             c == topical[r]
             new == TopicCandidate(e)
             before == UNION {Classify(posts[i]) : i \in Heard(r)}
  <2>0. UNION {Classify(posts[i]) : i \in Heard(r) \cup {joining}} = before \cup Classify(e)
    OBVIOUS
  <2>1. CASE r \notin DOMAIN topical
    <3>1. Heard(r) = {}
      BY <1>3, <2>1 DEF Heard
    <3>2. before = {}
      BY <3>1
    <3>3. joined = new
      BY <2>1
    <3> HIDE DEF joined, new, before
    <3> QED BY <1>7, <2>0, <3>1, <3>2, <3>3 DEF new
  <2>2. CASE r \in DOMAIN topical
    <3>1. /\ {"author", "categories", "primary"} \subseteq DOMAIN c
          /\ c.categories = before
          /\ \A i \in Heard(r) : posts[i].canonical => c.author = posts[i].author
      BY <1>3, <2>2 DEF Told
    <3>2. joined = IF e.canonical THEN MergeTopics(new, c) ELSE MergeTopics(c, new)
      BY <2>2
    <3>3. \A i \in Heard(r) : i \in DOMAIN posts /\ posts[i].course = e.course /\ i # joining
      BY <1>5 DEF Heard
    <3>4. /\ {"author", "categories", "primary"} \subseteq DOMAIN joined
          /\ joined.categories = before \cup Classify(e)
          /\ joined.author = IF e.canonical THEN e.author ELSE c.author
      <4> HIDE DEF joined, new, before, c
      <4> QED BY <1>7, <1>8, <3>1, <3>2 DEF new
    <3>5. ASSUME NEW i \in Heard(e.course) \cup {joining}, posts[i].canonical
          PROVE  joined.author = posts[i].author
      <4> HIDE DEF joined, c
      <4>1. CASE i = joining
        BY <3>4, <3>5, <4>1
      <4>2. CASE i # joining
        BY <1>9, <3>1, <3>3, <3>4, <3>5, <4>2
      <4> QED BY <4>1, <4>2
    <3> HIDE DEF joined, before
    <3> QED BY <2>0, <3>4, <3>5
  <2> QED BY <2>1, <2>2
<1> HIDE DEF joined, e
<1>11. /\ DOMAIN topical' = DOMAIN topical \cup {e.course} /\ topical'[e.course] = joined
       /\ \A r \in DOMAIN topical : r # e.course => topical'[r] = topical[r]
  BY <1>1
<1>12. Told(topical)'
  <2> SUFFICES ASSUME NEW r \in DOMAIN topical'
               PROVE  /\ {"author", "categories", "primary"} \subseteq DOMAIN topical'[r]
                      /\ Heard(r)' # {}
                      /\ topical'[r].categories = UNION {Classify(posts[i]) : i \in Heard(r)'}
                      /\ \A i \in Heard(r)' : posts[i].canonical => topical'[r].author = posts[i].author
    BY <1>1 DEF Told
  <2>1. CASE r = e.course
    <3>1. Heard(r)' = Heard(r) \cup {joining} /\ topical'[r] = joined
      BY <1>6, <1>11, <2>1
    <3> QED BY <1>10, <2>1, <3>1
  <2>2. CASE r # e.course
    <3>1. Heard(r)' = Heard(r) /\ topical'[r] = topical[r] /\ r \in DOMAIN topical
      BY <1>6, <1>11, <2>2
    <3> QED BY <1>3, <3>1 DEF Told
  <2> QED BY <2>1, <2>2
<1>13. \A i \in DOMAIN posts : i < joining + 1 => posts[i].course \in DOMAIN topical'
  BY <1>3, <1>4, <1>11 DEF e
<1> QED BY <1>1, <1>2, <1>12, <1>13 DEF TopicsInv

LEMMA ToldKept ==
    ASSUME NEW cs, Told(cs), UNCHANGED <<posts, joining>>
    PROVE  Told(cs)'
BY DEF Told, Heard

LEMMA TopicsNextTells == TopicsInv /\ [TopicsNext]_topicVars => TopicsInv'
<1> SUFFICES ASSUME TopicsInv, [TopicsNext]_topicVars PROVE TopicsInv'
  OBVIOUS
<1>1. CASE Join
  BY <1>1, JoinTells
<1>2. CASE Drop
  <2> DEFINE R == {r \in DOMAIN topical : topical[r].linked}
  <2>1. /\ topicPass = "merge" /\ topicPass' = "propagate" /\ joining \notin DOMAIN posts
        /\ joining' = joining /\ posts' = posts /\ topical' = Restrict(topical, R)
        /\ Told(topical) /\ posts \in Inputs /\ joining \in Nat \ {0}
    BY <1>2 DEF Drop, TopicsInv
  <2>2. DOMAIN topical' = R /\ \A r \in R : topical'[r] = topical[r]
    BY <2>1 DEF Restrict
  <2>3. R \subseteq DOMAIN topical
    OBVIOUS
  <2> HIDE DEF R
  <2>4. \A r : Heard(r)' = Heard(r)
    BY <2>1 DEF Heard
  <2>5. Told(topical)'
    BY <2>1, <2>2, <2>3, <2>4 DEF Told
  <2>6. \A i \in DOMAIN posts : i < joining
    <3>1. posts \in Seq(Post)
      BY <2>1, TopicsAssumption
    <3> QED BY <2>1, <3>1
  <2> QED BY <2>1, <2>5, <2>6 DEF TopicsInv
<1>3. CASE Propagate
  <2>1. Told(topical) /\ topical' = PropagateTopics(topical) /\ UNCHANGED <<posts, joining>>
    BY <1>3 DEF Propagate, TopicsInv
  <2>2. Told(topical) => \E cs : Told(cs)' /\ topical' = PropagateTopics(cs)
    BY <2>1, ToldKept
  <2> QED BY <1>3, <2>1, <2>2 DEF Propagate, TopicsInv
<1>4. CASE Count
  BY <1>4, ToldKept DEF Count, TopicsInv
<1>5. CASE UNCHANGED topicVars
  BY <1>5, ToldKept DEF topicVars, TopicsInv
<1> QED BY <1>1, <1>2, <1>3, <1>4, <1>5 DEF TopicsNext

(* What the passes find at the end.                                           *)
LEMMA ToldSaid ==
    ASSUME TopicsInv, topicPass # "merge", NEW cs, Told(cs), NEW r \in DOMAIN cs
    PROVE  LET speaker == CHOOSE i \in DOMAIN posts : posts[i].course = r /\ posts[i].canonical
           IN  cs[r].categories = Said(r) /\ cs[r].author = posts[speaker].author
<1> DEFINE P(i) == posts[i].course = r /\ posts[i].canonical
           speaker == CHOOSE i \in DOMAIN posts : P(i)
<1>1. posts \in Seq(Post) /\ posts \in Inputs /\ \A i \in DOMAIN posts : i < joining
  BY TopicsAssumption DEF TopicsInv
<1>2. Heard(r) = {i \in DOMAIN posts : posts[i].course = r}
  BY <1>1 DEF Heard
<1>3. cs[r].categories = Said(r)
  BY <1>2 DEF Told, Said
<1>4. PICK i \in DOMAIN posts : posts[i].course = r
  BY <1>2 DEF Told
<1>5. \E j \in DOMAIN posts : P(j)
  <2> DEFINE S == {j \in DOMAIN posts : posts[j].course = posts[i].course /\ posts[j].canonical}
  <2>1. Cardinality(S) = 1
    BY <1>1, <1>4, TopicsAssumption
  <2>2. S # {}
    BY <2>1, FS_EmptySet
  <2> QED BY <1>4, <2>2
<1>6. speaker \in DOMAIN posts /\ P(speaker)
  BY <1>5
<1> HIDE DEF speaker
<1>7. cs[r].author = posts[speaker].author
  BY <1>2, <1>6 DEF Told
<1> QED BY <1>3, <1>7 DEF speaker

(* There are finitely many courses.                                           *)
LEMMA ToldFinite ==
    ASSUME TopicsInv, NEW cs, Told(cs)
    PROVE  IsFiniteSet(DOMAIN cs)
<1> DEFINE f == [i \in DOMAIN posts |-> posts[i].course]
           T == {f[i] : i \in DOMAIN posts}
<1>1. posts \in Seq(Post)
  BY TopicsAssumption DEF TopicsInv
<1>2. IsFiniteSet(DOMAIN posts)
  BY <1>1, FS_Interval
<1>3. f \in Surjection(DOMAIN posts, T)
  BY DEF Surjection
<1>4. IsFiniteSet(T)
  <2> HIDE DEF f, T
  <2> QED BY <1>2, <1>3, FS_Surjection
<1>5. DOMAIN cs \subseteq T
  BY DEF Told, Heard
<1> QED BY <1>4, <1>5, FS_Subset

(* What a round of topics does to a course.                                   *)
LEMMA Propagated ==
    ASSUME NEW cs, NEW r \in DOMAIN cs, {"author", "categories", "primary"} \subseteq DOMAIN cs[r]
    PROVE  LET ds == PropagateTopics(cs)
           IN  /\ DOMAIN ds = DOMAIN cs /\ ds[r].author = cs[r].author
               /\ \/ /\ ds[r] = cs[r]
                     /\ \/ cs[r].author = NoAuthor \/ ~IsOther(cs[r])
                        \/ \A t \in TopicSet : ~Dominant(cs, cs[r].author, t)
                  \/ /\ cs[r].author # NoAuthor /\ IsOther(cs[r])
                     /\ \E t \in TopicSet : /\ Dominant(cs, cs[r].author, t)
                                            /\ ds[r].categories = {t} /\ ds[r].primary = t
<1> DEFINE c == cs[r]
           dominant == {t \in TopicSet : Dominant(cs, c.author, t)}
           topic == CHOOSE t \in dominant : TRUE
           d == [c EXCEPT !.categories = {topic}, !.primary = topic]
           ds == PropagateTopics(cs)
<1>1. /\ DOMAIN ds = DOMAIN cs
      /\ ds[r] = IF c.author # NoAuthor /\ IsOther(c) /\ dominant # {} THEN d ELSE c
  BY DEF PropagateTopics
<1>2. d.author = c.author /\ d.categories = {topic} /\ d.primary = topic
  <2> HIDE DEF topic
  <2> QED OBVIOUS
<1>3. dominant # {} => topic \in TopicSet /\ Dominant(cs, c.author, topic)
  OBVIOUS
<1>4. dominant = {} => \A t \in TopicSet : ~Dominant(cs, c.author, t)
  OBVIOUS
<1> HIDE DEF ds, d, topic, dominant, c
<1>5. CASE c.author # NoAuthor /\ IsOther(c) /\ dominant # {}
  BY <1>1, <1>2, <1>3, <1>5 DEF ds, c
<1>6. CASE ~(c.author # NoAuthor /\ IsOther(c) /\ dominant # {})
  BY <1>1, <1>4, <1>6 DEF ds, c
<1> QED BY <1>5, <1>6

LEMMA EarnedFromInv ==
    ASSUME TopicsInv
    PROVE  TopicsAreEarned
<1> DEFINE speaker(x) == CHOOSE i \in DOMAIN posts : posts[i].course = x /\ posts[i].canonical
<1> SUFFICES ASSUME topicPass = "done", NEW r \in DOMAIN topical, topical[r].categories # Said(r)
             PROVE  LET topic == topical[r].primary
                        peers == {x \in DOMAIN topical :
                                    /\ Said(x) \cap TopicSet # {}
                                    /\ posts[speaker(x)].author = posts[speaker(r)].author}
                        alike == {x \in peers : FirstOf(Said(x), Topics) = topic}
                    IN  /\ Said(r) = {"other"}
                        /\ topical[r].categories = {topic}
                        /\ posts[speaker(r)].author # NoAuthor
                        /\ Cardinality(peers) >= 2
                        /\ 10 * Cardinality(alike) >= 7 * Cardinality(peers)
  BY DEF TopicsAreEarned
<1>1. PICK cs : Told(cs) /\ topical = PropagateTopics(cs)
  BY DEF TopicsInv
<1>2. \A x \in DOMAIN cs : cs[x].categories = Said(x) /\ cs[x].author = posts[speaker(x)].author
  BY <1>1, ToldSaid
<1>3. DOMAIN topical = DOMAIN cs
  BY <1>1 DEF PropagateTopics
<1> DEFINE author == cs[r].author
           topic == topical[r].primary
           peers == {x \in DOMAIN topical : /\ Said(x) \cap TopicSet # {}
                                            /\ posts[speaker(x)].author = posts[speaker(r)].author}
           alike == {x \in peers : FirstOf(Said(x), Topics) = topic}
<1>4. /\ author # NoAuthor /\ IsOther(cs[r])
      /\ \E t \in TopicSet : Dominant(cs, author, t) /\ topical[r].categories = {t} /\ topic = t
  <2>1. {"author", "categories", "primary"} \subseteq DOMAIN cs[r]
    BY <1>1, <1>3 DEF Told
  <2>2. topical[r] # cs[r]
    BY <1>2, <1>3
  <2> QED BY <1>1, <1>3, <2>1, <2>2, Propagated
<1>5. Said(r) = {"other"} /\ posts[speaker(r)].author = author
  BY <1>2, <1>3, <1>4 DEF IsOther
<1>6. Dominant(cs, author, topic) /\ topical[r].categories = {topic}
  BY <1>4
<1> HIDE DEF topic
<1>7. peers = Classified(cs, author)
  BY <1>2, <1>3 DEF Classified, HasTopic
<1>8. alike = With(cs, author, topic)
  BY <1>2, <1>3, <1>7 DEF With, FirstTopic, Classified
<1> HIDE DEF peers, alike, speaker
<1>9. Cardinality(peers) \in Nat /\ Cardinality(alike) \in Nat
  <2>1. peers \subseteq DOMAIN cs /\ alike \subseteq DOMAIN cs
    BY <1>7, <1>8 DEF With, Classified
  <2>2. IsFiniteSet(DOMAIN cs)
    BY <1>1, ToldFinite
  <2> QED BY <2>1, <2>2, FS_Subset, FS_CardinalityType
<1>10. Cardinality(peers) >= 2 /\ Cardinality(alike) * 100 >= Cardinality(peers) * 70
  BY <1>6, <1>7, <1>8 DEF Dominant
<1>11. 10 * Cardinality(alike) >= 7 * Cardinality(peers)
  BY <1>9, <1>10
<1> QED BY <1>4, <1>5, <1>6, <1>10, <1>11 DEF peers, alike, topic

LEMMA CountsFromInv ==
    ASSUME TopicsInv
    PROVE  CountsAreOfThePublished
<1> SUFFICES ASSUME topicPass = "done" PROVE topical = PropagateTopics(topical)
  BY DEF CountsAreOfThePublished, TopicsInv
<1>1. PICK cs : Told(cs) /\ topical = PropagateTopics(cs)
  BY DEF TopicsInv
<1>2. DOMAIN topical = DOMAIN cs
  BY <1>1 DEF PropagateTopics
<1>3. \A x \in DOMAIN cs : {"author", "categories", "primary"} \subseteq DOMAIN cs[x]
  BY <1>1 DEF Told
<1>4. \A x \in DOMAIN cs :
        /\ topical[x].author = cs[x].author
        /\ \/ topical[x] = cs[x]
           \/ /\ ~IsOther(topical[x]) /\ IsOther(cs[x]) /\ cs[x].author # NoAuthor
              /\ \E t \in TopicSet : Dominant(cs, cs[x].author, t)
  <2> SUFFICES ASSUME NEW x \in DOMAIN cs
               PROVE  /\ topical[x].author = cs[x].author
                      /\ \/ topical[x] = cs[x]
                         \/ /\ ~IsOther(topical[x]) /\ IsOther(cs[x]) /\ cs[x].author # NoAuthor
                            /\ \E t \in TopicSet : Dominant(cs, cs[x].author, t)
    OBVIOUS
  <2>1. "other" \notin TopicSet
    BY TopicsAssumption
  <2> QED BY <1>1, <1>3, <2>1, Propagated DEF IsOther
<1>5. ASSUME NEW r \in DOMAIN topical, topical[r].author # NoAuthor, IsOther(topical[r]),
             NEW t \in TopicSet
      PROVE  ~Dominant(topical, topical[r].author, t)
  <2> DEFINE author == cs[r].author
  <2>1. topical[r] = cs[r] /\ author # NoAuthor /\ IsOther(cs[r]) /\ topical[r].author = author
    BY <1>2, <1>4, <1>5
  <2>2. \A s \in TopicSet : ~Dominant(cs, author, s)
    <3>1. topical[r] = cs[r] /\ {"author", "categories", "primary"} \subseteq DOMAIN cs[r] /\ r \in DOMAIN cs
      BY <1>2, <1>3, <2>1
    <3>2. \/ \A s \in TopicSet : ~Dominant(cs, author, s)
          \/ \E s \in TopicSet : topical[r].categories = {s}
      BY <1>1, <2>1, <3>1, Propagated
    <3> QED BY <2>1, <3>1, <3>2, TopicsAssumption DEF IsOther
  <2>3. \A x \in DOMAIN cs : cs[x].author = author => topical[x] = cs[x]
    BY <1>4, <2>2
  <2> HIDE DEF author
  <2>4. Classified(topical, author) = Classified(cs, author)
    BY <1>2, <1>4, <2>3 DEF Classified
  <2>5. \A s : With(topical, author, s) = With(cs, author, s)
    BY <2>3, <2>4 DEF With, Classified
  <2>6. Dominant(topical, author, t) <=> Dominant(cs, author, t)
    BY <2>4, <2>5 DEF Dominant
  <2> QED BY <2>1, <2>2, <2>6
<1>6. \A r \in DOMAIN topical : PropagateTopics(topical)[r] = topical[r]
  <2> SUFFICES ASSUME NEW r \in DOMAIN topical PROVE PropagateTopics(topical)[r] = topical[r]
    OBVIOUS
  <2>1. {t \in TopicSet : Dominant(topical, topical[r].author, t)} = {}
        \/ topical[r].author = NoAuthor \/ ~IsOther(topical[r])
    BY <1>5
  <2> QED BY <2>1 DEF PropagateTopics
<1>7. /\ topical = [x \in DOMAIN topical |-> topical[x]]
      /\ PropagateTopics(topical) = [x \in DOMAIN topical |-> PropagateTopics(topical)[x]]
  BY <1>1 DEF PropagateTopics
<1> QED BY <1>6, <1>7

LEMMA TopicsInitTells == TopicsInit => TopicsInv
BY DEF TopicsInit, TopicsInv, Told

(* For any entries, keywords, authors and any order of the topics, a published
   course has exactly the categories that its entries' texts give it, or its
   texts give it none and at least seven in ten of its author's courses with a
   topic, of which there are two, are first of all about the one it got.      *)
THEOREM TopicsTheorem == TopicsSpec => []TopicsAreEarned
BY TopicsInitTells, TopicsNextTells, EarnedFromInv, PTL DEF TopicsSpec

(* The counts of a published file are those of the courses in it, and the round
   of topics is a fixed point: the courses that got a topic from their author do
   not earn it for others.                                                    *)
THEOREM CountsTheorem == TopicsSpec => []CountsAreOfThePublished
BY TopicsInitTells, TopicsNextTells, CountsFromInv, PTL DEF TopicsSpec

-----------------------------------------------------------------------------
(* Title rules.                                                               *)

(* No rule of an accepted file protects what another one forces, in whatever
   case it is written.                                                        *)
LEMMA ForceableIsFree ==
    ASSUME NEW f \in RulesFile, NEW v, Forceable(f, v),
           NEW w \in TitleWords, Lower[v] = Lower[w]
    PROVE  w \notin Hard /\ ~ByRule(f, w)
<1>1. v \in TitleWords /\ v \notin Hard /\ ~ExplicitlyProtected(f, v)
  BY DEF Forceable
<1>2. w \notin Hard /\ Within[w] = Within[v]
  BY <1>1, LexiconAssumption
<1>3. Lower[w] \notin LowerAll(f.ci) \cup LowerAll(f.exact)
  BY <1>1 DEF ExplicitlyProtected
<1>4. Within[w] \cap LowerAll(f.inside) = {}
  BY <1>1, <1>2 DEF ExplicitlyProtected
<1>5. w \notin f.exact
  BY <1>3 DEF LowerAll
<1> QED BY <1>2, <1>3, <1>4, <1>5 DEF ByRule

(* A title in which a forced word stands free is rewritten.                   *)
LEMMA WordRules ==
    ASSUME file \in RulesFile, Accepted(file), NEW t
    PROVE  WordRulesTakeEffect(t, Rewrite(file, t))
<1> SUFFICES ASSUME NEW i \in DOMAIN t, IsWord(t, i), Forced(file, t[i]),
                    ~Bracketed(t, i), ~InNetworkField(t, i),
                    NEW j \in DOMAIN t, IsWord(t, j), t[j] \in Latin,
                    j = i \/ ~Protected(file, t, j)
             PROVE  Rewrite(file, t)[j] = Cyrillic[t[j]]
  BY DEF WordRulesTakeEffect
<1>1. t[i] \in TitleWords
  BY DEF IsWord
<1>2. PICK v \in file.tokens : Lower[v] = Lower[t[i]]
  BY DEF Forced, LowerAll
<1>3. Forceable(file, v)
  BY <1>2 DEF Accepted
<1>4. ~Firm(file, t, i)
  BY <1>1, <1>2, <1>3, ForceableIsFree DEF Firm
<1>5. ForcedTitle(file, t)
  BY <1>4 DEF ForcedTitle
<1>6. Rewritten(file, t, j)
  BY <1>4 DEF Rewritten
<1> QED BY <1>5, <1>6 DEF Rewrite

(* So is one with the words of a forced phrase.                               *)
LEMMA PhraseRules ==
    ASSUME file \in RulesFile, Accepted(file), NEW t
    PROVE  PhraseRulesTakeEffect(t, Rewrite(file, t))
<1> DEFINE at(i, k) == i + 2 * (k - 1)
<1> SUFFICES ASSUME NEW p \in file.phrases, NEW i \in 1..Len(t),
                    \A k \in DOMAIN p :
                        /\ at(i, k) \in DOMAIN t /\ IsWord(t, at(i, k))
                        /\ Lower[t[at(i, k)]] = Lower[p[k]]
                        /\ ~LooksLikeName(t[at(i, k)])
                        /\ ~Bracketed(t, at(i, k)) /\ ~InNetworkField(t, at(i, k))
                        /\ k > 1 => t[at(i, k) - 1] = Space,
                    NEW k \in DOMAIN p, t[at(i, k)] \in Latin
             PROVE  Rewrite(file, t)[at(i, k)] = Cyrillic[t[at(i, k)]]
  BY DEF PhraseRulesTakeEffect
<1> HIDE DEF at
<1>1. p \in Seq(Spellings) /\ Len(p) >= 2
  BY DEF RulesFile, Accepted
<1>2. \A x \in DOMAIN p : ~Protected(file, t, at(i, x))
  <2> SUFFICES ASSUME NEW x \in DOMAIN p PROVE ~Protected(file, t, at(i, x))
    OBVIOUS
  <2>1. Forceable(file, p[x])
    BY DEF Accepted
  <2>2. t[at(i, x)] \in TitleWords /\ Lower[p[x]] = Lower[t[at(i, x)]]
    BY DEF IsWord
  <2>3. t[at(i, x)] \notin Hard /\ ~ByRule(file, t[at(i, x)])
    BY <2>1, <2>2, ForceableIsFree
  <2> QED BY <2>3 DEF Protected, Firm
<1>3. PhraseAt(file, t, p, i)
  <2> DEFINE w == [x \in DOMAIN p |-> at(i, x)]
  <2>1. w \in [DOMAIN p -> DOMAIN t]
    OBVIOUS
  <2>2. w[1] = i
    BY <1>1 DEF at
  <2>3. \A x \in DOMAIN p : /\ IsWord(t, w[x]) /\ ~Protected(file, t, w[x])
                            /\ Lower[t[w[x]]] = Lower[p[x]]
    BY <1>2
  <2>4. ASSUME NEW x \in DOMAIN p \ {1}
        PROVE  /\ w[x - 1] + 1 < w[x]
               /\ \A y \in (w[x - 1] + 1)..(w[x] - 1) : t[y] = Space
    <3>1. x \in Nat /\ x > 1 /\ x - 1 \in DOMAIN p
      BY <1>1
    <3>2. w[x - 1] = i + 2 * (x - 2) /\ w[x] = i + 2 * (x - 1)
      BY <3>1 DEF at
    <3>3. \A y \in (w[x - 1] + 1)..(w[x] - 1) : y = at(i, x) - 1
      BY <3>1, <3>2 DEF at
    <3> QED BY <3>1, <3>2, <3>3
  <2> HIDE DEF w
  <2> QED BY <2>1, <2>2, <2>3, <2>4 DEF PhraseAt
<1>4. ForcedTitle(file, t)
  <2>1. 1 \in DOMAIN p /\ at(i, 1) = i
    BY <1>1 DEF at
  <2>2. i \in DOMAIN t
    BY <2>1
  <2> QED BY <1>3, <2>2 DEF ForcedTitle
<1>5. Rewritten(file, t, at(i, k))
  BY <1>2 DEF Rewritten
<1>6. at(i, k) \in DOMAIN t
  OBVIOUS
<1> QED BY <1>4, <1>5, <1>6 DEF Rewrite

(* What a step of Normalize has made.                                         *)
TitlesInv ==
    /\ file \in RulesFile
    /\ step \in {"loaded", "once", "twice"} => Accepted(file)
    /\ step = "once" => results = << Normalize(file, title) >>

(* A rule that LoadTitleRules accepts is never without effect, for any lexicon,
   any rules file and any title: nothing else in the file can shadow it, and a
   title that it meets is rewritten whatever its score.                       *)
THEOREM RulesTakeEffect == TitlesSpec => []ForceRulesTakeEffect
<1>1. TitlesInit => TitlesInv
  BY LexiconAssumption DEF TitlesInit, TitlesInv
<1>2. TitlesInv /\ [TitlesNext]_titleVars => TitlesInv'
  <2> SUFFICES ASSUME TitlesInv, [TitlesNext]_titleVars PROVE TitlesInv'
    OBVIOUS
  <2>1. CASE Load
    BY <2>1 DEF Load, TitlesInv, Accepted
  <2>2. CASE NormalizeOnce
    BY <2>2 DEF NormalizeOnce, TitlesInv, Accepted
  <2>3. CASE NormalizeAgain
    BY <2>3 DEF NormalizeAgain, TitlesInv, Accepted
  <2>4. CASE UNCHANGED titleVars
    BY <2>4 DEF titleVars, TitlesInv, Accepted
  <2> QED BY <2>1, <2>2, <2>3, <2>4 DEF TitlesNext
<1>3. TitlesInv => ForceRulesTakeEffect
  <2> SUFFICES ASSUME TitlesInv, step = "once" PROVE
        /\ WordRulesTakeEffect(Cleanup(file, title), results[1])
        /\ PhraseRulesTakeEffect(Cleanup(file, title), results[1])
    BY DEF ForceRulesTakeEffect
  <2>1. results[1] = Rewrite(file, Cleanup(file, title))
    BY DEF TitlesInv, Normalize
  <2> QED BY <2>1, WordRules, PhraseRules DEF TitlesInv
<1> QED BY <1>1, <1>2, <1>3, PTL DEF TitlesSpec

-----------------------------------------------------------------------------
(* Titles, token by token: where a field and an address end, and that a mapping of
   the positions that keeps the words keeps those too.                        *)

(* A set of numbers that has the first and with each one the next has them
   all.                                                                       *)
LEMMA Upward ==
    ASSUME NEW a \in Nat, NEW n \in Nat, NEW G,
           a <= n => a \in G,
           \A i \in a..(n - 1) : i \in G => i + 1 \in G
    PROVE  a..n \subseteq G
<1> DEFINE T == (a..n) \ G
<1>1. SUFFICES ASSUME T # {} PROVE FALSE
  OBVIOUS
<1>2. T \in SUBSET Nat
  OBVIOUS
<1>3. Min(T) \in T /\ \A m \in T : Min(T) <= m
  BY <1>1, <1>2, MinIsLeast
<1>4. Min(T) # a
  BY <1>3
<1> DEFINE m == Min(T)
<1>5. m \in a..n /\ m \notin G /\ m # a /\ \A l \in T : m <= l
  BY <1>3, <1>4
<1> HIDE DEF m
<1>6. m - 1 \in a..(n - 1) /\ m - 1 \in a..n /\ (m - 1) + 1 = m
  BY <1>5
<1>7. m - 1 \notin G
  BY <1>5, <1>6
<1>8. m - 1 \in T
  BY <1>6, <1>7
<1> QED BY <1>5, <1>6, <1>8

(* A function whose value at i is read off its value at i - 1.                *)
StepsBy(d, x, a, n, g) == \A i \in a..n : d[i] = IF i = a THEN x ELSE g[<<i, d[i - 1]>>]

LEMMA StepByStep ==
    ASSUME NEW S, NEW x \in S, NEW a \in Nat, NEW n \in Nat, NEW g \in [Nat \X S -> S]
    PROVE  \E d \in [a..n -> S] : StepsBy(d, x, a, n, g)
<1> USE DEF StepsBy
<1> DEFINE Is(d, m) == \A i \in a..m : d[i] = IF i = a THEN x ELSE g[<<i, d[i - 1]>>]
           G == {m \in Nat : \E d \in [a..m -> S] : Is(d, m)}
<1>1. CASE a > n
  <2>1. [i \in a..n |-> x] \in [a..n -> S] /\ Is([i \in a..n |-> x], n)
    BY <1>1
  <2> QED BY <2>1
<1>2. CASE a <= n
  <2>1. a \in G
    <3>1. [i \in a..a |-> x] \in [a..a -> S] /\ Is([i \in a..a |-> x], a)
      OBVIOUS
    <3> QED BY <3>1
  <2>2. ASSUME NEW m \in a..(n - 1), m \in G PROVE m + 1 \in G
    <3>1. PICK d \in [a..m -> S] : Is(d, m)
      BY <2>2
    <3> DEFINE e == [i \in a..(m + 1) |-> IF i = m + 1 THEN g[<<m + 1, d[m]>>] ELSE d[i]]
    <3>2. m \in a..m /\ m + 1 \in Nat /\ m + 1 # a /\ (m + 1) - 1 = m /\ m \in Nat
      BY <2>2
    <3>3. d[m] \in S /\ g[<<m + 1, d[m]>>] \in S
      BY <3>2
    <3>4. \A i \in a..(m + 1) : i = m + 1 \/ i \in a..m
      BY <3>2
    <3>5. e \in [a..(m + 1) -> S]
      BY <3>3, <3>4
    <3>6. \A i \in a..m : e[i] = d[i] /\ (i # a => e[i - 1] = d[i - 1])
      BY <3>2
    <3>7. e[m + 1] = g[<<m + 1, d[m]>>] /\ e[m] = d[m]
      BY <3>2
    <3> HIDE DEF e
    <3>8. Is(e, m + 1)
      <4> SUFFICES ASSUME NEW i \in a..(m + 1)
                   PROVE  e[i] = IF i = a THEN x ELSE g[<<i, e[i - 1]>>]
        OBVIOUS
      <4>1. CASE i = m + 1
        BY <3>2, <3>7, <4>1
      <4>2. CASE i \in a..m
        BY <3>1, <3>6, <4>2
      <4> QED BY <3>4, <4>1, <4>2
    <3> HIDE DEF Is
    <3> QED BY <3>2, <3>5, <3>8
  <2>3. a..n \subseteq G
    <3> HIDE DEF G
    <3> QED BY <2>1, <2>2, Upward
  <2>4. n \in G
    BY <1>2, <2>3
  <2> QED BY <2>4
<1> QED BY <1>1, <1>2

(* Depth is the function its definition describes.                            *)
LEMMA DepthIs ==
    ASSUME NEW t, Len(t) \in Nat, NEW open, NEW close
    PROVE  LET d == Depth(t, open, close)
           IN  /\ d \in [0..Len(t) -> Nat] /\ d[0] = 0
               /\ \A i \in 1..Len(t) :
                    d[i] = IF t[i] = open THEN d[i - 1] + 1
                           ELSE IF t[i] = close /\ d[i - 1] > 0 THEN d[i - 1] - 1
                           ELSE d[i - 1]
<1> DEFINE n == Len(t)
           Goes(i, x) == IF t[i] = open THEN x + 1
                         ELSE IF t[i] = close /\ x > 0 THEN x - 1
                         ELSE x
           g == [p \in Nat \X Nat |-> Goes(p[1], p[2])]
           Fits(d) == d = [i \in 0..n |-> IF i = 0 THEN 0
                                          ELSE IF t[i] = open THEN d[i - 1] + 1
                                          ELSE IF t[i] = close /\ d[i - 1] > 0 THEN d[i - 1] - 1
                                          ELSE d[i - 1]]
<1>1. \A i \in Nat, x \in Nat : Goes(i, x) \in Nat
  OBVIOUS
<1>2. g \in [Nat \X Nat -> Nat] /\ \A i \in Nat, x \in Nat : g[<<i, x>>] = Goes(i, x)
  BY <1>1
<1>3. \E e : Fits(e)
  <2> HIDE DEF g
  <2>1. PICK e \in [0..n -> Nat] : \A i \in 0..n : e[i] = IF i = 0 THEN 0 ELSE g[<<i, e[i - 1]>>]
    <3>1. g \in [Nat \X Nat -> Nat] /\ n \in Nat /\ 0 \in Nat
      BY <1>2
    <3> HIDE DEF n
    <3>2. \E e \in [0..n -> Nat] : StepsBy(e, 0, 0, n, g)
      BY <3>1, StepByStep
    <3> QED BY <3>2 DEF StepsBy
  <2>2. \A i \in 0..n : i # 0 => i \in Nat /\ i - 1 \in 0..n /\ e[i - 1] \in Nat
    OBVIOUS
  <2>3. \A i \in 0..n : e[i] = IF i = 0 THEN 0 ELSE Goes(i, e[i - 1])
    BY <1>2, <2>1, <2>2
  <2>4. e = [i \in 0..n |-> IF i = 0 THEN 0 ELSE Goes(i, e[i - 1])]
    BY <2>3
  <2> QED BY <2>4
<1>4. Depth(t, open, close) = CHOOSE d : Fits(d)
  BY DEF Depth
<1> DEFINE d == Depth(t, open, close)
<1>5. Fits(d)
  <2> HIDE DEF Fits
  <2> QED BY <1>3, <1>4
<1> HIDE DEF d
<1>6. DOMAIN d = 0..n /\ \A i \in 0..n : d[i] = IF i = 0 THEN 0 ELSE Goes(i, d[i - 1])
  BY <1>5
<1>7. 0..n \subseteq {i \in 0..n : d[i] \in Nat}
  <2>1. 0 \in {i \in 0..n : d[i] \in Nat}
    BY <1>6
  <2>2. ASSUME NEW i \in 0..(n - 1), i \in {j \in 0..n : d[j] \in Nat}
        PROVE  i + 1 \in {j \in 0..n : d[j] \in Nat}
    <3>1. i + 1 \in 0..n /\ i + 1 # 0 /\ (i + 1) - 1 = i /\ d[i] \in Nat
      BY <2>2
    <3>2. d[i + 1] = Goes(i + 1, d[i])
      BY <1>6, <3>1
    <3> QED BY <1>1, <3>1, <3>2
  <2> QED BY <2>1, <2>2, Upward
<1>8. d = [i \in 0..n |-> d[i]]
  BY <1>5
<1>9. d \in [0..n -> Nat]
  BY <1>7, <1>8
<1> QED BY <1>6, <1>9 DEF d

(* The sequences of ss one after another: that of i begins after at[i - 1] and
   ends at at[i].                                                             *)
Laid(ss, u, at) ==
    /\ at[0] = 0 /\ Len(u) = at[Len(ss)]
    /\ \A i \in 1..Len(ss) : at[i] = at[i - 1] + Len(ss[i])
    /\ \A i \in 1..Len(ss) : \A k \in 1..Len(ss[i]) : u[at[i - 1] + k] = ss[i][k]
    /\ \A i, j \in 0..Len(ss) : i <= j => at[i] <= at[j]

(* How the sequences are laid, if d[i] is what the first i of them make.       *)
LEMMA LaidIs ==
    ASSUME NEW S, NEW ss, NEW d, NEW at, NEW n \in Nat, n # 0, n = Len(ss),
           \A i \in 1..n : ss[i] \in Seq(S) /\ d[i] \in Seq(S) /\ at[i] = Len(d[i]),
           at[0] = 0, d[1] = ss[1],
           \A i \in 2..n : d[i] = d[i - 1] \o ss[i]
    PROVE  Laid(ss, d[n], at)
<1>1. \A i \in 1..n : Len(ss[i]) \in Nat /\ at[i] \in Nat
  OBVIOUS
<1>2. 1 \in 1..n /\ n \in 1..n
  OBVIOUS
<1>3. ASSUME NEW m \in 1..(n - 1)
      PROVE  /\ m \in 1..n /\ m + 1 \in 1..n
             /\ at[m + 1] = at[m] + Len(ss[m + 1])
             /\ \A x \in 1..at[m] : d[m + 1][x] = d[m][x]
             /\ \A k \in 1..Len(ss[m + 1]) : d[m + 1][at[m] + k] = ss[m + 1][k]
  <2>1. m \in 1..n /\ m + 1 \in 2..n /\ m + 1 \in 1..n /\ (m + 1) - 1 = m
    OBVIOUS
  <2> DEFINE x == d[m]
             y == ss[m + 1]
  <2>2. /\ x \in Seq(S) /\ y \in Seq(S) /\ d[m + 1] = x \o y
        /\ at[m] = Len(x) /\ at[m + 1] = Len(d[m + 1])
    BY <2>1
  <2> HIDE DEF x, y
  <2>3. /\ Len(x \o y) = Len(x) + Len(y)
        /\ \A i \in 1..Len(x) : (x \o y)[i] = x[i]
        /\ \A k \in 1..Len(y) : (x \o y)[Len(x) + k] = y[k]
    BY <2>2
  <2> QED BY <2>1, <2>2, <2>3 DEF x, y
<1>4. ASSUME NEW i \in 1..n PROVE at[i] = at[i - 1] + Len(ss[i])
  <2>1. CASE i = 1
    BY <1>1, <1>2, <2>1
  <2>2. CASE i # 1
    <3>1. i - 1 \in 1..(n - 1) /\ (i - 1) + 1 = i
      BY <2>2
    <3> QED BY <1>3, <3>1
  <2> QED BY <2>1, <2>2
<1> DEFINE Holds(m) == \A i \in 1..m : at[i] <= at[m] /\ \A k \in 1..Len(ss[i]) : d[m][at[i - 1] + k] = ss[i][k]
           G == {m \in 1..n : Holds(m)}
<1>5. 1 \in G
  <2>1. \A i \in 1..1 : i = 1 /\ i - 1 = 0
    OBVIOUS
  <2>2. \A k \in 1..Len(ss[1]) : 0 + k = k
    OBVIOUS
  <2> QED BY <1>1, <1>2, <2>1, <2>2
<1>6. ASSUME NEW m \in 1..(n - 1), m \in G PROVE m + 1 \in G
  <2> SUFFICES ASSUME NEW i \in 1..(m + 1)
               PROVE  at[i] <= at[m + 1] /\ \A k \in 1..Len(ss[i]) : d[m + 1][at[i - 1] + k] = ss[i][k]
    BY <1>3
  <2>1. at[m] \in Nat /\ at[m + 1] \in Nat /\ at[m] <= at[m + 1]
    BY <1>1, <1>3
  <2>2. CASE i = m + 1
    <3>1. i - 1 = m
      BY <2>2
    <3> QED BY <1>3, <2>1, <2>2, <3>1
  <2>3. CASE i # m + 1
    <3>1. i \in 1..m /\ i \in 1..n
      BY <2>3
    <3>2. at[i] <= at[m] /\ \A k \in 1..Len(ss[i]) : d[m][at[i - 1] + k] = ss[i][k]
      BY <1>6, <3>1
    <3>3. at[i] = at[i - 1] + Len(ss[i]) /\ at[i] \in Nat /\ Len(ss[i]) \in Nat
      BY <1>1, <1>4, <3>1
    <3>4. at[i - 1] \in Nat
      <4>1. i - 1 = 0 \/ i - 1 \in 1..n
        BY <3>1
      <4> QED BY <1>1, <4>1
    <3>5. \A k \in 1..Len(ss[i]) : at[i - 1] + k \in 1..at[m]
      BY <2>1, <3>2, <3>3, <3>4
    <3>6. at[i] <= at[m + 1]
      BY <2>1, <3>2, <3>3
    <3> QED BY <1>3, <3>2, <3>5, <3>6
  <2> QED BY <2>2, <2>3
<1>7. 1..n \subseteq G
  <2> HIDE DEF G
  <2> QED BY <1>5, <1>6, Upward
<1>8. \A m \in 1..n : Holds(m)
  BY <1>7
<1>9. \A i, j \in 0..n : i <= j => at[i] <= at[j]
  <2> SUFFICES ASSUME NEW i \in 0..n, NEW j \in 0..n, i <= j PROVE at[i] <= at[j]
    OBVIOUS
  <2>1. CASE j = 0
    <3>1. i = 0
      BY <2>1
    <3> QED BY <2>1, <3>1
  <2>2. CASE i = 0 /\ j # 0
    <3>1. at[j] \in Nat
      BY <1>1, <2>2
    <3> QED BY <2>2, <3>1
  <2>3. CASE i # 0 /\ j # 0
    BY <1>8, <2>3
  <2> QED BY <2>1, <2>2, <2>3
<1>10. at[n] = Len(d[n])
  BY <1>2
<1> QED BY <1>2, <1>4, <1>8, <1>9, <1>10 DEF Laid

LEMMA FlatIs ==
    ASSUME NEW S, NEW ss \in Seq(Seq(S))
    PROVE  /\ FlattenSeq(ss) \in Seq(S)
           /\ \E at \in [0..Len(ss) -> Nat] : Laid(ss, FlattenSeq(ss), at)
<1> DEFINE n == Len(ss)
<1>1. n \in Nat /\ \A i \in 1..n : ss[i] \in Seq(S)
  OBVIOUS
<1>2. CASE n = 0
  <2>1. ss = << >> /\ FlattenSeq(ss) = ss
    BY <1>2 DEF FlattenSeq
  <2>2. [i \in 0..n |-> 0] \in [0..n -> Nat] /\ Laid(ss, << >>, [i \in 0..n |-> 0])
    BY <1>2, <2>1 DEF Laid
  <2> QED BY <2>1, <2>2
<1>3. CASE n # 0
  <2> DEFINE g == [p \in Nat \X Seq(S) |-> IF p[1] \in 1..n THEN p[2] \o ss[p[1]] ELSE p[2]]
             Fits(d) == d = [i \in 1..n |-> IF i = 1 THEN ss[i] ELSE d[i - 1] \o ss[i]]
             d == CHOOSE d : Fits(d)
  <2>1. FlattenSeq(ss) = d[n]
    BY <1>3 DEF FlattenSeq
  <2> HIDE DEF n, d, Fits
  <2>2. ASSUME NEW v \in Seq(S), NEW i \in 1..n PROVE v \o ss[i] \in Seq(S)
    <3>1. ss[i] \in Seq(S)
      BY <1>1
    <3> DEFINE x == ss[i]
    <3> HIDE DEF x
    <3>2. x \in Seq(S)
      BY <3>1 DEF x
    <3>3. v \o x \in Seq(S)
      BY <3>2
    <3> QED BY <3>3 DEF x
  <2>3. g \in [Nat \X Seq(S) -> Seq(S)]
    BY <2>2
  <2>4. ASSUME NEW v \in Seq(S), NEW i \in 1..n PROVE g[<<i, v>>] = v \o ss[i]
    <3>1. <<i, v>> \in Nat \X Seq(S) /\ <<i, v>>[1] = i /\ <<i, v>>[2] = v
      BY <1>1
    <3> QED BY <3>1
  <2>5. 1 \in 1..n /\ n \in 1..n /\ 1 \in Nat /\ ss[1] \in Seq(S)
    BY <1>1, <1>3
  <2> HIDE DEF g
  <2>6. PICK e \in [1..n -> Seq(S)] : StepsBy(e, ss[1], 1, n, g)
    BY <1>1, <2>3, <2>5, StepByStep
  <2>7. \A i \in 1..n : i = 1 \/ i - 1 \in 1..n
    BY <1>1
  <2>8. \A i \in 1..n : e[i] = IF i = 1 THEN ss[i] ELSE e[i - 1] \o ss[i]
    BY <2>4, <2>6, <2>7 DEF StepsBy
  <2>9. e = [i \in 1..n |-> IF i = 1 THEN ss[i] ELSE e[i - 1] \o ss[i]]
    <3>1. e = [i \in 1..n |-> e[i]]
      OBVIOUS
    <3> QED BY <2>8, <3>1
  <2>10. Fits(e)
    BY <2>9 DEF Fits
  <2>11. Fits(d)
    BY <2>10 DEF d
  <2>12. DOMAIN d = 1..n /\ \A i \in 1..n : d[i] = IF i = 1 THEN ss[i] ELSE d[i - 1] \o ss[i]
    BY <2>11 DEF Fits
  <2> DEFINE G == {i \in 1..n : d[i] \in Seq(S)}
  <2>13. 1 \in G
    BY <2>5, <2>12
  <2>14. ASSUME NEW i \in 1..(n - 1), i \in G PROVE i + 1 \in G
    <3>1. i + 1 \in 1..n /\ i + 1 # 1 /\ (i + 1) - 1 = i /\ d[i] \in Seq(S)
      BY <1>1, <2>14
    <3>2. d[i + 1] = d[i] \o ss[i + 1]
      BY <2>12, <3>1
    <3> QED BY <2>2, <3>1, <3>2
  <2>15. 1..n \subseteq G
    <3> HIDE DEF G
    <3> QED BY <1>1, <2>13, <2>14, Upward
  <2> DEFINE at == [i \in 0..n |-> IF i = 0 THEN 0 ELSE Len(d[i])]
  <2>16. \A i \in 1..n : d[i] \in Seq(S)
    BY <2>15
  <2>17. \A i \in 1..n : Len(d[i]) \in Nat
    BY <2>16
  <2>18. at \in [0..n -> Nat] /\ at[0] = 0 /\ \A i \in 1..n : at[i] = Len(d[i])
    BY <1>1, <2>17
  <2> HIDE DEF at
  <2>19. d[1] = ss[1] /\ \A i \in 2..n : d[i] = d[i - 1] \o ss[i]
    <3>1. \A i \in 2..n : i \in 1..n /\ i # 1
      BY <1>1
    <3> HIDE DEF G
    <3> QED BY <2>5, <2>12, <3>1
  <2>20. Laid(ss, d[n], at)
    BY <1>1, <1>3, <2>16, <2>18, <2>19, LaidIs DEF n
  <2> QED BY <2>1, <2>5, <2>16, <2>18, <2>20 DEF n
<1> QED BY <1>2, <1>3

-----------------------------------------------------------------------------
(* A title is a sequence of tokens.                                           *)
LEMMA Tokens ==
    ASSUME NEW t \in Seq(Token)
    PROVE  /\ Len(t) \in Nat /\ DOMAIN t = 1..Len(t)
           /\ \A i \in 1..Len(t) : t[i] \in Token
OBVIOUS

(* What lies between the spaces around it, from lo to hi, is the field of a
   token.                                                                     *)
Between(t, n, lo, hi) ==
    /\ lo \in 1..n /\ hi \in lo..n
    /\ \A k \in lo..hi : t[k] # Space
    /\ lo = 1 \/ t[lo - 1] = Space
    /\ hi = n \/ t[hi + 1] = Space

LEMMA FieldFrom ==
    ASSUME NEW t, NEW n \in Nat, DOMAIN t = 1..n, NEW lo \in 1..n, NEW hi \in lo..n, NEW i \in lo..hi,
           \A k \in lo..hi : t[k] # Space,
           lo = 1 \/ t[lo - 1] = Space, hi = n \/ t[hi + 1] = Space
    PROVE  Field(t, i) = lo..hi
<1>1. ASSUME NEW j \in lo..hi PROVE j \in Field(t, i)
  <2>1. j \in 1..n /\ \A k \in 1..n : (i <= k /\ k <= j) \/ (j <= k /\ k <= i) => k \in lo..hi
    OBVIOUS
  <2> QED BY <2>1 DEF Field
<1>2. ASSUME NEW j \in Field(t, i) PROVE j \in lo..hi
  <2>1. j \in 1..n /\ \A k \in 1..n : (i <= k /\ k <= j) \/ (j <= k /\ k <= i) => t[k] # Space
    BY DEF Field
  <2>2. CASE j > hi
    <3>1. hi + 1 \in 1..n /\ i <= hi + 1 /\ hi + 1 <= j /\ hi # n
      BY <2>1, <2>2
    <3> QED BY <2>1, <3>1
  <2>3. CASE j < lo
    <3>1. lo - 1 \in 1..n /\ j <= lo - 1 /\ lo - 1 <= i /\ lo # 1
      BY <2>1, <2>3
    <3> QED BY <2>1, <3>1
  <2> QED BY <2>1, <2>2, <2>3
<1> QED BY <1>1, <1>2

LEMMA FieldIs ==
    ASSUME NEW t, NEW n \in Nat, DOMAIN t = 1..n, NEW i \in 1..n, t[i] # Space
    PROVE  \E lo \in 1..i, hi \in i..n : Between(t, n, lo, hi)
<1> DEFINE U == {l \in i..n : l = n \/ t[l + 1] = Space}
           D == {m \in 0..(i - 1) : i - m = 1 \/ t[i - m - 1] = Space}
           hi == Min(U)
           m == Min(D)
           lo == i - m
<1>1. n \in U /\ U \in SUBSET Nat
  OBVIOUS
<1>2. i - 1 \in D /\ D \in SUBSET Nat
  <2>1. i - (i - 1) = 1 /\ i - 1 \in 0..(i - 1)
    OBVIOUS
  <2> QED BY <2>1
<1>3. hi \in U /\ \A l \in U : hi <= l
  BY <1>1, MinIsLeast
<1>4. m \in D /\ \A l \in D : m <= l
  BY <1>2, MinIsLeast
<1> HIDE DEF hi, m
<1>5. hi \in i..n /\ (hi = n \/ t[hi + 1] = Space)
  BY <1>3
<1>6. m \in 0..(i - 1) /\ lo \in 1..i /\ (lo = 1 \/ t[lo - 1] = Space)
  BY <1>4
<1>7. ASSUME NEW k \in i..hi PROVE t[k] # Space
  <2>1. CASE k = i
    BY <2>1
  <2>2. CASE k # i
    <3>1. k - 1 \in i..n /\ k - 1 < hi /\ (k - 1) + 1 = k
      BY <1>5, <2>2
    <3>2. k - 1 \notin U
      BY <1>3, <1>5, <3>1
    <3> QED BY <3>1, <3>2
  <2> QED BY <2>1, <2>2
<1>8. ASSUME NEW k \in lo..i PROVE t[k] # Space
  <2>1. CASE k = i
    BY <2>1
  <2>2. CASE k # i
    <3> DEFINE l == i - k - 1
    <3>1. l \in 0..(i - 1) /\ l < m /\ i - l - 1 = k
      BY <1>6, <2>2
    <3>2. l \notin D
      <4> HIDE DEF D, l, lo
      <4> QED BY <1>4, <1>6, <3>1
    <3> QED BY <3>1, <3>2
  <2> QED BY <2>1, <2>2
<1> HIDE DEF lo
<1>9. \A k \in lo..hi : t[k] # Space
  <2>1. \A k \in lo..hi : k \in lo..i \/ k \in i..hi
    BY <1>5, <1>6
  <2> QED BY <1>7, <1>8, <2>1
<1>10. lo \in 1..n /\ hi \in lo..n
  BY <1>5, <1>6
<1> QED BY <1>5, <1>6, <1>9, <1>10 DEF Between

(* An address is one wherever it stands.                                      *)
Shift(F, c) == {k + c : k \in F}
Alike(t, u, F, c) == F \subseteq Int /\ \A k \in F : u[k + c] = t[k]

LEMMA ShiftKeepsOrder ==
    ASSUME NEW F, NEW c \in Int, F \subseteq Int, NEW j \in F
    PROVE  /\ \A k \in F : k + c \in Shift(F, c)
           /\ \A k \in F : (k <= j <=> k + c <= j + c) /\ (j <= k <=> j + c <= k + c)
           /\ \A m \in Shift(F, c) : \E k \in F : m = k + c
<1>1. \A x, y \in Int : x <= y <=> x + c <= y + c
  OBVIOUS
<1>2. \A k \in F : (k <= j <=> k + c <= j + c) /\ (j <= k <=> j + c <= k + c)
  BY <1>1
<1>3. /\ \A k \in F : k + c \in Shift(F, c)
      /\ \A m \in Shift(F, c) : \E k \in F : m = k + c
  BY Zenon DEF Shift
<1> QED BY <1>2, <1>3

LEMMA DomainShifts ==
    ASSUME NEW t, NEW u, NEW F, NEW G, NEW c \in Int, NEW words,
           Trimmed(u, G) = Shift(Trimmed(t, F), c),
           Alike(t, u, Trimmed(t, F), c),
           LooksLikeDomain(t, F, words)
    PROVE  LooksLikeDomain(u, G, words)
<1> USE DEF Shift, Alike
<1> DEFINE D == Trimmed(t, F)
           E == Trimmed(u, G)
           InT(j) == t[j] \in words /\ LabelAt(t, D, j)
           InU(j) == u[j] \in words /\ LabelAt(u, E, j)
<1>1. /\ \E j \in D : t[j] = "."
      /\ \A j \in D : InT(j) \/ t[j] \in {".", "-"}
      /\ \A j \in D : t[j] = "." => j - 1 \in D /\ InT(j - 1) /\ j + 1 \in D /\ InT(j + 1)
      /\ \A j \in D : ~ InT(j) => j - 1 \in D /\ j + 1 \in D
  BY DEF LooksLikeDomain
<1> HIDE DEF D, E
<1>2. E = {k + c : k \in D} /\ D \subseteq Int /\ \A k \in D : u[k + c] = t[k]
  BY DEF D, E
<1>3. \E j \in E : u[j] = "."
  BY <1>1, <1>2
<1>4. ASSUME NEW k \in D PROVE InT(k) <=> InU(k + c)
  <2>1. /\ \A l \in D : l + c \in E /\ (k <= l <=> k + c <= l + c) /\ (l <= k <=> l + c <= k + c)
        /\ \A m \in E : \E l \in D : m = l + c
    <3>1. E = Shift(D, c)
      BY <1>2
    <3> QED BY <1>2, <3>1, ShiftKeepsOrder
  <2>2. (\A l \in D : k <= l) <=> (\A m \in E : k + c <= m)
    BY <2>1
  <2>3. (\A l \in D : l <= k) <=> (\A m \in E : m <= k + c)
    BY <2>1
  <2>4. u[k + c] = t[k]
    BY <1>2
  <2> QED BY <2>2, <2>3, <2>4 DEF LabelAt
<1> HIDE DEF InT, InU
<1>5. ASSUME NEW j \in E
      PROVE  /\ InU(j) \/ u[j] \in {".", "-"}
             /\ u[j] = "." => j - 1 \in E /\ InU(j - 1) /\ j + 1 \in E /\ InU(j + 1)
             /\ ~ InU(j) => j - 1 \in E /\ j + 1 \in E
  <2>1. PICK k \in D : j = k + c
    BY <1>2
  <2>2. k \in Int /\ j - 1 = (k - 1) + c /\ j + 1 = (k + 1) + c /\ u[j] = t[k] /\ (InT(k) <=> InU(j))
    BY <1>2, <1>4, <2>1
  <2>3. k - 1 \in D => j - 1 \in E /\ (InT(k - 1) <=> InU(j - 1))
    BY <1>2, <1>4, <2>2
  <2>4. k + 1 \in D => j + 1 \in E /\ (InT(k + 1) <=> InU(j + 1))
    BY <1>2, <1>4, <2>2
  <2> QED BY <1>1, <2>1, <2>2, <2>3, <2>4
<1> QED BY <1>3, <1>5 DEF LooksLikeDomain, E, InU

LEMMA TrimmedShifts ==
    ASSUME NEW t, NEW u, NEW F, NEW G, NEW c \in Int, G = Shift(F, c), Alike(t, u, F, c)
    PROVE  Trimmed(u, G) = Shift(Trimmed(t, F), c)
<1> USE DEF Shift, Alike
<1> DEFINE W == Solid
<1>1. ASSUME NEW j \in F
      PROVE  j \in Trimmed(t, F) <=> j + c \in Trimmed(u, G)
  <2> HIDE DEF W
  <2>4. /\ \A k \in F : /\ k + c \in G /\ u[k + c] = t[k]
                        /\ (k <= j <=> k + c <= j + c) /\ (j <= k <=> j + c <= k + c)
        /\ \A m \in G : \E k \in F : m = k + c
    <3>1. F \subseteq Int /\ \A k \in F : u[k + c] = t[k]
      OBVIOUS
    <3> QED BY <3>1, ShiftKeepsOrder
  <2>1. (\E k \in F : k <= j /\ t[k] \in W) <=> (\E k \in G : k <= j + c /\ u[k] \in W)
    BY <2>4
  <2>2. (\E k \in F : j <= k /\ t[k] \in W) <=> (\E k \in G : j + c <= k /\ u[k] \in W)
    BY <2>4
  <2>3. j + c \in G
    OBVIOUS
  <2> QED BY <2>1, <2>2, <2>3 DEF Trimmed, W
<1>2. Trimmed(t, F) \subseteq F /\ Trimmed(u, G) \subseteq G
  BY DEF Trimmed
<1> QED BY <1>1, <1>2

Opening == {"[", "("}
Closing == {"]", ")"}

(* Where the same tokens follow, brackets are as deep as before.              *)
LEMMA Shadowed ==
    ASSUME NEW f, NEW t, NEW u, NEW i, NEW j, t[i] = u[j], Firm(f, t, i),
           Bracketed(t, i) => Bracketed(u, j),
           InNetworkField(t, i) => InNetworkField(u, j)
    PROVE  Firm(f, u, j)
BY DEF Firm

-----------------------------------------------------------------------------
(* What stripLeadingProviderNoise leaves.                                     *)
LEMMA LeadingQuotesAre ==
    ASSUME NEW t \in Seq(Token)
    PROVE  /\ LeadingQuotes(t) \in 0..Len(t)
           /\ \A i \in 1..LeadingQuotes(t) : t[i] = "quote"
<1> DEFINE n == Len(t)
           T == {m \in 0..n : m < n => t[m + 1] # "quote"}
           Is(m) == (\A i \in 1..m : t[i] = "quote") /\ (m < n => t[m + 1] # "quote")
<1>1. n \in Nat
  OBVIOUS
<1> HIDE DEF n
<1>2. n \in T /\ T \in SUBSET Nat
  BY <1>1
<1>3. Min(T) \in T /\ \A m \in T : Min(T) <= m
  BY <1>2, MinIsLeast
<1> DEFINE q == Min(T)
<1>4. q \in 0..n /\ (q < n => t[q + 1] # "quote") /\ \A m \in T : q <= m
  BY <1>3
<1> HIDE DEF q
<1>5. ASSUME NEW i \in 1..q PROVE t[i] = "quote"
  <2>1. i - 1 \in 0..n /\ i - 1 < q /\ (i - 1) + 1 = i
    BY <1>1, <1>4
  <2>2. i - 1 \notin T
    <3> HIDE DEF T
    <3> QED BY <1>4, <2>1
  <2> QED BY <2>1, <2>2
<1>6. \E m \in 0..n : Is(m)
  BY <1>4, <1>5
<1>7. LeadingQuotes(t) = CHOOSE m \in 0..n : Is(m)
  BY DEF LeadingQuotes, n
<1>8. LeadingQuotes(t) \in 0..n /\ Is(LeadingQuotes(t))
  <2> HIDE DEF Is
  <2> QED BY <1>6, <1>7
<1> QED BY <1>8 DEF n

LEMMA NoiseIs ==
    ASSUME NEW t \in Seq(Token)
    PROVE  LET n == NoiseEnd(t)
           IN  /\ n \in 0..Len(t)
               /\ \A k \in 1..n : t[k] \in Number \cup {"quote", "."}
               /\ (\A k \in 1..n : t[k] = "quote") \/ t[n] = "."
<1> DEFINE q == LeadingQuotes(t)
<1>1. q \in 0..Len(t) /\ Len(t) \in Nat /\ \A i \in 1..q : t[i] = "quote"
  BY LeadingQuotesAre
<1>2. NoiseEnd(t) = IF q + 2 <= Len(t) /\ t[q + 1] \in Number /\ t[q + 2] = "." THEN q + 2 ELSE q
  BY DEF NoiseEnd
<1> HIDE DEF q
<1>3. CASE q + 2 <= Len(t) /\ t[q + 1] \in Number /\ t[q + 2] = "."
  <2>1. NoiseEnd(t) = q + 2 /\ q + 2 \in 0..Len(t)
    BY <1>1, <1>2, <1>3
  <2>2. \A k \in 1..(q + 2) : k \in 1..q \/ k = q + 1 \/ k = q + 2
    BY <1>1
  <2> QED BY <1>1, <1>3, <2>1, <2>2
<1>4. CASE ~(q + 2 <= Len(t) /\ t[q + 1] \in Number /\ t[q + 2] = ".")
  BY <1>1, <1>2, <1>4
<1> QED BY <1>3, <1>4

LEMMA StrippedIs ==
    ASSUME NEW t \in Seq(Token)
    PROVE  \/ StripNoise(t) = t
           \/ LET n == NoiseEnd(t)
                  s == StripNoise(t)
              IN  /\ n \in 1..(Len(t) - 1) /\ t[n + 1] = "["
                  /\ s \in Seq(Token) /\ Len(s) = Len(t) - n
                  /\ \A k \in 1..Len(s) : s[k] = t[k + n]
<1> DEFINE n == NoiseEnd(t)
<1>1. n \in 0..Len(t) /\ Len(t) \in Nat
  BY NoiseIs
<1>2. \/ StripNoise(t) = t
      \/ n > 0 /\ n < Len(t) /\ t[n + 1] = "[" /\ StripNoise(t) = SubSeq(t, n + 1, Len(t))
  BY DEF StripNoise
<1> HIDE DEF n
<1>3. CASE n > 0 /\ n < Len(t) /\ t[n + 1] = "[" /\ StripNoise(t) = SubSeq(t, n + 1, Len(t))
  <2> DEFINE s == SubSeq(t, n + 1, Len(t))
  <2>1. \A i \in (n + 1)..Len(t) : t[i] \in Token
    BY <1>1
  <2>2. /\ s \in Seq(Token) /\ Len(s) = IF n + 1 <= Len(t) THEN Len(t) - (n + 1) + 1 ELSE 0
        /\ \A i \in 1..(Len(t) - (n + 1) + 1) : s[i] = t[(n + 1) + i - 1]
    BY <1>1, <2>1, SubSeqProperties
  <2>3. Len(s) = Len(t) - n /\ \A i \in 1..Len(s) : i \in 1..(Len(t) - (n + 1) + 1) /\ (n + 1) + i - 1 = i + n
    BY <1>1, <1>3, <2>2
  <2>4. n \in 1..(Len(t) - 1)
    BY <1>1, <1>3
  <2> QED BY <1>3, <2>2, <2>3, <2>4 DEF n
<1> QED BY <1>2, <1>3

LEMMA StripKeeps ==
    ASSUME NEW f, NEW t \in Seq(Token), NEW i \in DOMAIN t, t[i] \in Latin, Firm(f, t, i),
           StripNoise(t) # t
    PROVE  LET n == NoiseEnd(t)
               s == StripNoise(t)
           IN  i - n \in DOMAIN s /\ s[i - n] = t[i] /\ Firm(f, s, i - n)
<1> DEFINE n == NoiseEnd(t)
           s == StripNoise(t)
           len == Len(t)
<1>1. /\ n \in 1..(len - 1) /\ t[n + 1] = "[" /\ s \in Seq(Token) /\ Len(s) = len - n
      /\ \A k \in 1..(len - n) : s[k] = t[k + n]
  BY StrippedIs
<1>2. /\ \A k \in 1..n : t[k] \in Number \cup {"quote", "."}
      /\ (\A k \in 1..n : t[k] = "quote") \/ t[n] = "."
  BY NoiseIs
<1>3. /\ len \in Nat /\ DOMAIN t = 1..len /\ DOMAIN s = 1..(len - n)
      /\ \A k \in 1..len : t[k] \in Token
  BY <1>1
<1>4. /\ Latin \subseteq TitleWords /\ Number \subseteq TitleWords /\ TitleWords \cap Marks = {}
      /\ Latin \cap Number = {} /\ Number \cap Net = {} /\ Net \subseteq TitleWords /\ Latin \cap Colons = {}
  BY LexiconAssumption
<1> HIDE DEF n, s, len
<1>5. n \in Nat /\ i \in 1..len
  BY <1>1, <1>3
<1>6. \A k \in 1..n : t[k] \notin Opening \cup Closing \cup Latin \cup Net \cup {Space}
  BY <1>2, <1>4 DEF Opening, Closing, Marks, Space
<1>7. i > n
  BY <1>5, <1>6
<1>8. i - n \in 1..(len - n) /\ (i - n) + n = i
  BY <1>1, <1>3, <1>5, <1>7
<1>9. s[i - n] = t[i]
  BY <1>1, <1>8
<1>10. ASSUME NEW open \in Opening, NEW close \in Closing
       PROVE  Depth(t, open, close)[i] = Depth(s, open, close)[i - n]
  <2> DEFINE d == Depth(t, open, close)
             e == Depth(s, open, close)
             Goes(x, v) == IF x = open THEN v + 1 ELSE IF x = close /\ v > 0 THEN v - 1 ELSE v
  <2>1. /\ d \in [0..len -> Nat] /\ d[0] = 0
        /\ \A k \in 1..len : d[k] = Goes(t[k], d[k - 1])
    BY <1>3, DepthIs DEF len
  <2>2. /\ e \in [0..(len - n) -> Nat] /\ e[0] = 0
        /\ \A k \in 1..(len - n) : e[k] = Goes(s[k], e[k - 1])
    <3>1. Len(s) \in Nat /\ Len(s) = len - n
      BY <1>1
    <3> QED BY <3>1, DepthIs
  <2> HIDE DEF d, e, Goes
  <2> DEFINE G == {k \in 0..n : d[k] = 0}
             H == {k \in 0..(len - n) : e[k] = d[k + n]}
  <2>3. 0 \in G
    BY <1>5, <2>1
  <2>4. ASSUME NEW k \in 0..(n - 1), k \in G PROVE k + 1 \in G
    <3>1. k + 1 \in 1..n /\ k + 1 \in 1..len /\ (k + 1) - 1 = k /\ d[k] = 0
      BY <1>1, <1>3, <1>5, <2>4
    <3>2. d[k + 1] = Goes(t[k + 1], 0) /\ t[k + 1] # open /\ t[k + 1] # close
      BY <1>6, <2>1, <3>1
    <3> QED BY <1>5, <3>1, <3>2 DEF Goes
  <2>5. 0..n \subseteq G
    <3> HIDE DEF G
    <3> QED BY <1>5, <2>3, <2>4, Upward
  <2>6. d[n] = 0
    BY <1>5, <2>5
  <2>7. 0 \in H
    BY <1>1, <1>3, <1>5, <2>2, <2>6
  <2>8. ASSUME NEW k \in 0..((len - n) - 1), k \in H PROVE k + 1 \in H
    <3>1. /\ k + 1 \in 1..(len - n) /\ (k + 1) + n \in 1..len /\ (k + 1) - 1 = k
          /\ ((k + 1) + n) - 1 = k + n /\ e[k] = d[k + n]
      BY <1>1, <1>3, <1>5, <2>8
    <3>2. e[k + 1] = Goes(s[k + 1], e[k]) /\ d[(k + 1) + n] = Goes(t[(k + 1) + n], d[k + n])
      BY <2>1, <2>2, <3>1
    <3>3. s[k + 1] = t[(k + 1) + n]
      BY <1>1, <3>1
    <3>4. k + 1 \in 0..(len - n)
      BY <3>1
    <3> QED BY <3>1, <3>2, <3>3, <3>4
  <2>9. 0..(len - n) \subseteq H
    <3>1. len - n \in Nat
      BY <1>1, <1>3
    <3> HIDE DEF H
    <3> QED BY <2>7, <2>8, <3>1, Upward
  <2>10. i - n \in H
    BY <1>8, <2>9
  <2> QED BY <1>8, <2>10 DEF d, e
<1>11. Bracketed(t, i) => Bracketed(s, i - n)
  BY <1>10 DEF Bracketed, Opening, Closing
<1>12. ASSUME InNetworkField(t, i) PROVE InNetworkField(s, i - n)
  <2>1. t[i] # Space
    BY <1>4 DEF Marks
  <2>2. PICK lo \in 1..i, hi \in i..len : Between(t, len, lo, hi)
    BY <1>3, <1>5, <2>1, FieldIs
  <2>3. /\ Field(t, i) = lo..hi /\ lo \in Nat /\ hi \in Nat /\ lo >= 1
        /\ lo <= i /\ i <= hi /\ hi <= len
    <3>1. lo \in 1..len /\ hi \in lo..len /\ i \in lo..hi
      BY <1>3, <1>5, <2>2
    <3>2. /\ \A k \in lo..hi : t[k] # Space
          /\ lo = 1 \/ t[lo - 1] = Space
          /\ hi = len \/ t[hi + 1] = Space
      BY <2>2 DEF Between
    <3>3. Field(t, i) = lo..hi
      BY <1>3, <3>1, <3>2, FieldFrom
    <3> QED BY <1>3, <1>5, <3>1, <3>3
  <2> DEFINE from == IF lo > n THEN lo - n ELSE 1
             F == lo..hi
             G == from..(hi - n)
             c == - n
  <2>4. /\ from \in 1..(len - n) /\ hi - n \in from..(len - n) /\ i - n \in from..(hi - n)
        /\ \A k \in from..(hi - n) : k \in 1..(len - n) /\ k + n \in lo..hi
    BY <1>1, <1>3, <1>5, <1>7, <2>3
  <2>5. Field(s, i - n) = G
    <3>1. \A k \in from..(hi - n) : s[k] # Space
      BY <1>1, <2>2, <2>4 DEF Between
    <3>2. from = 1 \/ s[from - 1] = Space
      <4>1. CASE from # 1
        <5>1. lo > n /\ from = lo - n
          BY <4>1
        <5>2. from - 1 \in 1..(len - n) /\ (from - 1) + n = lo - 1 /\ lo # 1
          <6> HIDE DEF from
          <6> QED BY <1>3, <1>5, <2>3, <2>4, <4>1, <5>1
        <5>3. t[lo - 1] = Space
          BY <2>2, <5>2 DEF Between
        <5>4. s[from - 1] = t[lo - 1]
          <6> HIDE DEF from
          <6> QED BY <1>1, <5>2
        <5> QED BY <5>3, <5>4
      <4> QED BY <4>1
    <3>3. hi - n = len - n \/ s[(hi - n) + 1] = Space
      <4>1. CASE hi # len
        <5>1. (hi - n) + 1 \in 1..(len - n) /\ ((hi - n) + 1) + n = hi + 1
          BY <1>3, <1>5, <1>7, <2>3, <4>1
        <5>2. t[hi + 1] = Space
          BY <2>2, <4>1 DEF Between
        <5> QED BY <1>1, <5>1, <5>2
      <4> QED BY <4>1
    <3>4. len - n \in Nat
      BY <1>1, <1>3
    <3> DEFINE h == hi - n
               m == len - n
               j == i - n
    <3>5. /\ DOMAIN s = 1..m /\ m \in Nat /\ from \in 1..m /\ h \in from..m /\ j \in from..h
          /\ \A k \in from..h : s[k] # Space
          /\ from = 1 \/ s[from - 1] = Space
          /\ h = m \/ s[h + 1] = Space
      BY <1>3, <2>4, <3>1, <3>2, <3>3, <3>4
    <3> HIDE DEF from, h, m, j
    <3>6. Field(s, j) = from..h
      BY <3>5, FieldFrom
    <3> QED BY <3>6 DEF h, j
  <2>6. CASE \E k \in F : t[k] \in Net
    <3>1. PICK k \in F : t[k] \in Net
      BY <2>6
    <3>2. k > n
      BY <1>5, <1>6, <2>3, <3>1
    <3>3. k - n \in G /\ k - n \in 1..(len - n) /\ (k - n) + n = k
      BY <1>1, <1>3, <1>5, <2>3, <2>4, <3>1, <3>2
    <3>4. s[k - n] \in Net
      BY <1>1, <3>1, <3>3
    <3> QED BY <2>5, <3>3, <3>4 DEF InNetworkField
  <2>7. CASE LooksLikeDomain(t, F, TitleWords \ DOMAIN Pieces)
    <3> DEFINE W == Solid
               D == Trimmed(t, F)
               hosts == TitleWords \ DOMAIN Pieces
    <3>1. \A k \in D : k \in F /\ t[k] \in hosts \cup {".", "-"}
      BY <2>7 DEF LooksLikeDomain, Trimmed
    <3>2. "[" \notin hosts \cup {".", "-"} /\ "quote" \notin W
      BY <1>4 DEF Marks, Solid
    <3>3. i \in D
      BY <1>4, <2>3 DEF Trimmed, Solid
    <3>4. ASSUME lo <= n PROVE t[n] # "."
      <4>1. SUFFICES ASSUME t[n] = "." PROVE FALSE
        OBVIOUS
      <4>2. n \in F /\ n + 1 \in F /\ n <= n + 1 /\ n + 1 <= i
        BY <1>5, <1>7, <2>3, <3>4
      <4>3. n + 1 \in D
        BY <1>4, <2>3, <4>1, <4>2 DEF Trimmed, Solid
      <4> QED BY <1>1, <3>1, <3>2, <4>3
    <3>5. ASSUME NEW k \in D PROVE k > n
      <4>1. SUFFICES ASSUME k <= n PROVE FALSE
        BY <1>5, <2>3, <3>1
      <4>2. lo <= n /\ k \in 1..n
        BY <1>5, <2>3, <3>1, <4>1
      <4>3. \A l \in 1..n : t[l] = "quote"
        BY <1>2, <3>4, <4>2
      <4>4. PICK l \in F : l <= k /\ t[l] \in W
        BY DEF Trimmed
      <4>5. l \in 1..n
        <5>1. l \in Int /\ l >= lo
          BY <2>3, <4>4
        <5> QED BY <1>5, <2>3, <4>2, <4>4, <5>1
      <4> QED BY <3>2, <4>3, <4>4, <4>5
    <3>6. Trimmed(s, G) = {k + c : k \in D}
      <4>1. ASSUME NEW k \in D PROVE k + c \in Trimmed(s, G)
        <5>1. k \in F /\ k > n
          BY <3>1, <3>5
        <5>2. PICK a \in F : a <= k /\ t[a] \in W
          BY DEF Trimmed
        <5>3. PICK b \in F : k <= b /\ t[b] \in W
          BY DEF Trimmed
        <5>4. a \in D
          <6>1. a <= b
            BY <2>3, <5>1, <5>2, <5>3
          <6>2. a <= a
            BY <2>3
          <6> QED BY <5>2, <5>3, <6>1, <6>2 DEF Trimmed
        <5>5. a > n /\ b > n
          BY <1>5, <2>3, <3>5, <5>1, <5>3, <5>4
        <5>6. /\ a + c \in G /\ b + c \in G /\ k + c \in G
              /\ a + c <= k + c /\ k + c <= b + c
          BY <1>5, <2>3, <5>1, <5>2, <5>3, <5>5
        <5>7. s[a + c] = t[a] /\ s[b + c] = t[b]
          <6>1. /\ a + c \in 1..(len - n) /\ (a + c) + n = a
                /\ b + c \in 1..(len - n) /\ (b + c) + n = b
            BY <1>1, <1>3, <1>5, <2>3, <5>5
          <6> QED BY <1>1, <6>1
        <5> QED BY <5>2, <5>3, <5>6, <5>7 DEF Trimmed
      <4>2. ASSUME NEW j \in Trimmed(s, G) PROVE j \in {k + c : k \in D}
        <5>1. PICK a \in G : a <= j /\ s[a] \in W
          BY DEF Trimmed
        <5>2. PICK b \in G : j <= b /\ s[b] \in W
          BY DEF Trimmed
        <5>3. j \in G
          BY DEF Trimmed
        <5>4. /\ j + n \in F /\ a + n \in F /\ b + n \in F /\ j + n + c = j
              /\ a + n <= j + n /\ j + n <= b + n
              /\ s[a] = t[a + n] /\ s[b] = t[b + n]
          BY <1>1, <1>5, <2>3, <2>4, <5>1, <5>2, <5>3
        <5>5. j + n \in D
          BY <5>1, <5>2, <5>4 DEF Trimmed
        <5> QED BY <5>4, <5>5
      <4> QED BY <4>1, <4>2
    <3>7. \A k \in D : s[k + c] = t[k]
      <4> TAKE k \in D
      <4>1. k + c \in 1..(len - n) /\ (k + c) + n = k
        BY <1>1, <1>3, <1>5, <2>3, <3>1, <3>5
      <4> QED BY <1>1, <4>1
    <3>8. LooksLikeDomain(s, G, hosts)
      <4>1. c \in Int /\ D \subseteq Int
        BY <1>5, <2>3, <3>1
      <4> HIDE DEF c, F, G, hosts
      <4>2. Trimmed(s, G) = Shift(D, c)
        BY <3>6 DEF Shift
      <4>3. Alike(t, s, D, c)
        BY <3>7, <4>1 DEF Alike
      <4> QED BY <2>7, <4>1, <4>2, <4>3, DomainShifts DEF hosts
    <3> QED BY <2>5, <3>8 DEF InNetworkField
  <2>8. (\E k \in F : t[k] \in Net) \/ LooksLikeDomain(t, F, TitleWords \ DOMAIN Pieces)
    BY <1>12, <2>3 DEF InNetworkField
  <2> QED BY <2>6, <2>7, <2>8
<1>13. Firm(f, s, i - n)
  BY <1>9, <1>11, <1>12, Shadowed
<1> QED BY <1>3, <1>8, <1>9, <1>13 DEF n, s

-----------------------------------------------------------------------------
(* What cleanupCourseTitleUnderscores leaves: the tokens of t, each in its
   place at[i], but for the words it takes apart.                             *)
Splits(t, i) == t[i] \in DOMAIN Pieces /\ ~ KeepsUnderscores(t, i)

Spread(t, u, at) ==
    /\ at \in [0..Len(t) -> Nat]
    /\ at[0] = 0 /\ Len(u) = at[Len(t)]
    /\ \A i, j \in 0..Len(t) : i <= j => at[i] <= at[j]
    /\ \A i \in 1..Len(t) : ~ Splits(t, i) => at[i] = at[i - 1] + 1 /\ u[at[i]] = t[i]
    /\ \A i \in 1..Len(t) : Splits(t, i) =>
         \A x \in (at[i - 1] + 1)..at[i] : u[x] \in (TitleWords \ DOMAIN Pieces) \cup {Space}
    /\ \A i \in 1..Len(t) : Splits(t, i) =>
         \E x \in (at[i - 1] + 1)..at[i] : u[x] = Space
    /\ \A i \in 1..Len(t) : Splits(t, i) /\ (\E k \in DOMAIN Pieces[t[i]] : Pieces[t[i]][k] # Space) =>
         \E x \in (at[i - 1] + 1)..at[i] : u[x] # Space

LEMMA SplitSpreads ==
    ASSUME NEW t \in Seq(Token)
    PROVE  /\ SplitUnderscores(t) \in Seq(Token)
           /\ \E at : Spread(t, SplitUnderscores(t), at)
<1> DEFINE n == Len(t)
           Part(i) == IF Splits(t, i) THEN Pieces[t[i]] ELSE << t[i] >>
           ss == [i \in 1..n |-> Part(i)]
           u == SplitUnderscores(t)
<1>1. n \in Nat /\ DOMAIN t = 1..n /\ \A i \in 1..n : t[i] \in Token
  OBVIOUS
<1>2. u = FlattenSeq(ss)
  BY <1>1 DEF SplitUnderscores, Splits
<1>3. ASSUME NEW i \in 1..n, Splits(t, i)
      PROVE  Part(i) \in Seq((TitleWords \ DOMAIN Pieces) \cup {Space}) /\ Part(i) \in Seq(Token)
  <2>1. t[i] \in DOMAIN Pieces /\ Part(i) = Pieces[t[i]]
    BY <1>3 DEF Splits
  <2>2. Pieces[t[i]] \in Seq((TitleWords \ DOMAIN Pieces) \cup {Space})
    BY <2>1, LexiconAssumption
  <2>3. (TitleWords \ DOMAIN Pieces) \cup {Space} \subseteq Token
    BY DEF Token, Marks
  <2> QED BY <2>1, <2>2, <2>3
<1>4. ASSUME NEW i \in 1..n, ~ Splits(t, i)
      PROVE  Part(i) = << t[i] >> /\ Part(i) \in Seq(Token)
  BY <1>1, <1>4
<1> HIDE DEF Part
<1>5. ss \in Seq(Seq(Token)) /\ Len(ss) = n /\ \A i \in 1..n : ss[i] = Part(i)
  <2>1. \A i \in 1..n : Part(i) \in Seq(Token)
    BY <1>3, <1>4
  <2> QED BY <1>1, <2>1
<1> HIDE DEF ss, n
<1>6. u \in Seq(Token)
  BY <1>2, <1>5, FlatIs
<1>7. PICK at \in [0..n -> Nat] : Laid(ss, u, at)
  BY <1>2, <1>5, FlatIs
<1>8. /\ at[0] = 0 /\ Len(u) = at[n]
      /\ \A i, j \in 0..n : i <= j => at[i] <= at[j]
  BY <1>5, <1>7 DEF Laid
<1>9. ASSUME NEW i \in 1..n, ~ Splits(t, i)
      PROVE  at[i] = at[i - 1] + 1 /\ u[at[i]] = t[i]
  <2>1. ss[i] = << t[i] >>
    BY <1>4, <1>5, <1>9
  <2>2. Len(ss[i]) = 1 /\ ss[i][1] = t[i]
    BY <2>1
  <2>3. at[i] = at[i - 1] + Len(ss[i]) /\ \A k \in 1..Len(ss[i]) : u[at[i - 1] + k] = ss[i][k]
    BY <1>5, <1>7 DEF Laid
  <2> QED BY <2>2, <2>3
<1>10. ASSUME NEW i \in 1..n, Splits(t, i), NEW x \in (at[i - 1] + 1)..at[i]
       PROVE  u[x] \in (TitleWords \ DOMAIN Pieces) \cup {Space}
  <2>1. ss[i] \in Seq((TitleWords \ DOMAIN Pieces) \cup {Space})
    BY <1>3, <1>5, <1>10
  <2>2. at[i] = at[i - 1] + Len(ss[i]) /\ \A k \in 1..Len(ss[i]) : u[at[i - 1] + k] = ss[i][k]
    BY <1>5, <1>7 DEF Laid
  <2>3. i - 1 \in 0..n /\ at[i - 1] \in Nat /\ Len(ss[i]) \in Nat
    BY <1>1, <2>1 DEF n
  <2> DEFINE k == x - at[i - 1]
  <2>4. k \in 1..Len(ss[i]) /\ at[i - 1] + k = x
    BY <2>2, <2>3
  <2>5. ss[i][k] \in (TitleWords \ DOMAIN Pieces) \cup {Space}
    <3> DEFINE y == ss[i]
    <3>1. y \in Seq((TitleWords \ DOMAIN Pieces) \cup {Space}) /\ k \in 1..Len(y)
      BY <2>1, <2>4
    <3> HIDE DEF y, k
    <3>2. y[k] \in (TitleWords \ DOMAIN Pieces) \cup {Space}
      BY <3>1
    <3> QED BY <3>2 DEF y
  <2> HIDE DEF k
  <2> QED BY <2>2, <2>4, <2>5
<1>12. ASSUME NEW i \in 1..n, Splits(t, i), NEW k \in DOMAIN Pieces[t[i]]
       PROVE  \E x \in (at[i - 1] + 1)..at[i] : u[x] = Pieces[t[i]][k]
  <2>1. ss[i] = Pieces[t[i]]
    BY <1>5, <1>12 DEF Part
  <2>2. at[i] = at[i - 1] + Len(ss[i]) /\ \A l \in 1..Len(ss[i]) : u[at[i - 1] + l] = ss[i][l]
    BY <1>5, <1>7 DEF Laid
  <2>3. at[i - 1] \in Nat
    <3>1. i - 1 \in 0..n
      BY <1>1 DEF n
    <3> QED BY <3>1
  <2>4. Len(ss[i]) \in Nat /\ k \in 1..Len(ss[i])
    <3>1. ss[i] \in Seq((TitleWords \ DOMAIN Pieces) \cup {Space})
      BY <1>3, <1>5, <1>12
    <3> DEFINE y == ss[i]
    <3>2. y \in Seq((TitleWords \ DOMAIN Pieces) \cup {Space}) /\ k \in DOMAIN y
      BY <1>12, <2>1, <3>1
    <3> HIDE DEF y
    <3>3. Len(y) \in Nat /\ k \in 1..Len(y)
      BY <3>2
    <3> QED BY <3>3 DEF y
  <2>5. at[i - 1] + k \in (at[i - 1] + 1)..at[i] /\ u[at[i - 1] + k] = ss[i][k]
    BY <2>2, <2>3, <2>4
  <2> QED BY <2>1, <2>5
<1>13. ASSUME NEW i \in 1..n, Splits(t, i) PROVE \E x \in (at[i - 1] + 1)..at[i] : u[x] = Space
  <2>1. PICK k \in DOMAIN Pieces[t[i]] : Pieces[t[i]][k] = Space
    BY <1>13, LexiconAssumption DEF Splits
  <2> QED BY <1>12, <1>13, <2>1
<1>14. ASSUME NEW i \in 1..n, Splits(t, i), \E k \in DOMAIN Pieces[t[i]] : Pieces[t[i]][k] # Space
       PROVE  \E x \in (at[i - 1] + 1)..at[i] : u[x] # Space
  <2>1. PICK k \in DOMAIN Pieces[t[i]] : Pieces[t[i]][k] # Space
    BY <1>14
  <2> QED BY <1>12, <1>14, <2>1
<1>11. Spread(t, u, at)
  BY <1>7, <1>8, <1>9, <1>10, <1>13, <1>14 DEF Spread, n
<1> QED BY <1>6, <1>11

(* Each token is as deep in brackets as it was.                               *)
LEMMA SpreadDepth ==
    ASSUME NEW t \in Seq(Token), NEW u \in Seq(Token), NEW at, Spread(t, u, at),
           NEW open \in Opening, NEW close \in Closing, NEW i \in 0..Len(t)
    PROVE  Depth(u, open, close)[at[i]] = Depth(t, open, close)[i]
<1> DEFINE n == Len(t)
           len == Len(u)
           d == Depth(t, open, close)
           e == Depth(u, open, close)
           Goes(x, v) == IF x = open THEN v + 1 ELSE IF x = close /\ v > 0 THEN v - 1 ELSE v
<1>1. /\ n \in Nat /\ d \in [0..n -> Nat] /\ d[0] = 0
      /\ \A k \in 1..n : d[k] = Goes(t[k], d[k - 1])
  <2>1. n \in Nat
    OBVIOUS
  <2> QED BY <2>1, DepthIs
<1>2. /\ len \in Nat /\ e \in [0..len -> Nat] /\ e[0] = 0
      /\ \A k \in 1..len : e[k] = Goes(u[k], e[k - 1])
  <2>1. len \in Nat
    OBVIOUS
  <2> QED BY <2>1, DepthIs
<1> HIDE DEF d, e, Goes
<1>3. /\ at \in [0..n -> Nat] /\ at[0] = 0 /\ len = at[n]
      /\ \A k, j \in 0..n : k <= j => at[k] <= at[j]
      /\ \A k \in 1..n : ~ Splits(t, k) => at[k] = at[k - 1] + 1 /\ u[at[k]] = t[k]
      /\ \A k \in 1..n : Splits(t, k) =>
           \A x \in (at[k - 1] + 1)..at[k] : u[x] \in TitleWords \cup {Space}
  BY DEF Spread
<1>4. /\ DOMAIN Pieces \subseteq TitleWords /\ TitleWords \cap Marks = {}
  BY LexiconAssumption
<1>5. ASSUME NEW x \in TitleWords \cup {Space}, NEW v PROVE Goes(x, v) = v
  BY <1>4 DEF Goes, Opening, Closing, Marks, Space
<1> HIDE DEF n, len
<1>6. \A k \in 0..n : at[k] \in 0..len
  BY <1>1, <1>2, <1>3
<1> DEFINE G == {k \in 0..n : e[at[k]] = d[k]}
<1>7. 0 \in G
  BY <1>1, <1>2, <1>3
<1>8. ASSUME NEW k \in 0..(n - 1), k \in G PROVE k + 1 \in G
  <2>1. k + 1 \in 1..n /\ k + 1 \in 0..n /\ k \in 0..n /\ (k + 1) - 1 = k /\ e[at[k]] = d[k]
    BY <1>1, <1>8
  <2>2. d[k + 1] = Goes(t[k + 1], d[k])
    BY <1>1, <2>1
  <2>3. at[k] \in Nat /\ at[k + 1] \in Nat /\ at[k + 1] <= len /\ at[k] <= at[k + 1]
    BY <1>2, <1>3, <1>6, <2>1
  <2>4. CASE ~ Splits(t, k + 1)
    <3>1. at[k + 1] = at[k] + 1 /\ u[at[k + 1]] = t[k + 1]
      BY <1>3, <2>1, <2>4
    <3>2. at[k + 1] \in 1..len /\ at[k + 1] - 1 = at[k]
      <4>1. len \in Nat
        BY <1>2
      <4>2. \A a, b \in Nat : b = a + 1 /\ b <= len => b \in 1..len /\ b - 1 = a
        BY <4>1
      <4> QED BY <2>3, <3>1, <4>2
    <3>3. e[at[k + 1]] = Goes(t[k + 1], e[at[k]])
      BY <1>2, <3>1, <3>2
    <3> QED BY <2>1, <2>2, <3>3
  <2>5. CASE Splits(t, k + 1)
    <3>1. d[k + 1] = d[k]
      BY <1>4, <1>5, <2>2, <2>5 DEF Splits
    <3> DEFINE a == at[k]
               b == at[k + 1]
               H == {x \in a..b : e[x] = e[a]}
    <3>2. a \in Nat /\ b \in Nat /\ a <= b /\ b <= len
      BY <2>3
    <3>3. \A x \in (a + 1)..b : u[x] \in TitleWords \cup {Space}
      BY <1>3, <2>1, <2>5
    <3> HIDE DEF a, b
    <3>4. a \in H
      BY <3>2
    <3>5. ASSUME NEW x \in a..(b - 1), x \in H PROVE x + 1 \in H
      <4>1. x + 1 \in 1..len /\ x + 1 \in (a + 1)..b /\ x + 1 \in a..b /\ (x + 1) - 1 = x /\ e[x] = e[a]
        BY <1>2, <3>2, <3>5
      <4>2. e[x + 1] = Goes(u[x + 1], e[x])
        BY <1>2, <4>1
      <4>3. e[x + 1] = e[x]
        BY <1>5, <3>3, <4>1, <4>2
      <4> QED BY <4>1, <4>3
    <3>6. a..b \subseteq H
      <4> HIDE DEF H
      <4> QED BY <3>2, <3>4, <3>5, Upward
    <3>7. e[b] = e[a]
      BY <3>2, <3>6
    <3> QED BY <2>1, <3>1, <3>7 DEF a, b
  <2> QED BY <2>4, <2>5
<1>9. 0..n \subseteq G
  <2> HIDE DEF G
  <2> QED BY <1>1, <1>7, <1>8, Upward
<1>10. i \in G
  BY <1>9 DEF n
<1> QED BY <1>10 DEF d, e

(* A field in which nothing is taken apart stays a field, c places on.         *)
Moved(t, u, at, lo, hi, c) ==
    /\ \A k \in lo..hi : at[k] = k + c /\ u[k + c] = t[k]
    /\ Between(u, Len(u), lo + c, hi + c)

LEMMA SpreadField ==
    ASSUME NEW t \in Seq(Token), NEW u \in Seq(Token), NEW at, Spread(t, u, at),
           NEW lo \in Nat, NEW hi \in Nat, Between(t, Len(t), lo, hi),
           \A k \in lo..hi : ~ Splits(t, k)
    PROVE  \E c \in Int : Moved(t, u, at, lo, hi, c)
<1> DEFINE n == Len(t)
           len == Len(u)
           c == at[lo - 1] + 1 - lo
<1>1. n \in Nat /\ len \in Nat /\ DOMAIN t = 1..n
  OBVIOUS
<1>2. /\ at \in [0..n -> Nat] /\ at[0] = 0 /\ len = at[n]
      /\ \A k, j \in 0..n : k <= j => at[k] <= at[j]
      /\ \A k \in 1..n : ~ Splits(t, k) => at[k] = at[k - 1] + 1 /\ u[at[k]] = t[k]
  BY DEF Spread
<1>3. /\ lo \in 1..n /\ hi \in lo..n
      /\ \A k \in lo..hi : t[k] # Space
      /\ lo = 1 \/ t[lo - 1] = Space
      /\ hi = n \/ t[hi + 1] = Space
  BY DEF Between
<1>4. ASSUME NEW k \in 1..n, t[k] = Space PROVE ~ Splits(t, k)
  BY <1>4, LexiconAssumption DEF Splits, Marks
<1> HIDE DEF n, len
<1>5. lo - 1 \in 0..n /\ at[lo - 1] \in Nat /\ lo - 1 <= n
  <2>1. n \in Nat /\ lo \in 1..n
    BY <1>1, <1>3
  <2>2. lo - 1 \in 0..n /\ lo - 1 <= n
    BY <2>1
  <2>3. at \in [0..n -> Nat]
    BY <1>2
  <2> QED BY <2>2, <2>3
<1>6. c \in Int /\ at[lo - 1] = (lo - 1) + c
  BY <1>3, <1>5
<1> HIDE DEF c
<1> DEFINE G == {k \in (lo - 1)..hi : at[k] = k + c}
<1>7. lo - 1 \in G
  BY <1>3, <1>5, <1>6
<1>8. ASSUME NEW k \in (lo - 1)..(hi - 1), k \in G PROVE k + 1 \in G
  <2>1. k + 1 \in lo..hi /\ k + 1 \in 1..n /\ (k + 1) - 1 = k /\ k \in Int
    BY <1>1, <1>3, <1>8
  <2>2. at[k + 1] = at[k] + 1 /\ at[k] = k + c
    BY <1>2, <1>8, <2>1
  <2> QED BY <1>3, <1>6, <2>1, <2>2
<1>9. (lo - 1)..hi \subseteq G
  <2>1. lo - 1 \in Nat
    BY <1>3
  <2> HIDE DEF G
  <2> QED BY <1>7, <1>8, <2>1, Upward
<1>10. ASSUME NEW k \in lo..hi PROVE at[k] = k + c /\ u[k + c] = t[k]
  <2>1. k \in (lo - 1)..hi /\ k \in 1..n
    BY <1>1, <1>3
  <2>2. at[k] = k + c
    BY <1>9, <2>1
  <2> QED BY <1>2, <2>1, <2>2
<1>11. lo + c \in 1..len /\ hi + c \in (lo + c)..len
  <2>1. hi \in 0..n /\ n \in 0..n /\ hi <= n /\ hi \in (lo - 1)..hi
    BY <1>1, <1>3
  <2>2. at[hi] <= len /\ at[hi] = hi + c
    BY <1>2, <1>9, <2>1
  <2>3. lo + c = at[lo - 1] + 1 /\ lo + c <= hi + c
    BY <1>3, <1>5, <1>6
  <2> QED BY <1>1, <1>3, <1>5, <1>6, <2>2, <2>3
<1>12. ASSUME NEW x \in (lo + c)..(hi + c) PROVE u[x] # Space
  <2>1. x - c \in lo..hi /\ (x - c) + c = x
    BY <1>3, <1>6
  <2> QED BY <1>3, <1>10, <2>1
<1>13. lo + c = 1 \/ u[(lo + c) - 1] = Space
  <2>1. CASE lo = 1
    <3>1. lo - 1 = 0 /\ at[lo - 1] = 0
      BY <1>2, <2>1
    <3> QED BY <1>6, <2>1, <3>1
  <2>2. CASE lo # 1
    <3>1. lo - 1 \in 1..n /\ t[lo - 1] = Space
      BY <1>1, <1>3, <2>2
    <3>2. u[at[lo - 1]] = Space
      BY <1>2, <1>4, <3>1
    <3>3. at[lo - 1] = (lo + c) - 1
      BY <1>3, <1>6
    <3> QED BY <3>2, <3>3
  <2> QED BY <2>1, <2>2
<1>14. hi + c = len \/ u[(hi + c) + 1] = Space
  <2>1. at[hi] = hi + c
    <3>1. hi \in (lo - 1)..hi
      BY <1>3
    <3> QED BY <1>9, <3>1
  <2>2. CASE hi = n
    BY <1>2, <2>1, <2>2
  <2>3. CASE hi # n
    <3>1. hi + 1 \in 1..n /\ t[hi + 1] = Space /\ (hi + 1) - 1 = hi
      BY <1>1, <1>3, <2>3
    <3>2. at[hi + 1] = at[hi] + 1 /\ u[at[hi + 1]] = Space
      BY <1>2, <1>4, <3>1
    <3> QED BY <2>1, <3>2
  <2> QED BY <2>2, <2>3
<1>15. Between(u, len, lo + c, hi + c)
  BY <1>11, <1>12, <1>13, <1>14 DEF Between
<1> QED BY <1>6, <1>10, <1>15 DEF len, Moved

LEMMA MovedField ==
    ASSUME NEW t, NEW u \in Seq(Token), NEW at, NEW lo \in Nat, NEW hi \in Nat, NEW c \in Int,
           Moved(t, u, at, lo, hi, c), NEW i \in lo..hi
    PROVE  /\ Field(u, i + c) = (lo + c)..(hi + c)
           /\ (lo + c)..(hi + c) = Shift(lo..hi, c)
           /\ Alike(t, u, lo..hi, c)
<1> DEFINE F == lo..hi
           a == lo + c
           b == hi + c
           j == i + c
           m == Len(u)
<1>1. /\ \A k \in F : at[k] = k + c /\ u[k + c] = t[k]
      /\ Between(u, m, a, b)
  BY DEF Moved
<1>2. a..b = Shift(F, c)
  <2>1. \A x : x \in Shift(F, c) <=> \E k \in F : x = k + c
    BY DEF Shift
  <2>2. \A k \in F : k + c \in a..b
    OBVIOUS
  <2>3. \A x \in a..b : x - c \in F /\ x = (x - c) + c
    OBVIOUS
  <2>4. \A x : x \in a..b <=> x \in Shift(F, c)
    <3> HIDE DEF F, a, b
    <3> QED BY <2>1, <2>2, <2>3
  <2> QED BY <2>4
<1>3. Alike(t, u, F, c)
  BY <1>1 DEF Alike
<1>4. j \in a..b
  OBVIOUS
<1>5. m \in Nat /\ DOMAIN u = 1..m
  OBVIOUS
<1> HIDE DEF a, b, j, m
<1>6. /\ a \in 1..m /\ b \in a..m
      /\ \A l \in a..b : u[l] # Space
      /\ a = 1 \/ u[a - 1] = Space
      /\ b = m \/ u[b + 1] = Space
  BY <1>1 DEF Between
<1>7. Field(u, j) = a..b
  BY <1>4, <1>5, <1>6, FieldFrom
<1> QED BY <1>2, <1>3, <1>7 DEF a, b, j

(* An address in a field is kept where the field is.                          *)
LEMMA SpreadNetwork ==
    ASSUME NEW t \in Seq(Token), NEW u \in Seq(Token), NEW at, Spread(t, u, at),
           NEW i \in 1..Len(t), t[i] # Space, InNetworkField(t, i)
    PROVE  InNetworkField(u, at[i])
<1> DEFINE n == Len(t)
           hosts == TitleWords \ DOMAIN Pieces
<1>1. n \in Nat /\ DOMAIN t = 1..n /\ Len(u) \in Nat /\ DOMAIN u = 1..Len(u)
  OBVIOUS
<1>2. PICK lo \in 1..i, hi \in i..n : Between(t, n, lo, hi)
  <2> HIDE DEF n
  <2> QED BY <1>1, FieldIs DEF n
<1>3. ASSUME NEW k \in lo..hi PROVE Field(t, k) = lo..hi
  <2>1. /\ lo \in 1..n /\ hi \in lo..n
        /\ \A l \in lo..hi : t[l] # Space
        /\ lo = 1 \/ t[lo - 1] = Space
        /\ hi = n \/ t[hi + 1] = Space
    BY <1>2 DEF Between
  <2> HIDE DEF n
  <2> QED BY <1>1, <2>1, FieldFrom
<1>4. i \in lo..hi /\ lo \in Nat /\ hi \in Nat
  BY <1>1
<1> DEFINE F == lo..hi
<1>5. (\E j \in F : t[j] \in Net) \/ LooksLikeDomain(t, F, hosts)
  BY <1>3, <1>4 DEF InNetworkField
<1>6. LooksLikeDomain(t, F, hosts) => LooksLikeDomain(t, F, TitleWords)
  BY DEF LooksLikeDomain
<1>7. ASSUME NEW k \in F PROVE ~ Splits(t, k)
  <2>1. Field(t, k) = F
    BY <1>3
  <2>2. KeepsUnderscores(t, k)
    <3> HIDE DEF F
    <3> QED BY <1>5, <1>6, <2>1 DEF KeepsUnderscores
  <2> QED BY <2>2 DEF Splits
<1>13. PICK c \in Int : Moved(t, u, at, lo, hi, c)
  BY <1>2, <1>4, <1>7, SpreadField
<1>8. /\ \A k \in F : at[k] = k + c /\ u[k + c] = t[k]
      /\ Between(u, Len(u), lo + c, hi + c)
  BY <1>13 DEF Moved
<1> DEFINE G == (lo + c)..(hi + c)
<1>10. Field(u, at[i]) = G /\ G = Shift(F, c) /\ Alike(t, u, F, c)
  <2>1. /\ Field(u, i + c) = (lo + c)..(hi + c)
        /\ (lo + c)..(hi + c) = Shift(lo..hi, c)
        /\ Alike(t, u, lo..hi, c)
    <3> HIDE DEF F, G
    <3> QED BY <1>4, <1>13, MovedField
  <2>2. at[i] = i + c
    BY <1>4, <1>8
  <2> QED BY <2>1, <2>2
<1>11. CASE \E k \in F : t[k] \in Net
  <2>1. PICK k \in F : t[k] \in Net
    BY <1>11
  <2>2. k + c \in G /\ u[k + c] \in Net
    BY <1>4, <1>8, <2>1
  <2> QED BY <1>10, <2>2 DEF InNetworkField
<1>12. CASE LooksLikeDomain(t, F, hosts)
  <2> HIDE DEF F, G, hosts
  <2>1. Trimmed(u, G) = Shift(Trimmed(t, F), c)
    BY <1>10, TrimmedShifts
  <2>2. Alike(t, u, Trimmed(t, F), c)
    BY <1>10 DEF Trimmed, Alike
  <2>3. LooksLikeDomain(u, G, hosts)
    BY <1>12, <2>1, <2>2, DomainShifts
  <2> QED BY <1>10, <2>3 DEF InNetworkField, hosts
<1> QED BY <1>5, <1>11, <1>12

LEMMA SpreadKeeps ==
    ASSUME NEW f, NEW t \in Seq(Token), NEW u \in Seq(Token), NEW at, Spread(t, u, at),
           NEW i \in 1..Len(t), t[i] \in Latin, Firm(f, t, i)
    PROVE  /\ ~ Splits(t, i)
           /\ at[i] \in 1..Len(u) /\ u[at[i]] = t[i] /\ Firm(f, u, at[i])
<1>1. t[i] # Space /\ ~ Splits(t, i)
  BY LexiconAssumption DEF Splits, Marks
<1>2. u[at[i]] = t[i] /\ at[i] = at[i - 1] + 1 /\ at[i] <= Len(u) /\ at[i - 1] \in Nat /\ at[i] \in Nat
  <2>1. Len(t) \in Nat /\ i - 1 \in 0..Len(t) /\ i \in 0..Len(t) /\ Len(t) \in 0..Len(t) /\ i <= Len(t)
    OBVIOUS
  <2> DEFINE n == Len(t)
  <2> HIDE DEF n
  <2>2. /\ at \in [0..n -> Nat] /\ Len(u) = at[n] /\ \A k, j \in 0..n : k <= j => at[k] <= at[j]
        /\ \A k \in 1..n : ~ Splits(t, k) => at[k] = at[k - 1] + 1 /\ u[at[k]] = t[k]
    BY DEF Spread, n
  <2> QED BY <1>1, <2>1, <2>2 DEF n
<1>3. at[i] \in 1..Len(u)
  <2>1. Len(u) \in Nat
    OBVIOUS
  <2>2. \A a, b, m \in Nat : b = a + 1 /\ b <= m => b \in 1..m
    OBVIOUS
  <2> QED BY <1>2, <2>1, <2>2
<1>4. Bracketed(t, i) => Bracketed(u, at[i])
  <2>1. i \in 0..Len(t)
    OBVIOUS
  <2>2. /\ Depth(u, "[", "]")[at[i]] = Depth(t, "[", "]")[i]
        /\ Depth(u, "(", ")")[at[i]] = Depth(t, "(", ")")[i]
    BY <2>1, SpreadDepth DEF Opening, Closing
  <2> QED BY <2>2 DEF Bracketed
<1>5. InNetworkField(t, i) => InNetworkField(u, at[i])
  BY <1>1, SpreadNetwork
<1>6. Firm(f, u, at[i])
  BY <1>2, <1>4, <1>5, Shadowed
<1> QED BY <1>1, <1>2, <1>3, <1>6

-----------------------------------------------------------------------------
(* Where the word w stands in t and is protected.                             *)
Kept(f, t, w) == {i \in DOMAIN t : t[i] = w /\ Firm(f, t, i)}

LEMMA Fewer ==
    ASSUME NEW K, NEW t \in Seq(Token), NEW w, NEW f, NEW p \in [K -> Kept(f, t, w)],
           \A i, j \in K : p[i] = p[j] => i = j
    PROVE  Cardinality(K) <= Cardinality(Kept(f, t, w)) /\ IsFiniteSet(Kept(f, t, w))
<1> DEFINE M == Kept(f, t, w)
<1>1. IsFiniteSet(M)
  <2>1. M \in SUBSET (1..Len(t)) /\ Len(t) \in Nat /\ 1 \in Int /\ Len(t) \in Int
    BY DEF Kept
  <2>2. IsFiniteSet(1..Len(t))
    BY <2>1, FS_Interval
  <2> HIDE DEF M
  <2> QED BY <2>1, <2>2, FS_Subset
<1>2. p \in Injection(K, M)
  BY DEF Injection, IsInjective
<1> HIDE DEF M
<1> QED BY <1>1, <1>2, FS_Injection DEF M

LEMMA StripKeepsAll ==
    ASSUME NEW f, NEW t \in Seq(Token), NEW w \in Latin
    PROVE  /\ StripNoise(t) \in Seq(Token)
           /\ Cardinality(Kept(f, t, w)) <= Cardinality(Kept(f, StripNoise(t), w))
<1>1. CASE StripNoise(t) = t
  <2>1. Cardinality(Kept(f, t, w)) \in Nat
    <3>1. Kept(f, t, w) \in SUBSET (1..Len(t)) /\ Len(t) \in Int /\ 1 \in Int
      BY DEF Kept
    <3> QED BY <3>1, FS_Interval, FS_Subset, FS_CardinalityType
  <2> QED BY <1>1, <2>1
<1>2. CASE StripNoise(t) # t
  <2> DEFINE s == StripNoise(t)
             n == NoiseEnd(t)
             Place(i) == i - n
             K == Kept(f, t, w)
  <2>1. s \in Seq(Token) /\ n \in Nat
    BY <1>2, StrippedIs
  <2>2. ASSUME NEW i \in K PROVE i \in Int /\ Place(i) \in Kept(f, s, w)
    <3>1. i \in DOMAIN t /\ t[i] = w /\ Firm(f, t, i) /\ i \in Int
      BY DEF Kept
    <3>2. i - n \in DOMAIN s /\ s[i - n] = t[i] /\ Firm(f, s, i - n)
      BY <1>2, <3>1, StripKeeps
    <3> QED BY <3>1, <3>2 DEF Kept
  <2> HIDE DEF s, n, K
  <2> DEFINE p == [i \in K |-> Place(i)]
  <2>3. \A i, j \in K : p[i] = p[j] => i = j
    BY <2>1, <2>2
  <2>4. p \in [K -> Kept(f, s, w)]
    BY <2>2
  <2> HIDE DEF p
  <2> QED BY <2>1, <2>3, <2>4, Fewer DEF s, K
<1> QED BY <1>1, <1>2

LEMMA SplitKeepsAll ==
    ASSUME NEW f, NEW t \in Seq(Token), NEW w \in Latin
    PROVE  /\ SplitUnderscores(t) \in Seq(Token)
           /\ Cardinality(Kept(f, t, w)) <= Cardinality(Kept(f, SplitUnderscores(t), w))
<1> DEFINE u == SplitUnderscores(t)
           K == Kept(f, t, w)
           n == Len(t)
<1>1. u \in Seq(Token)
  BY SplitSpreads
<1>2. PICK at : Spread(t, u, at)
  BY SplitSpreads
<1> DEFINE Place(i) == at[i]
<1>3. ASSUME NEW i \in K
      PROVE  i \in 1..n /\ ~ Splits(t, i) /\ Place(i) \in Kept(f, u, w)
  <2>1. i \in 1..n /\ t[i] = w /\ Firm(f, t, i)
    BY DEF Kept
  <2> HIDE DEF u, n, K
  <2>2. ~ Splits(t, i) /\ at[i] \in 1..Len(u) /\ u[at[i]] = t[i] /\ Firm(f, u, at[i])
    BY <1>1, <1>2, <2>1, SpreadKeeps DEF n
  <2> QED BY <1>1, <2>1, <2>2 DEF Kept
<1>4. /\ n \in Nat /\ at \in [0..n -> Nat] /\ \A k, j \in 0..n : k <= j => at[k] <= at[j]
      /\ \A k \in 1..n : ~ Splits(t, k) => at[k] = at[k - 1] + 1
  BY <1>2 DEF Spread
<1> HIDE DEF u, n, K
<1>5. ASSUME NEW i \in K, NEW j \in K, i < j PROVE Place(i) # Place(j)
  <2>1. i \in 0..n /\ j - 1 \in 0..n /\ i <= j - 1 /\ j \in 1..n
    BY <1>3, <1>4, <1>5
  <2>2. at[i] <= at[j - 1] /\ at[j] = at[j - 1] + 1 /\ at[i] \in Nat /\ at[j - 1] \in Nat
    BY <1>3, <1>4, <2>1
  <2> QED BY <2>2
<1>6. \A i, j \in K : Place(i) = Place(j) => i = j
  <2> SUFFICES ASSUME NEW i \in K, NEW j \in K, i # j PROVE Place(i) # Place(j)
    OBVIOUS
  <2>1. i < j \/ j < i
    BY <1>3
  <2> QED BY <1>5, <2>1
<1> DEFINE p == [i \in K |-> Place(i)]
<1>7. p \in [K -> Kept(f, u, w)]
  BY <1>3
<1>8. \A i, j \in K : p[i] = p[j] => i = j
  BY <1>6
<1> HIDE DEF p
<1> QED BY <1>1, <1>7, <1>8, Fewer DEF u, K

LEMMA KeptFinite ==
    ASSUME NEW f, NEW t \in Seq(Token), NEW w
    PROVE  IsFiniteSet(Kept(f, t, w)) /\ Cardinality(Kept(f, t, w)) \in Nat
<1>1. Kept(f, t, w) \in SUBSET (1..Len(t)) /\ Len(t) \in Int /\ 1 \in Int
  BY DEF Kept
<1> QED BY <1>1, FS_Interval, FS_Subset, FS_CardinalityType

LEMMA CleanupKeepsAll ==
    ASSUME NEW f, NEW t \in Seq(Token), NEW w \in Latin
    PROVE  /\ Cleanup(f, t) \in Seq(Token)
           /\ Cardinality(Kept(f, t, w)) <= Cardinality(Kept(f, Cleanup(f, t), w))
<1> DEFINE s == IF "noise" \in f.clean THEN StripNoise(t) ELSE t
           u == IF "underscores" \in f.clean THEN SplitUnderscores(s) ELSE s
<1>1. s \in Seq(Token) /\ Cardinality(Kept(f, t, w)) <= Cardinality(Kept(f, s, w))
  BY StripKeepsAll, KeptFinite
<1> HIDE DEF s
<1>2. u \in Seq(Token) /\ Cardinality(Kept(f, s, w)) <= Cardinality(Kept(f, u, w))
  BY <1>1, SplitKeepsAll, KeptFinite
<1> HIDE DEF u
<1>3. Cleanup(f, t) = IF Visible(u) THEN u ELSE t
  BY DEF Cleanup, s, u
<1>4. /\ Cardinality(Kept(f, t, w)) \in Nat /\ Cardinality(Kept(f, s, w)) \in Nat
      /\ Cardinality(Kept(f, u, w)) \in Nat
  BY <1>1, <1>2, KeptFinite
<1> QED BY <1>1, <1>2, <1>3, <1>4

(* What protectToken marks is not rewritten.                                  *)
LEMMA RewriteKeeps ==
    ASSUME NEW f, NEW t, NEW i \in DOMAIN t, Firm(f, t, i)
    PROVE  DOMAIN Rewrite(f, t) = DOMAIN t /\ Rewrite(f, t)[i] = t[i]
BY DEF Rewrite, Rewritten, Protected

LEMMA NormalizeKeeps ==
    ASSUME NEW f, NEW t \in Seq(Token), NEW w \in Latin
    PROVE  LET r == Normalize(f, t)
           IN  Cardinality(Kept(f, t, w)) <= Cardinality({j \in DOMAIN r : r[j] = w})
<1> DEFINE c == Cleanup(f, t)
           r == Normalize(f, t)
           R == {j \in DOMAIN r : r[j] = w}
<1>1. c \in Seq(Token) /\ Cardinality(Kept(f, t, w)) <= Cardinality(Kept(f, c, w))
  BY CleanupKeepsAll
<1> HIDE DEF c
<1>2. r = Rewrite(f, c)
  BY DEF Normalize, c
<1> HIDE DEF r
<1>3. Kept(f, c, w) \subseteq R
  BY <1>2, RewriteKeeps DEF Kept
<1>4. R \in SUBSET (1..Len(c)) /\ Len(c) \in Int /\ 1 \in Int
  <2>1. DOMAIN r = DOMAIN c
    BY <1>2 DEF Rewrite
  <2> QED BY <1>1, <2>1
<1> HIDE DEF R
<1>5. IsFiniteSet(R)
  BY <1>4, FS_Interval, FS_Subset
<1>6. Cardinality(Kept(f, c, w)) <= Cardinality(R) /\ Cardinality(R) \in Nat
  BY <1>3, <1>5, FS_Subset, FS_CardinalityType
<1>7. Cardinality(Kept(f, t, w)) \in Nat /\ Cardinality(Kept(f, c, w)) \in Nat
  BY <1>1, KeptFinite
<1>8. Cardinality(Kept(f, t, w)) <= Cardinality(R)
  BY <1>1, <1>6, <1>7
<1> QED BY <1>8 DEF r, R

(* What a step leaves behind: the answers are those of this title.            *)
NormalizedInv ==
    /\ title \in Seq(Token)
    /\ step = "once" => results = << Normalize(file, title) >>
    /\ step = "twice" =>
         results = << Normalize(file, title), Normalize(file, Normalize(file, title)) >>

LEMMA NormalizedKept == NormalizedInv /\ [TitlesNext]_titleVars => NormalizedInv'
<1> SUFFICES ASSUME NormalizedInv, [TitlesNext]_titleVars PROVE NormalizedInv'
  OBVIOUS
<1> USE DEF NormalizedInv
<1>1. CASE Load
  BY <1>1 DEF Load
<1>2. CASE NormalizeOnce
  BY <1>2 DEF NormalizeOnce
<1>3. CASE NormalizeAgain
  <2>1. ASSUME NEW x, NEW y PROVE Append(<< x >>, y) = << x, y >> /\ << x >>[1] = x
    <3>1. << x >> \in Seq({x, y}) /\ y \in {x, y} /\ Len(<< x >>) = 1 /\ << x >>[1] = x
      OBVIOUS
    <3> DEFINE a == Append(<< x >>, y)
    <3>2. a \in Seq({x, y}) /\ Len(a) = 2 /\ a[1] = x /\ a[2] = y
      BY <3>1, AppendProperties
    <3> HIDE DEF a
    <3>3. a = << x, y >>
      BY <3>2
    <3> QED BY <3>1, <3>3 DEF a
  <2>2. /\ results = << Normalize(file, title) >> /\ step' = "twice"
        /\ results' = Append(results, Normalize(file, results[1]))
        /\ UNCHANGED <<file, title>>
    BY <1>3 DEF NormalizeAgain
  <2>3. results' = << Normalize(file, title), Normalize(file, Normalize(file, title)) >>
    BY <2>1, <2>2
  <2>4. Normalize(file, title)' = Normalize(file, title)
    BY <2>2 DEF Normalize, Rewrite, Cleanup
  <2>5. Normalize(file, Normalize(file, title))' = Normalize(file, Normalize(file, title))
    BY <2>2, <2>4
  <2> QED BY <2>2, <2>3, <2>4, <2>5
<1>4. CASE UNCHANGED titleVars
  BY <1>4 DEF titleVars
<1> QED BY <1>1, <1>2, <1>3, <1>4 DEF TitlesNext

(* No rule, no cleanup and no forced word takes away what stands in a title as
   a name by a rule, in brackets, or as part of an address (Normalize,
   protectToken).                                                             *)
THEOREM ProtectedTheorem == TitlesSpec => []WhatIsProtectedStays
<1>1. TitlesInit => NormalizedInv
  BY LexiconAssumption DEF TitlesInit, NormalizedInv
<1>2. NormalizedInv /\ [TitlesNext]_titleVars => NormalizedInv'
  BY NormalizedKept
<1>3. NormalizedInv => WhatIsProtectedStays
  <2> SUFFICES ASSUME NormalizedInv, step = "once", NEW w \in Latin
               PROVE  Cardinality(Kept(file, title, w))
                        <= Cardinality({j \in DOMAIN results[1] : results[1][j] = w})
    BY DEF WhatIsProtectedStays, Kept
  <2> QED BY NormalizeKeeps DEF NormalizedInv
<1> QED BY <1>1, <1>2, <1>3, PTL DEF TitlesSpec

-----------------------------------------------------------------------------
(* Normalizing again.  Where a token of what cleanup leaves comes from.        *)
LEMMA SpreadCovers ==
    ASSUME NEW t \in Seq(Token), NEW u \in Seq(Token), NEW at, Spread(t, u, at), NEW x \in 1..Len(u)
    PROVE  \E k \in 1..Len(t) : at[k - 1] < x /\ x <= at[k]
<1> DEFINE n == Len(t)
           T == {k \in 1..n : x <= at[k]}
<1>1. n \in Nat /\ at \in [0..n -> Nat] /\ at[0] = 0 /\ Len(u) = at[n] /\ x \in Nat /\ x >= 1 /\ x <= at[n]
  BY DEF Spread
<1> HIDE DEF n
<1>2. n # 0
  BY <1>1
<1>3. n \in T /\ T \in SUBSET Nat
  BY <1>1, <1>2
<1>4. Min(T) \in T /\ \A k \in T : Min(T) <= k
  BY <1>3, MinIsLeast
<1> DEFINE m == Min(T)
<1>5. m \in 1..n /\ x <= at[m] /\ \A k \in T : m <= k
  BY <1>4
<1> HIDE DEF m
<1>6. at[m - 1] < x
  <2>1. CASE m = 1
    BY <1>1, <2>1
  <2>2. CASE m # 1
    <3>1. m - 1 \in 1..n /\ m - 1 < m /\ ~(m <= m - 1)
      BY <1>1, <1>5, <2>2
    <3>2. m - 1 \notin T
      <4> HIDE DEF T
      <4> QED BY <1>5, <3>1
    <3>3. at[m - 1] \in Nat /\ ~(x <= at[m - 1])
      BY <1>1, <3>1, <3>2
    <3> QED BY <1>1, <3>3
  <2> QED BY <2>1, <2>2
<1> QED BY <1>5, <1>6 DEF n

LEMMA SpreadOrigin ==
    ASSUME NEW t \in Seq(Token), NEW u \in Seq(Token), NEW at, Spread(t, u, at),
           NEW x \in 1..Len(u), u[x] \in DOMAIN Pieces \cup (Marks \ {Space})
    PROVE  \E k \in 1..Len(t) : ~ Splits(t, k) /\ at[k] = x /\ t[k] = u[x]
<1>1. PICK k \in 1..Len(t) : at[k - 1] < x /\ x <= at[k]
  BY SpreadCovers
<1>2. x \in Nat /\ at[k] \in Nat /\ at[k - 1] \in Nat
  <2>1. k \in 0..Len(t) /\ k - 1 \in 0..Len(t) /\ x \in Nat
    OBVIOUS
  <2>2. at \in [0..Len(t) -> Nat]
    BY DEF Spread
  <2> HIDE DEF Spread
  <2> QED BY <2>1, <2>2
<1>3. x \in (at[k - 1] + 1)..at[k]
  BY <1>1, <1>2
<1>4. ~ Splits(t, k)
  <2>1. u[x] \notin (TitleWords \ DOMAIN Pieces) \cup {Space}
    BY LexiconAssumption DEF Marks, Space
  <2> QED BY <1>3, <2>1 DEF Spread
<1>5. at[k] = at[k - 1] + 1 /\ u[at[k]] = t[k]
  BY <1>4 DEF Spread
<1>6. at[k] = x
  BY <1>1, <1>2, <1>5
<1> QED BY <1>4, <1>5, <1>6

(* Nothing is taken apart before the first space, up to a mark.               *)
LEMMA SpreadPrefix ==
    ASSUME NEW t \in Seq(Token), NEW u \in Seq(Token), NEW at, Spread(t, u, at),
           NEW m \in 1..Len(u), u[m] \in Marks, \A x \in 1..m : u[x] # Space
    PROVE  m <= Len(t) /\ \A i \in 1..m : at[i] = i /\ t[i] = u[i]
<1> DEFINE n == Len(t)
           G == {i \in 0..m : i <= n /\ at[i] = i /\ (i # 0 => t[i] = u[i])}
<1>1. /\ n \in Nat /\ at \in [0..n -> Nat] /\ at[0] = 0 /\ Len(u) = at[n]
      /\ m \in Nat /\ m >= 1 /\ m <= at[n]
  BY DEF Spread
<1>2. \A i \in 1..n : ~ Splits(t, i) => at[i] = at[i - 1] + 1 /\ u[at[i]] = t[i]
  BY DEF Spread
<1>3. ASSUME NEW i \in 1..n, Splits(t, i)
      PROVE  /\ \A x \in (at[i - 1] + 1)..at[i] : u[x] \in (TitleWords \ DOMAIN Pieces) \cup {Space}
             /\ \E x \in (at[i - 1] + 1)..at[i] : u[x] = Space
  BY <1>3 DEF Spread
<1> HIDE DEF n
<1>4. 0 \in G
  BY <1>1
<1>5. ASSUME NEW i \in 0..(m - 1), i \in G PROVE i + 1 \in G
  <2>1. i <= n /\ at[i] = i /\ i \in Nat /\ i < m
    BY <1>5
  <2>2. i # n
    BY <1>1, <2>1
  <2>3. i + 1 \in 1..n /\ (i + 1) - 1 = i
    BY <1>1, <2>1, <2>2
  <2>4. ~ Splits(t, i + 1)
    <3> SUFFICES ASSUME Splits(t, i + 1) PROVE FALSE
      OBVIOUS
    <3>1. \A x \in (i + 1)..at[i + 1] : u[x] \in (TitleWords \ DOMAIN Pieces) \cup {Space}
      BY <1>3, <2>1, <2>3
    <3>2. PICK x \in (i + 1)..at[i + 1] : u[x] = Space
      BY <1>3, <2>1, <2>3
    <3>3. at[i + 1] \in Nat
      BY <1>1, <2>3
    <3>4. ~(x <= m)
      <4>1. x \in Int /\ x >= 1
        BY <2>1, <3>3
      <4> QED BY <1>1, <3>2, <4>1
    <3>5. m \in (i + 1)..at[i + 1]
      BY <1>1, <2>1, <3>3, <3>4
    <3>6. u[m] # Space /\ u[m] \in TitleWords
      BY <1>1, <3>1, <3>5
    <3> QED BY <3>6, LexiconAssumption
  <2>5. at[i + 1] = i + 1 /\ u[i + 1] = t[i + 1]
    BY <1>2, <2>1, <2>3, <2>4
  <2>6. i + 1 \in 0..m /\ i + 1 <= n
    BY <1>1, <2>1, <2>3
  <2> QED BY <2>5, <2>6
<1>6. 0..m \subseteq G
  <2> HIDE DEF G
  <2> QED BY <1>1, <1>4, <1>5, Upward
<1>7. m \in G /\ \A i \in 1..m : i \in G /\ i # 0
  BY <1>1, <1>6
<1> QED BY <1>7 DEF n

(* The noise that stripLeadingProviderNoise looks for: the first n tokens.     *)
IsNoise(t, n) ==
    \/ \A i \in 1..n : t[i] = "quote"
    \/ n >= 2 /\ t[n] = "." /\ t[n - 1] \in Number /\ \A i \in 1..(n - 2) : t[i] = "quote"

Noisy(t, n) ==
    /\ n \in 1..(Len(t) - 1) /\ t[n + 1] = "["
    /\ IsNoise(t, n) /\ ~ PairedQuotes(t)
    /\ \E j \in (n + 3)..Len(t) : t[j] = "]" /\ \A k \in (n + 2)..(j - 1) : t[k] # "]"

LEMMA LeadingQuotesUnique ==
    ASSUME NEW t \in Seq(Token), NEW q \in 0..Len(t),
           \A i \in 1..q : t[i] = "quote", q < Len(t) => t[q + 1] # "quote"
    PROVE  LeadingQuotes(t) = q
<1> DEFINE p == LeadingQuotes(t)
           n == Len(t)
           Is(m) == (\A i \in 1..m : t[i] = "quote") /\ (m < n => t[m + 1] # "quote")
<1>1. n \in Nat
  OBVIOUS
<1>2. p = CHOOSE m \in 0..n : Is(m)
  BY DEF LeadingQuotes
<1>3. q \in 0..n /\ Is(q)
  OBVIOUS
<1>4. p \in 0..n /\ Is(p)
  <2> HIDE DEF Is, p, n
  <2> QED BY <1>2, <1>3
<1> HIDE DEF p, n
<1>5. ~(p < q)
  <2> SUFFICES ASSUME p < q PROVE FALSE
    OBVIOUS
  <2>1. p + 1 \in 1..q /\ p < n
    BY <1>1, <1>3, <1>4
  <2> QED BY <1>3, <1>4, <2>1
<1>6. ~(q < p)
  <2> SUFFICES ASSUME q < p PROVE FALSE
    OBVIOUS
  <2>1. q + 1 \in 1..p /\ q < n
    BY <1>1, <1>3, <1>4
  <2> QED BY <1>3, <1>4, <2>1
<1> QED BY <1>1, <1>3, <1>4, <1>5, <1>6 DEF p

LEMMA NoiseIsNoise ==
    ASSUME NEW t \in Seq(Token)
    PROVE  NoiseEnd(t) \in 0..Len(t) /\ IsNoise(t, NoiseEnd(t))
<1> DEFINE q == LeadingQuotes(t)
<1>1. q \in 0..Len(t) /\ Len(t) \in Nat /\ \A i \in 1..q : t[i] = "quote"
  BY LeadingQuotesAre
<1>2. NoiseEnd(t) = IF q + 2 <= Len(t) /\ t[q + 1] \in Number /\ t[q + 2] = "." THEN q + 2 ELSE q
  BY DEF NoiseEnd
<1> HIDE DEF q
<1>3. CASE q + 2 <= Len(t) /\ t[q + 1] \in Number /\ t[q + 2] = "."
  <2>1. NoiseEnd(t) = q + 2 /\ q + 2 \in 0..Len(t) /\ q + 2 >= 2 /\ (q + 2) - 1 = q + 1 /\ (q + 2) - 2 = q
    BY <1>1, <1>2, <1>3
  <2> QED BY <1>1, <1>3, <2>1 DEF IsNoise
<1>4. CASE ~(q + 2 <= Len(t) /\ t[q + 1] \in Number /\ t[q + 2] = ".")
  BY <1>1, <1>2, <1>4 DEF IsNoise
<1> QED BY <1>3, <1>4

LEMMA NoiseEndIs ==
    ASSUME NEW t \in Seq(Token), NEW n \in 1..(Len(t) - 1), t[n + 1] = "[", IsNoise(t, n)
    PROVE  NoiseEnd(t) = n
<1> DEFINE len == Len(t)
           q == LeadingQuotes(t)
<1>1. len \in Nat /\ n \in Nat /\ n >= 1 /\ n < len
  OBVIOUS
<1>2. NoiseEnd(t) = IF q + 2 <= len /\ t[q + 1] \in Number /\ t[q + 2] = "." THEN q + 2 ELSE q
  BY DEF NoiseEnd
<1>3. "[" \notin Number /\ "quote" \notin Number
  BY LexiconAssumption DEF Marks
<1>4. CASE \A i \in 1..n : t[i] = "quote"
  <2>1. q = n
    <3>1. n \in 0..Len(t) /\ n < Len(t)
      BY <1>1
    <3> QED BY <1>4, <3>1, LeadingQuotesUnique
  <2> HIDE DEF q
  <2> QED BY <1>1, <1>2, <1>3, <2>1
<1>5. CASE n >= 2 /\ t[n] = "." /\ t[n - 1] \in Number /\ \A i \in 1..(n - 2) : t[i] = "quote"
  <2>1. n - 2 \in 0..Len(t) /\ (n - 2) + 1 = n - 1 /\ (n - 2) + 2 = n
    BY <1>1, <1>5
  <2>2. t[(n - 2) + 1] # "quote"
    BY <1>3, <1>5, <2>1
  <2>3. q = n - 2
    BY <1>5, <2>1, <2>2, LeadingQuotesUnique
  <2> HIDE DEF q
  <2> QED BY <1>1, <1>2, <1>5, <2>1, <2>3
<1> QED BY <1>4, <1>5 DEF IsNoise

LEMMA StripsIff ==
    ASSUME NEW t \in Seq(Token)
    PROVE  StripNoise(t) # t <=> \E n \in Nat : Noisy(t, n)
<1> DEFINE len == Len(t)
<1>1. len \in Nat
  OBVIOUS
<1>2. ASSUME StripNoise(t) # t PROVE \E n \in Nat : Noisy(t, n)
  <2> DEFINE n == NoiseEnd(t)
  <2>1. /\ ~ PairedQuotes(t) /\ n > 0 /\ n < len /\ t[n + 1] = "["
        /\ \E j \in (n + 3)..len : t[j] = "]" /\ \A k \in (n + 2)..(j - 1) : t[k] # "]"
    BY <1>2 DEF StripNoise
  <2>2. n \in 0..len /\ IsNoise(t, n)
    BY NoiseIsNoise
  <2> HIDE DEF n, len
  <2>3. n \in 1..(len - 1) /\ n \in Nat
    BY <1>1, <2>1, <2>2
  <2>4. Noisy(t, n)
    BY <2>1, <2>2, <2>3 DEF Noisy, len
  <2> QED BY <2>3, <2>4
<1>3. ASSUME NEW n \in Nat, Noisy(t, n) PROVE StripNoise(t) # t
  <2>1. /\ n \in 1..(len - 1) /\ t[n + 1] = "[" /\ IsNoise(t, n) /\ ~ PairedQuotes(t)
        /\ \E j \in (n + 3)..len : t[j] = "]" /\ \A k \in (n + 2)..(j - 1) : t[k] # "]"
    BY <1>3 DEF Noisy
  <2>2. NoiseEnd(t) = n
    BY <2>1, NoiseEndIs
  <2>3. StripNoise(t) = SubSeq(t, n + 1, len)
    BY <1>1, <2>1, <2>2 DEF StripNoise
  <2>4. Len(SubSeq(t, n + 1, len)) = len - n
    BY <1>1, <2>1
  <2> HIDE DEF len
  <2>5. len - n # len
    BY <1>1, <2>1
  <2> QED BY <2>3, <2>4, <2>5 DEF len
<1> QED BY <1>2, <1>3

(* What is left of a title has no noise before it.                            *)
LEMMA StrippedIsClean ==
    ASSUME NEW t \in Seq(Token), NEW n \in Nat
    PROVE  ~ Noisy(StripNoise(t), n)
<1> DEFINE s == StripNoise(t)
<1>1. CASE s = t
  BY <1>1, StripsIff
<1>2. CASE s # t
  <2> SUFFICES ASSUME Noisy(s, n) PROVE FALSE
    OBVIOUS
  <2> DEFINE m == NoiseEnd(t)
  <2>1. /\ m \in 1..(Len(t) - 1) /\ t[m + 1] = "[" /\ Len(s) = Len(t) - m
        /\ \A k \in 1..Len(s) : s[k] = t[k + m]
    BY <1>2, StrippedIs
  <2>2. 1 \in 1..Len(s) /\ 1 + m = m + 1
    BY <2>1
  <2> HIDE DEF s, m
  <2>3. s[1] = "["
    BY <2>1, <2>2
  <2>4. n >= 1 /\ IsNoise(s, n)
    BY DEF Noisy
  <2>5. "[" \notin Number
    BY LexiconAssumption DEF Marks
  <2>6. CASE \A i \in 1..n : s[i] = "quote"
    BY <2>3, <2>4, <2>6
  <2>7. CASE n >= 2 /\ s[n] = "." /\ s[n - 1] \in Number /\ \A i \in 1..(n - 2) : s[i] = "quote"
    <3>1. CASE n = 2
      BY <2>3, <2>5, <2>7, <3>1
    <3>2. CASE n # 2
      <4>1. 1 \in 1..(n - 2)
        BY <2>7, <3>2
      <4> QED BY <2>3, <2>7, <4>1
    <3> QED BY <3>1, <3>2
  <2> QED BY <2>4, <2>6, <2>7 DEF IsNoise
<1> QED BY <1>1, <1>2

(* Taking words apart makes no noise.                                         *)
LEMMA SpreadIsClean ==
    ASSUME NEW t \in Seq(Token), NEW u \in Seq(Token), NEW at, Spread(t, u, at),
           NEW n \in Nat, Noisy(u, n)
    PROVE  Noisy(t, n)
<1> DEFINE len == Len(t)
           m == n + 1
<1>1. /\ n \in 1..(Len(u) - 1) /\ u[m] = "[" /\ IsNoise(u, n) /\ ~ PairedQuotes(u)
      /\ \E j \in (n + 3)..Len(u) : u[j] = "]" /\ \A k \in (n + 2)..(j - 1) : u[k] # "]"
  BY DEF Noisy
<1>2. Len(u) \in Nat /\ len \in Nat /\ m \in 1..Len(u) /\ u[m] \in Marks /\ u[m] # Space
  BY <1>1 DEF Marks, Space
<1>3. /\ at \in [0..len -> Nat] /\ at[0] = 0 /\ Len(u) = at[len]
      /\ \A i, j \in 0..len : i <= j => at[i] <= at[j]
      /\ \A i \in 1..len : ~ Splits(t, i) => at[i] = at[i - 1] + 1 /\ u[at[i]] = t[i]
  BY DEF Spread
<1>4. ASSUME NEW i \in 1..len, t[i] \in Marks PROVE ~ Splits(t, i)
  BY <1>4, LexiconAssumption DEF Splits
<1>5. ASSUME NEW i \in 1..n PROVE u[i] # Space
  <2>1. Number \subseteq TitleWords /\ TitleWords \cap Marks = {} /\ n \in Nat
    BY LexiconAssumption
  <2>2. \A k \in 1..n : k \in 1..(n - 2) \/ k = n - 1 \/ k = n
    BY <2>1
  <2> QED BY <1>1, <2>1, <2>2 DEF IsNoise, Marks, Space
<1>6. \A x \in 1..m : u[x] # Space
  <2>1. \A x \in 1..m : x \in 1..n \/ x = m
    BY <1>1
  <2> QED BY <1>2, <1>5, <2>1
<1>7. m <= len /\ \A i \in 1..m : at[i] = i /\ t[i] = u[i]
  BY <1>2, <1>6, SpreadPrefix
<1>8. t[m] = "["
  BY <1>1, <1>2, <1>7
<1>9. IsNoise(t, n)
  <2>1. \A i \in 1..n : i \in 1..m
    OBVIOUS
  <2>2. \A i \in 1..(n - 2) : i \in 1..m
    OBVIOUS
  <2>3. n >= 2 => n \in 1..m /\ n - 1 \in 1..m
    OBVIOUS
  <2> HIDE DEF m
  <2> QED BY <1>1, <1>7, <2>1, <2>2, <2>3 DEF IsNoise
<1>10. PICK j \in (n + 3)..Len(u) : u[j] = "]" /\ \A k \in (n + 2)..(j - 1) : u[k] # "]"
  BY <1>1
<1>11. PICK l \in 1..len : ~ Splits(t, l) /\ at[l] = j /\ t[l] = u[j]
  <2>1. j \in 1..Len(u)
    BY <1>2, <1>10
  <2>2. u[j] \in DOMAIN Pieces \cup (Marks \ {Space})
    BY <1>10 DEF Marks, Space
  <2> QED BY <2>1, <2>2, SpreadOrigin
<1>12. l >= n + 3
  <2>1. j \in Nat /\ j >= n + 3 /\ at[m] = m /\ m \in 0..len
    BY <1>2, <1>7, <1>10
  <2>2. ~(l <= m)
    <3> SUFFICES ASSUME l <= m PROVE FALSE
      OBVIOUS
    <3>1. at[l] <= at[m]
      BY <1>3, <2>1
    <3> QED BY <1>11, <2>1, <3>1
  <2>3. l # n + 2
    <3> SUFFICES ASSUME l = n + 2 PROVE FALSE
      OBVIOUS
    <3>1. l - 1 = m
      OBVIOUS
    <3>2. at[l] = at[m] + 1
      BY <1>3, <1>11, <3>1
    <3> QED BY <1>11, <2>1, <3>2
  <2> QED BY <2>2, <2>3
<1>13. ASSUME NEW k \in (n + 2)..(l - 1) PROVE t[k] # "]"
  <2> SUFFICES ASSUME t[k] = "]" PROVE FALSE
    OBVIOUS
  <2>1. k \in 1..len /\ k - 1 \in 0..len /\ m \in 0..len /\ m <= k - 1 /\ k <= l - 1 /\ l - 1 \in 0..len
    BY <1>2, <1>7
  <2>2. ~ Splits(t, k)
    BY <1>4, <2>1 DEF Marks
  <2>3. at[k] = at[k - 1] + 1 /\ u[at[k]] = "]"
    BY <1>3, <2>1, <2>2
  <2>4. at[m] <= at[k - 1] /\ at[k] <= at[l - 1] /\ at[l] = at[l - 1] + 1
    BY <1>3, <1>11, <2>1
  <2>5. at[m] = n + 1 /\ at[k - 1] \in Nat /\ at[k] \in Nat /\ at[l - 1] \in Nat /\ at[l] = j
    <3>1. m \in 1..m
      BY <1>2
    <3>2. at[m] = m
      BY <1>7, <3>1
    <3>3. k \in 0..len
      BY <2>1
    <3> QED BY <1>3, <1>11, <2>1, <3>2, <3>3
  <2>6. at[k] \in (n + 2)..(j - 1)
    BY <2>3, <2>4, <2>5
  <2> QED BY <1>10, <2>3, <2>6
<1>14. ~ PairedQuotes(t)
  <2> SUFFICES ASSUME PairedQuotes(t) PROVE FALSE
    OBVIOUS
  <2>1. len > 2 /\ t[1] = "quote" /\ t[len] = "quote"
    BY DEF PairedQuotes
  <2>2. len \in 1..len /\ 1 \in 1..m
    BY <1>2, <2>1
  <2>3. u[1] = "quote"
    BY <1>7, <2>1, <2>2
  <2>4. u[Len(u)] = "quote"
    <3>1. ~ Splits(t, len)
      BY <1>4, <2>1, <2>2 DEF Marks
    <3> QED BY <1>3, <2>1, <2>2, <3>1
  <2>5. Len(u) > 2
    BY <1>2, <1>10
  <2> QED BY <1>1, <2>3, <2>4, <2>5 DEF PairedQuotes
<1>15. n \in 1..(len - 1)
  BY <1>1, <1>2, <1>7
<1>16. l \in (n + 3)..len /\ t[l] = "]"
  BY <1>10, <1>11, <1>12
<1> QED BY <1>8, <1>9, <1>13, <1>14, <1>15, <1>16 DEF Noisy

(* What Rewrite changes: Latin words, into words that are not.                *)
LEMMA RewriteIs ==
    ASSUME NEW f, NEW c \in Seq(Token)
    PROVE  LET r == Rewrite(f, c)
           IN  /\ r \in Seq(Token) /\ Len(r) = Len(c)
               /\ \A i \in 1..Len(c) :
                    \/ r[i] = c[i]
                    \/ /\ c[i] \in Latin /\ ~ Firm(f, c, i)
                       /\ r[i] \in TitleWords \ (Latin \cup Hard)
<1> DEFINE n == Len(c)
           r == Rewrite(f, c)
           W(i) == IF Rewritten(f, c, i) THEN Cyrillic[c[i]] ELSE c[i]
<1>1. n \in Nat /\ DOMAIN c = 1..n /\ \A i \in 1..n : c[i] \in Token
  OBVIOUS
<1>2. r = c \/ r = [i \in 1..n |-> W(i)]
  BY <1>1 DEF Rewrite
<1>3. ASSUME NEW i \in 1..n
      PROVE  /\ W(i) \in Token
             /\ \/ W(i) = c[i]
                \/ /\ c[i] \in Latin /\ ~ Firm(f, c, i)
                   /\ W(i) \in TitleWords \ (Latin \cup Hard)
  <2>1. CASE Rewritten(f, c, i)
    <3>1. c[i] \in Latin /\ ~ Firm(f, c, i)
      BY <2>1 DEF Rewritten, Protected
    <3>2. Cyrillic[c[i]] \in TitleWords \ (Latin \cup Hard)
      BY <3>1, LexiconAssumption
    <3> QED BY <2>1, <3>1, <3>2 DEF Token
  <2>2. CASE ~ Rewritten(f, c, i)
    BY <1>1, <2>2
  <2> QED BY <2>1, <2>2
<1> HIDE DEF W, n, r
<1>4. CASE r = c
  BY <1>4 DEF r, n
<1>5. CASE r = [i \in 1..n |-> W(i)]
  <2>1. r \in Seq(Token) /\ Len(r) = n /\ \A i \in 1..n : r[i] = W(i)
    BY <1>1, <1>3, <1>5
  <2> QED BY <1>3, <2>1 DEF r, n
<1> QED BY <1>2, <1>4, <1>5

(* So marks and hard words, and nothing else, stand where they stood.         *)
LEMMA RewriteShape ==
    ASSUME NEW f, NEW c \in Seq(Token), NEW i \in 1..Len(c)
    PROVE  LET r == Rewrite(f, c)
           IN  /\ r[i] \in Marks \cup Hard => c[i] = r[i]
               /\ c[i] \in Marks \cup Hard => r[i] = c[i]
               /\ r[i] \in TitleWords <=> c[i] \in TitleWords
<1> DEFINE r == Rewrite(f, c)
<1>1. r[i] = c[i] \/ (c[i] \in Latin /\ r[i] \in TitleWords \ (Latin \cup Hard))
  BY RewriteIs
<1>2. Latin \subseteq TitleWords /\ Latin \cap Hard = {} /\ TitleWords \cap Marks = {}
  BY LexiconAssumption
<1> HIDE DEF r
<1>3. /\ r[i] \in Marks \cup Hard => c[i] = r[i]
      /\ c[i] \in Marks \cup Hard => r[i] = c[i]
      /\ r[i] \in TitleWords <=> c[i] \in TitleWords
  BY <1>1, <1>2
<1> QED BY <1>3 DEF r

LEMMA RewriteIsClean ==
    ASSUME NEW f, NEW c \in Seq(Token), NEW n \in Nat, Noisy(Rewrite(f, c), n)
    PROVE  Noisy(c, n)
<1> DEFINE r == Rewrite(f, c)
           len == Len(c)
<1>1. Len(r) = len /\ len \in Nat
  BY RewriteIs
<1>2. \A i \in 1..len : /\ r[i] \in Marks \cup Hard => c[i] = r[i]
                        /\ c[i] \in Marks \cup Hard => r[i] = c[i]
  BY RewriteShape
<1>3. Number \subseteq Hard /\ {"quote", ".", "[", "]"} \subseteq Marks
  BY LexiconAssumption DEF Marks
<1> HIDE DEF r, len
<1>4. /\ n \in 1..(len - 1) /\ r[n + 1] = "[" /\ IsNoise(r, n) /\ ~ PairedQuotes(r)
      /\ \E j \in (n + 3)..len : r[j] = "]" /\ \A k \in (n + 2)..(j - 1) : r[k] # "]"
  BY <1>1 DEF Noisy, r
<1>5. c[n + 1] = "["
  <2>1. n + 1 \in 1..len
    BY <1>1, <1>4
  <2> QED BY <1>2, <1>3, <1>4, <2>1
<1>6. IsNoise(c, n)
  <2>1. /\ \A i \in 1..n : i \in 1..len
        /\ \A i \in 1..(n - 2) : i \in 1..len
        /\ n >= 2 => n \in 1..len /\ n - 1 \in 1..len
    BY <1>1, <1>4
  <2> QED BY <1>2, <1>3, <1>4, <2>1 DEF IsNoise
<1>7. PICK j \in (n + 3)..len : r[j] = "]" /\ \A k \in (n + 2)..(j - 1) : r[k] # "]"
  BY <1>4
<1>8. j \in 1..len /\ \A k \in (n + 2)..(j - 1) : k \in 1..len
  BY <1>1, <1>4
<1>9. c[j] = "]" /\ \A k \in (n + 2)..(j - 1) : c[k] # "]"
  BY <1>2, <1>3, <1>7, <1>8
<1>10. ~ PairedQuotes(c)
  <2> SUFFICES ASSUME PairedQuotes(c) PROVE FALSE
    OBVIOUS
  <2>1. len > 2 /\ c[1] = "quote" /\ c[len] = "quote"
    BY DEF PairedQuotes, len
  <2>2. 1 \in 1..len /\ len \in 1..len
    BY <1>1, <2>1
  <2>3. r[1] = "quote" /\ r[len] = "quote"
    BY <1>2, <1>3, <2>1, <2>2
  <2> QED BY <1>1, <1>4, <2>1, <2>3 DEF PairedQuotes
<1> QED BY <1>4, <1>5, <1>6, <1>7, <1>9, <1>10 DEF Noisy, len

(* Spaces stay where they are, and so do the fields.                          *)
LEMMA RewriteFields ==
    ASSUME NEW f, NEW c \in Seq(Token), NEW i
    PROVE  Field(Rewrite(f, c), i) = Field(c, i)
<1> DEFINE r == Rewrite(f, c)
<1>1. DOMAIN r = DOMAIN c /\ DOMAIN c = 1..Len(c)
  BY DEF Rewrite
<1>2. \A k \in DOMAIN c : r[k] = Space <=> c[k] = Space
  BY <1>1, RewriteShape DEF Marks
<1> HIDE DEF r
<1> QED BY <1>1, <1>2 DEF Field, r

(* A field's tokens have the same field.                                      *)
LEMMA FieldOfField ==
    ASSUME NEW t \in Seq(Token), NEW i \in DOMAIN t, t[i] # Space
    PROVE  \E lo \in Nat, hi \in Nat :
             /\ Between(t, Len(t), lo, hi) /\ i \in lo..hi /\ Field(t, i) = lo..hi
             /\ \A k \in lo..hi : k \in DOMAIN t /\ t[k] # Space /\ Field(t, k) = lo..hi
<1> DEFINE n == Len(t)
<1>1. n \in Nat /\ DOMAIN t = 1..n
  OBVIOUS
<1> HIDE DEF n
<1>2. PICK lo \in 1..i, hi \in i..n : Between(t, n, lo, hi)
  BY <1>1, FieldIs
<1>3. /\ lo \in 1..n /\ hi \in lo..n
      /\ \A l \in lo..hi : t[l] # Space
      /\ lo = 1 \/ t[lo - 1] = Space
      /\ hi = n \/ t[hi + 1] = Space
  BY <1>2 DEF Between
<1>4. ASSUME NEW k \in lo..hi PROVE Field(t, k) = lo..hi
  BY <1>1, <1>3, FieldFrom
<1>5. i \in lo..hi /\ lo \in Nat /\ hi \in Nat /\ \A k \in lo..hi : k \in DOMAIN t
  BY <1>1, <1>3
<1> QED BY <1>2, <1>3, <1>4, <1>5 DEF n

(* What nothing may rewrite is as firm afterwards.                            *)
LEMMA RewriteFirm ==
    ASSUME NEW f, NEW c \in Seq(Token), NEW i \in DOMAIN c, c[i] \in TitleWords, Firm(f, c, i)
    PROVE  Firm(f, Rewrite(f, c), i)
<1> DEFINE r == Rewrite(f, c)
           n == Len(c)
<1>1. r \in Seq(Token) /\ Len(r) = n /\ n \in Nat /\ DOMAIN c = 1..n /\ i \in 1..n
  BY RewriteIs
<1>2. \A k \in 1..n : Firm(f, c, k) => r[k] = c[k]
  BY RewriteIs
<1>3. \A k \in 1..n : /\ r[k] \in Marks \cup Hard => c[k] = r[k]
                      /\ c[k] \in Marks \cup Hard => r[k] = c[k]
                      /\ r[k] \in TitleWords <=> c[k] \in TitleWords
  BY RewriteShape
<1>4. \A k : Field(r, k) = Field(c, k)
  BY RewriteFields
<1> HIDE DEF r, n
<1>5. ASSUME NEW open \in Opening, NEW close \in Closing
      PROVE  Depth(c, open, close)[i] = Depth(r, open, close)[i]
  <2> DEFINE d == Depth(c, open, close)
             e == Depth(r, open, close)
             Goes(x, v) == IF x = open THEN v + 1 ELSE IF x = close /\ v > 0 THEN v - 1 ELSE v
  <2>1. /\ d \in [0..n -> Nat] /\ d[0] = 0
        /\ \A k \in 1..n : d[k] = Goes(c[k], d[k - 1])
    BY <1>1, DepthIs DEF n
  <2>2. /\ e \in [0..n -> Nat] /\ e[0] = 0
        /\ \A k \in 1..n : e[k] = Goes(r[k], e[k - 1])
    BY <1>1, DepthIs
  <2> HIDE DEF d, e, Goes
  <2>3. \A k \in 1..n, v \in Nat : Goes(c[k], v) = Goes(r[k], v)
    <3>1. Opening \cup Closing \subseteq Marks
      BY DEF Opening, Closing, Marks
    <3>2. \A k \in 1..n : (c[k] = open <=> r[k] = open) /\ (c[k] = close <=> r[k] = close)
      BY <1>3, <3>1
    <3> QED BY <3>2 DEF Goes
  <2> DEFINE G == {k \in 0..n : d[k] = e[k]}
  <2>4. 0 \in G
    BY <1>1, <2>1, <2>2
  <2>5. ASSUME NEW k \in 0..(n - 1), k \in G PROVE k + 1 \in G
    <3>1. k + 1 \in 1..n /\ k + 1 \in 0..n /\ (k + 1) - 1 = k /\ d[k] = e[k] /\ d[k] \in Nat
      BY <1>1, <2>1, <2>5
    <3>2. d[k + 1] = Goes(c[k + 1], d[k]) /\ e[k + 1] = Goes(r[k + 1], e[k])
      BY <2>1, <2>2, <3>1
    <3>3. d[k + 1] = e[k + 1]
      BY <2>3, <3>1, <3>2
    <3> QED BY <3>1, <3>3
  <2>6. 0..n \subseteq G
    <3> HIDE DEF G
    <3> QED BY <1>1, <2>4, <2>5, Upward
  <2>7. i \in G
    BY <1>1, <2>6
  <2> QED BY <2>7 DEF d, e
<1>6. Bracketed(c, i) => Bracketed(r, i)
  BY <1>5 DEF Bracketed, Opening, Closing
<1>7. ASSUME InNetworkField(c, i) PROVE InNetworkField(r, i)
  <2> DEFINE F == Field(c, i)
             hosts == TitleWords \ DOMAIN Pieces
  <2>1. \A k \in F : k \in DOMAIN c /\ Field(c, k) = F
    <3>1. c[i] # Space
      BY LexiconAssumption DEF Marks
    <3> QED BY <3>1, FieldOfField
  <2>2. Field(r, i) = F
    BY <1>4
  <2>3. ASSUME NEW k \in F PROVE r[k] = c[k]
    <3>1. k \in 1..n /\ Field(c, k) = F
      BY <1>1, <2>1
    <3>2. InNetworkField(c, k)
      <4> HIDE DEF F
      <4>1. (\E j \in F : c[j] \in Net) \/ LooksLikeDomain(c, F, hosts)
        BY <1>7 DEF InNetworkField, F
      <4> QED BY <3>1, <4>1 DEF InNetworkField
    <3> QED BY <1>2, <3>1, <3>2 DEF Firm
  <2> HIDE DEF F
  <2>4. CASE \E j \in F : c[j] \in Net
    BY <2>2, <2>3, <2>4 DEF InNetworkField
  <2>5. CASE LooksLikeDomain(c, F, hosts)
    <3>1. F = Shift(F, 0) /\ Alike(c, r, F, 0) /\ 0 \in Int
      <4>1. F \subseteq Int
        BY <1>1, <2>1
      <4>2. \A k \in F : k + 0 = k
        BY <4>1
      <4>3. F = Shift(F, 0)
        <5>1. \A x : x \in Shift(F, 0) <=> \E k \in F : x = k + 0
          BY DEF Shift
        <5>2. \A x : x \in Shift(F, 0) <=> x \in F
          BY <4>2, <5>1
        <5> QED BY <5>2
      <4>4. Alike(c, r, F, 0)
        BY <2>3, <4>1, <4>2 DEF Alike
      <4> QED BY <4>3, <4>4
    <3>2. Trimmed(r, F) = Shift(Trimmed(c, F), 0)
      BY <3>1, TrimmedShifts
    <3>3. Alike(c, r, Trimmed(c, F), 0)
      BY <3>1 DEF Alike, Trimmed
    <3> HIDE DEF hosts
    <3>4. LooksLikeDomain(r, F, hosts)
      BY <2>5, <3>1, <3>2, <3>3, DomainShifts
    <3> QED BY <2>2, <3>4 DEF InNetworkField, hosts
  <2> QED BY <1>7, <2>4, <2>5 DEF InNetworkField, F
<1>8. r[i] = c[i]
  BY <1>1, <1>2
<1>9. Firm(f, r, i)
  BY <1>6, <1>7, <1>8, Shadowed
<1> QED BY <1>9 DEF r

(* Nothing is left to rewrite.                                                *)
LEMMA RewriteOnce ==
    ASSUME NEW f, NEW c \in Seq(Token)
    PROVE  Rewrite(f, Rewrite(f, c)) = Rewrite(f, c)
<1> DEFINE r == Rewrite(f, c)
<1>1. CASE r = c
  BY <1>1
<1>2. CASE r # c
  <2>1. r = [i \in DOMAIN c |-> IF Rewritten(f, c, i) THEN Cyrillic[c[i]] ELSE c[i]]
    BY <1>2 DEF Rewrite
  <2>2. DOMAIN r = DOMAIN c
    BY <2>1
  <2>3. ASSUME NEW i \in DOMAIN c PROVE ~ Rewritten(f, r, i)
    <3> SUFFICES ASSUME Rewritten(f, r, i) PROVE FALSE
      OBVIOUS
    <3>1. r[i] \in Latin /\ (Protected(f, r, i) => ~ Firm(f, r, i) /\ Forced(f, r[i]))
      BY DEF Rewritten
    <3>2. ~ Rewritten(f, c, i)
      <4> SUFFICES ASSUME Rewritten(f, c, i) PROVE FALSE
        OBVIOUS
      <4>1. r[i] = Cyrillic[c[i]] /\ c[i] \in Latin
        BY <2>1 DEF Rewritten
      <4> QED BY <3>1, <4>1, LexiconAssumption
    <3>3. r[i] = c[i]
      <4> HIDE DEF r
      <4> QED BY <2>1, <3>2
    <3>4. c[i] \in TitleWords
      BY <3>1, <3>3, LexiconAssumption
    <3>5. Protected(f, c, i) /\ (Firm(f, c, i) \/ ~ Forced(f, c[i]))
      BY <3>1, <3>2, <3>3, <3>4 DEF Rewritten, IsWord
    <3>6. Firm(f, c, i) => Firm(f, r, i)
      BY <3>4, RewriteFirm
    <3> HIDE DEF r
    <3> QED BY <3>1, <3>3, <3>5, <3>6 DEF Protected
  <2> HIDE DEF r
  <2>4. r = [i \in DOMAIN r |-> r[i]]
    BY <2>1
  <2>5. [i \in DOMAIN r |-> IF Rewritten(f, r, i) THEN Cyrillic[r[i]] ELSE r[i]] = r
    BY <2>2, <2>3, <2>4
  <2>6. Rewrite(f, r) = r
    BY <2>5 DEF Rewrite
  <2> QED BY <2>6 DEF r
<1> QED BY <1>1, <1>2

(* Nothing is taken apart where there is nothing to take.                     *)
LEMMA SplitNothing ==
    ASSUME NEW t \in Seq(Token), \A i \in DOMAIN t : ~ Splits(t, i)
    PROVE  SplitUnderscores(t) = t
<1> DEFINE n == Len(t)
           u == SplitUnderscores(t)
<1>1. n \in Nat /\ DOMAIN t = 1..n
  OBVIOUS
<1>2. u \in Seq(Token)
  BY SplitSpreads
<1>3. PICK at : Spread(t, u, at)
  BY SplitSpreads
<1>4. /\ at[0] = 0 /\ Len(u) = at[n]
      /\ \A i \in 1..n : ~ Splits(t, i) => at[i] = at[i - 1] + 1 /\ u[at[i]] = t[i]
  BY <1>3 DEF Spread
<1> HIDE DEF n, u
<1> DEFINE G == {i \in 0..n : at[i] = i}
<1>5. 0 \in G
  BY <1>1, <1>4
<1>6. ASSUME NEW i \in 0..(n - 1), i \in G PROVE i + 1 \in G
  <2>1. i + 1 \in 1..n /\ i + 1 \in 0..n /\ (i + 1) - 1 = i /\ at[i] = i
    BY <1>1, <1>6
  <2> QED BY <1>1, <1>4, <2>1
<1>7. 0..n \subseteq G
  <2> HIDE DEF G
  <2> QED BY <1>1, <1>5, <1>6, Upward
<1>8. \A i \in 0..n : at[i] = i
  BY <1>7
<1>9. Len(u) = n /\ \A i \in 1..n : u[i] = t[i]
  <2>1. n \in 0..n /\ \A i \in 1..n : i \in 0..n
    BY <1>1
  <2> QED BY <1>1, <1>4, <1>8, <2>1
<1>10. u = t
  BY <1>1, <1>2, <1>9 DEF n
<1> QED BY <1>10 DEF u

(* No word is of nothing but underscores.                                     *)
Shows(t) ==
    \A i \in DOMAIN t : t[i] \in DOMAIN Pieces =>
      \E k \in DOMAIN Pieces[t[i]] : Pieces[t[i]][k] # Space

LEMMA SpreadShows ==
    ASSUME NEW t \in Seq(Token), NEW u \in Seq(Token), NEW at, Spread(t, u, at), Shows(t),
           NEW m \in 1..Len(t), t[m] # Space
    PROVE  \E y \in (at[m - 1] + 1)..at[m] : y \in 1..Len(u) /\ u[y] # Space
<1> DEFINE n == Len(t)
<1>1. n \in Nat /\ DOMAIN t = 1..n
  OBVIOUS
<1>2. /\ at \in [0..n -> Nat] /\ Len(u) = at[n]
      /\ \A i, j \in 0..n : i <= j => at[i] <= at[j]
      /\ \A i \in 1..n : ~ Splits(t, i) => at[i] = at[i - 1] + 1 /\ u[at[i]] = t[i]
      /\ \A i \in 1..n : Splits(t, i) /\ (\E k \in DOMAIN Pieces[t[i]] : Pieces[t[i]][k] # Space) =>
           \E x \in (at[i - 1] + 1)..at[i] : u[x] # Space
  BY DEF Spread
<1> HIDE DEF n
<1>3. m \in 1..n /\ m - 1 \in 0..n /\ m \in 0..n /\ n \in 0..n /\ m <= n
  BY <1>1 DEF n
<1>4. at[m - 1] \in Nat /\ at[m] \in Nat /\ at[m] <= Len(u) /\ Len(u) \in Nat
  BY <1>2, <1>3
<1>5. \A y \in (at[m - 1] + 1)..at[m] : y \in 1..Len(u)
  BY <1>4
<1>6. CASE Splits(t, m)
  <2>1. \E k \in DOMAIN Pieces[t[m]] : Pieces[t[m]][k] # Space
    BY <1>1, <1>3, <1>6 DEF Splits, Shows
  <2> QED BY <1>2, <1>3, <1>5, <1>6, <2>1
<1>7. CASE ~ Splits(t, m)
  <2>1. at[m] = at[m - 1] + 1 /\ u[at[m]] = t[m]
    BY <1>2, <1>3, <1>7
  <2>2. at[m] \in (at[m - 1] + 1)..at[m]
    BY <1>4, <2>1
  <2> QED BY <1>5, <2>1, <2>2
<1> QED BY <1>6, <1>7

(* What kept its underscores keeps them again, if it was no address.          *)
LEMMA KeepsAgain ==
    ASSUME NEW t \in Seq(Token), NEW u \in Seq(Token), NEW at, Spread(t, u, at), Shows(t),
           NEW x \in 1..Len(u), u[x] \in DOMAIN Pieces, ~ LooksLikeDomain(u, Field(u, x), TitleWords)
    PROVE  KeepsUnderscores(u, x)
<1> DEFINE n == Len(t)
<1>1. /\ n \in Nat /\ DOMAIN t = 1..n /\ Len(u) \in Nat /\ DOMAIN u = 1..Len(u)
      /\ x \in DOMAIN u
  OBVIOUS
<1>2. PICK k \in 1..n : ~ Splits(t, k) /\ at[k] = x /\ t[k] = u[x]
  BY SpreadOrigin
<1>3. t[k] \in DOMAIN Pieces /\ KeepsUnderscores(t, k) /\ t[k] # Space
  BY <1>2, LexiconAssumption DEF Splits, Marks
<1>4. PICK lo \in Nat, hi \in Nat :
        /\ Between(t, n, lo, hi) /\ k \in lo..hi /\ Field(t, k) = lo..hi
        /\ \A l \in lo..hi : l \in DOMAIN t /\ t[l] # Space /\ Field(t, l) = lo..hi
  BY <1>1, <1>2, <1>3, FieldOfField
<1> DEFINE F == lo..hi
<1>5. \/ \E j \in F : t[j] \in Net \cup Slashed \cup {"backslash"}
      \/ LooksLikeDomain(t, F, TitleWords)
      \/ Embedded(t) /\ \E j \in F : CodeAt(t, F, j)
  BY <1>3, <1>4 DEF KeepsUnderscores
<1>6. ASSUME NEW l \in F PROVE ~ Splits(t, l)
  <2>1. Field(t, l) = F
    BY <1>4
  <2>2. KeepsUnderscores(t, l)
    <3> HIDE DEF F
    <3> QED BY <1>5, <2>1 DEF KeepsUnderscores
  <2> QED BY <2>2 DEF Splits
<1>7. PICK c \in Int : Moved(t, u, at, lo, hi, c)
  BY <1>4, <1>6, SpreadField
<1>8. \A l \in F : at[l] = l + c /\ u[l + c] = t[l]
  BY <1>7 DEF Moved
<1> DEFINE G == (lo + c)..(hi + c)
<1>9. Field(u, x) = G /\ G = Shift(F, c) /\ Alike(t, u, F, c)
  <2>1. /\ Field(u, k + c) = (lo + c)..(hi + c)
        /\ (lo + c)..(hi + c) = Shift(lo..hi, c)
        /\ Alike(t, u, lo..hi, c)
    <3> HIDE DEF F, G
    <3> QED BY <1>4, <1>7, MovedField
  <2>2. x = k + c
    BY <1>2, <1>4, <1>8
  <2> QED BY <2>1, <2>2
<1>10. \A l \in F : l + c \in G /\ u[l + c] = t[l]
  BY <1>4, <1>8
<1>11. CASE \E j \in F : t[j] \in Net \cup Slashed \cup {"backslash"}
  <2>1. \E j \in G : u[j] \in Net \cup Slashed \cup {"backslash"}
    <3> HIDE DEF F, G
    <3> QED BY <1>10, <1>11
  <2> HIDE DEF G
  <2> QED BY <1>9, <2>1 DEF KeepsUnderscores
<1>12. CASE LooksLikeDomain(t, F, TitleWords)
  <2> HIDE DEF F, G
  <2>1. Trimmed(u, G) = Shift(Trimmed(t, F), c)
    BY <1>9, TrimmedShifts
  <2>2. Alike(t, u, Trimmed(t, F), c)
    BY <1>9 DEF Trimmed, Alike
  <2>3. LooksLikeDomain(u, G, TitleWords)
    BY <1>12, <2>1, <2>2, DomainShifts
  <2> QED BY <1>9, <2>3
<1>13. CASE Embedded(t) /\ \E j \in F : CodeAt(t, F, j)
  <2>1. \E j \in G : CodeAt(u, G, j)
    <3>1. PICK j \in F : CodeAt(t, F, j)
      BY <1>13
    <3>2. \A l \in F : (j <= l <=> j + c <= l + c) /\ (l <= j <=> l + c <= j + c)
      BY <1>4
    <3> HIDE DEF F, G
    <3>3. j + c \in G /\ u[j + c] = t[j] /\ \A m \in G : \E l \in F : m = l + c
      BY <1>9, <1>10, <3>1 DEF Shift
    <3>4. /\ (\A l \in F : j <= l) => \A m \in G : j + c <= m
          /\ (\A l \in F : l <= j) => \A m \in G : m <= j + c
      BY <3>2, <3>3
    <3>5. CodeAt(u, G, j + c)
      BY <3>1, <3>3, <3>4 DEF CodeAt
    <3> QED BY <3>3, <3>5
  <2>2. PICK m \in 1..n : t[m] # Space /\ m \notin F
    <3>1. PICK a, b \in DOMAIN t : t[a] # Space /\ t[b] # Space /\ Field(t, a) # Field(t, b)
      BY <1>13 DEF Embedded
    <3>2. a \notin F \/ b \notin F
      BY <1>4, <3>1
    <3> QED BY <1>1, <3>1, <3>2
  <2>3. PICK y \in (at[m - 1] + 1)..at[m] : y \in 1..Len(u) /\ u[y] # Space
    BY <2>2, SpreadShows
  <2>4. y \notin G
    <3>1. /\ at \in [0..n -> Nat] /\ \A i, j \in 0..n : i <= j => at[i] <= at[j]
          /\ \A i \in 1..n : ~ Splits(t, i) => at[i] = at[i - 1] + 1
      BY DEF Spread
    <3>2. /\ lo \in 1..n /\ hi \in 1..n /\ lo <= hi /\ lo - 1 \in 0..n /\ hi \in 0..n
          /\ m - 1 \in 0..n /\ m \in 0..n /\ lo \in F /\ hi \in F /\ m \in Nat
      BY <1>1, <1>4 DEF Between
    <3>3. at[lo] = lo + c /\ at[lo] = at[lo - 1] + 1 /\ at[hi] = hi + c
      BY <1>6, <1>8, <3>1, <3>2
    <3> DEFINE p == at[m - 1]
               q == at[m]
    <3>4. p \in Nat /\ q \in Nat /\ y \in (p + 1)..q /\ at[lo - 1] \in Nat /\ at[hi] \in Nat
      BY <2>3, <3>1, <3>2
    <3>5. CASE m < lo
      <4>1. m <= lo - 1
        BY <3>2, <3>5
      <4>2. q <= at[lo - 1]
        BY <3>1, <3>2, <4>1
      <4> HIDE DEF q, p
      <4>3. y <= at[lo - 1]
        BY <3>4, <4>2
      <4>4. y < lo + c
        BY <3>3, <3>4, <4>3
      <4> QED BY <1>4, <3>4, <4>4
    <3>6. CASE m > hi
      <4>1. hi <= m - 1
        BY <3>2, <3>6
      <4>2. at[hi] <= p
        BY <3>1, <3>2, <4>1
      <4> HIDE DEF q, p
      <4>3. y > hi + c
        BY <3>3, <3>4, <4>2
      <4> QED BY <1>4, <3>4, <4>3
    <3>7. m < lo \/ m > hi
      BY <1>4, <2>2, <3>2
    <3> QED BY <3>5, <3>6, <3>7
  <2>5. y \in Field(u, y)
    <3>1. y \in DOMAIN u /\ y \in Int
      BY <1>1, <2>3
    <3>2. \A l \in DOMAIN u : (y <= l /\ l <= y) \/ (y <= l /\ l <= y) => l = y
      BY <1>1, <3>1
    <3> QED BY <2>3, <3>1, <3>2 DEF Field
  <2>6. u[x] # Space
    BY <1>2, <1>3
  <2> HIDE DEF G
  <2>7. Embedded(u)
    BY <1>1, <1>9, <2>3, <2>4, <2>5, <2>6 DEF Embedded
  <2> QED BY <1>9, <2>1, <2>7 DEF KeepsUnderscores
<1> QED BY <1>5, <1>11, <1>12, <1>13

LEMMA RewrittenKeeps ==
    ASSUME NEW f, NEW c \in Seq(Token), NEW x \in 1..Len(c), KeepsUnderscores(c, x),
           ~ LooksLikeDomain(c, Field(c, x), TitleWords)
    PROVE  KeepsUnderscores(Rewrite(f, c), x)
<1> DEFINE r == Rewrite(f, c)
           F == Field(c, x)
<1>1. DOMAIN r = DOMAIN c /\ DOMAIN c = 1..Len(c)
  BY DEF Rewrite
<1>2. \A k \in DOMAIN c : /\ r[k] \in Marks \cup Hard => c[k] = r[k]
                          /\ c[k] \in Marks \cup Hard => r[k] = c[k]
  BY <1>1, RewriteShape
<1>3. \A k : Field(r, k) = Field(c, k)
  BY RewriteFields
<1>4. F \subseteq DOMAIN c /\ Space \in Marks /\ "backslash" \in Marks
      /\ Net \cup Slashed \cup Coded \cup CodedHead \cup CodedTail \subseteq Hard
  BY LexiconAssumption DEF Field, Marks
<1> HIDE DEF r
<1>5. Embedded(c) => Embedded(r)
  BY <1>1, <1>2, <1>3, <1>4 DEF Embedded
<1>6. \/ \E j \in F : c[j] \in Net \cup Slashed \cup {"backslash"}
      \/ Embedded(c) /\ \E j \in F : CodeAt(c, F, j)
  BY DEF KeepsUnderscores
<1>7. Field(r, x) = F
  BY <1>3
<1> HIDE DEF F
<1>8. \/ \E j \in F : r[j] \in Net \cup Slashed \cup {"backslash"}
      \/ Embedded(r) /\ \E j \in F : CodeAt(r, F, j)
  BY <1>2, <1>4, <1>5, <1>6 DEF CodeAt
<1> QED BY <1>7, <1>8 DEF KeepsUnderscores, r

(* No address with underscores is left.                                       *)
NoAddress(c) ==
    \A i \in DOMAIN c : c[i] \in DOMAIN Pieces => ~ LooksLikeDomain(c, Field(c, i), TitleWords)

LEMMA StripShows ==
    ASSUME NEW t \in Seq(Token), Shows(t)
    PROVE  /\ StripNoise(t) \in Seq(Token) /\ Shows(StripNoise(t))
           /\ Visible(t) => Visible(StripNoise(t))
<1>1. CASE StripNoise(t) = t
  BY <1>1
<1>2. CASE StripNoise(t) # t
  <2> DEFINE n == NoiseEnd(t)
             s == StripNoise(t)
             len == Len(t)
  <2>1. /\ n \in 1..(len - 1) /\ t[n + 1] = "[" /\ s \in Seq(Token) /\ Len(s) = len - n
        /\ \A k \in 1..Len(s) : s[k] = t[k + n]
    BY <1>2, StrippedIs
  <2>2. len \in Nat /\ DOMAIN t = 1..len /\ DOMAIN s = 1..Len(s)
    BY <2>1
  <2> HIDE DEF n, s, len
  <2>3. \A k \in DOMAIN s : k + n \in DOMAIN t /\ s[k] = t[k + n]
    BY <2>1, <2>2
  <2>4. Shows(s)
    BY <2>3 DEF Shows
  <2>5. 1 \in DOMAIN s /\ 1 + n = n + 1
    BY <2>1, <2>2
  <2>6. s[1] # Space
    BY <2>1, <2>3, <2>5 DEF Space
  <2> QED BY <2>1, <2>4, <2>5, <2>6 DEF s, Visible
<1> QED BY <1>1, <1>2

(* Cleanup has nothing left to do.                                            *)
LEMMA CleanupOnce ==
    ASSUME NEW f, NEW t \in Seq(Token), Shows(t), NoAddress(Cleanup(f, t))
    PROVE  LET r == Rewrite(f, Cleanup(f, t)) IN Cleanup(f, r) = r
<1> DEFINE c == Cleanup(f, t)
           r == Rewrite(f, c)
           s == IF "noise" \in f.clean THEN StripNoise(t) ELSE t
           u == IF "underscores" \in f.clean THEN SplitUnderscores(s) ELSE s
           s2 == IF "noise" \in f.clean THEN StripNoise(r) ELSE r
           u2 == IF "underscores" \in f.clean THEN SplitUnderscores(s2) ELSE s2
<1>1. c = IF Visible(u) THEN u ELSE t
  BY DEF Cleanup
<1>2. Cleanup(f, r) = IF Visible(u2) THEN u2 ELSE r
  BY DEF Cleanup
<1>3. s \in Seq(Token) /\ Shows(s) /\ (Visible(t) => Visible(s))
  BY StripShows
<1>4. "noise" \in f.clean => \A n \in Nat : ~ Noisy(s, n)
  BY StrippedIsClean
<1> HIDE DEF s
<1>5. "underscores" \in f.clean => \E at : Spread(s, u, at)
  BY <1>3, SplitSpreads
<1>6. u \in Seq(Token)
  BY <1>3, SplitSpreads
<1>7. "underscores" \notin f.clean => u = s
  OBVIOUS
<1> HIDE DEF u
<1>8. c \in Seq(Token)
  BY <1>1, <1>6
<1> HIDE DEF c
<1>9. /\ r \in Seq(Token) /\ Len(r) = Len(c) /\ DOMAIN r = DOMAIN c
      /\ DOMAIN c = 1..Len(c)
  <2>1. r \in Seq(Token) /\ Len(r) = Len(c)
    BY <1>8, RewriteIs
  <2> HIDE DEF r
  <2> QED BY <1>8, <2>1
<1>10. \A i \in 1..Len(c) : r[i] \in Marks \cup Hard => c[i] = r[i]
  BY <1>8, RewriteShape
<1>11. CASE Visible(u)
  <2>1. c = u
    BY <1>1, <1>11
  <2>2. ASSUME "noise" \in f.clean, NEW n \in Nat PROVE ~ Noisy(r, n)
    <3> SUFFICES ASSUME Noisy(r, n) PROVE FALSE
      OBVIOUS
    <3>1. Noisy(u, n)
      BY <1>8, <2>1, RewriteIsClean
    <3> HIDE DEF r
    <3>2. Noisy(s, n)
      <4>1. CASE "underscores" \in f.clean
        BY <1>3, <1>5, <1>6, <3>1, <4>1, SpreadIsClean
      <4>2. CASE "underscores" \notin f.clean
        BY <1>7, <3>1, <4>2
      <4> QED BY <4>1, <4>2
    <3> QED BY <1>4, <2>2, <3>2
  <2>3. s2 = r
    <3> HIDE DEF r
    <3> QED BY <1>9, <2>2, StripsIff
  <2>4. ASSUME "underscores" \in f.clean, NEW i \in DOMAIN r PROVE ~ Splits(r, i)
    <3> SUFFICES ASSUME r[i] \in DOMAIN Pieces PROVE KeepsUnderscores(r, i)
      BY DEF Splits
    <3>1. i \in 1..Len(c) /\ c[i] = r[i]
      BY <1>9, <1>10, LexiconAssumption
    <3>2. PICK at : Spread(s, u, at)
      BY <1>5, <2>4
    <3>3. ~ LooksLikeDomain(c, Field(c, i), TitleWords) /\ c[i] \in DOMAIN Pieces
      <4>1. NoAddress(c)
        BY DEF c
      <4> QED BY <1>9, <3>1, <4>1 DEF NoAddress
    <3>4. KeepsUnderscores(c, i)
      <4> HIDE DEF r
      <4> QED BY <1>3, <1>6, <2>1, <3>1, <3>2, <3>3, KeepsAgain
    <3> QED BY <1>8, <3>1, <3>3, <3>4, RewrittenKeeps
  <2>5. u2 = r
    <3> HIDE DEF r, s2
    <3> QED BY <1>9, <2>3, <2>4, SplitNothing
  <2> HIDE DEF r, u2
  <2> QED BY <1>2, <2>5 DEF r, c
<1>12. CASE ~ Visible(u)
  <2>1. c = t
    BY <1>1, <1>12
  <2>2. ~ Visible(s)
    <3>1. CASE "underscores" \notin f.clean
      BY <1>7, <1>12, <3>1
    <3>2. CASE "underscores" \in f.clean
      <4> SUFFICES ASSUME Visible(s) PROVE FALSE
        OBVIOUS
      <4>1. PICK at : Spread(s, u, at)
        BY <1>5, <3>2
      <4>2. PICK m \in DOMAIN s : s[m] # Space
        BY DEF Visible
      <4>3. m \in 1..Len(s)
        BY <1>3
      <4>4. \E y \in (at[m - 1] + 1)..at[m] : y \in 1..Len(u) /\ u[y] # Space
        BY <1>3, <1>6, <4>1, <4>2, <4>3, SpreadShows
      <4>5. DOMAIN u = 1..Len(u)
        BY <1>6
      <4> QED BY <1>12, <4>4, <4>5 DEF Visible
    <3> QED BY <3>1, <3>2
  <2>3. \A i \in DOMAIN c : c[i] = Space
    BY <1>3, <2>1, <2>2 DEF Visible
  <2>4. \A i \in DOMAIN r : r[i] = Space
    <3>1. \A i \in 1..Len(c) : c[i] \in Marks \cup Hard => r[i] = c[i]
      BY <1>8, RewriteShape
    <3> HIDE DEF r
    <3> QED BY <1>9, <2>3, <3>1 DEF Marks
  <2> HIDE DEF r
  <2>5. \A n \in Nat : ~ Noisy(r, n)
    <3> SUFFICES ASSUME NEW n \in Nat, Noisy(r, n) PROVE FALSE
      OBVIOUS
    <3>1. n \in 1..(Len(r) - 1) /\ r[n + 1] = "["
      BY DEF Noisy
    <3>2. n + 1 \in DOMAIN r
      BY <1>9, <3>1
    <3> QED BY <2>4, <3>1, <3>2 DEF Space
  <2>6. s2 = r
    BY <1>9, <2>5, StripsIff
  <2>7. \A i \in DOMAIN r : ~ Splits(r, i)
    BY <2>4, LexiconAssumption DEF Splits, Marks
  <2>8. u2 = r
    <3> HIDE DEF s2
    <3> QED BY <1>9, <2>6, <2>7, SplitNothing
  <2> HIDE DEF u2
  <2> QED BY <1>2, <2>8 DEF r, c
<1> QED BY <1>11, <1>12

LEMMA NormalizeTwice ==
    ASSUME NEW f, NEW t \in Seq(Token), Shows(t), NoAddress(Cleanup(f, t))
    PROVE  Normalize(f, Normalize(f, t)) = Normalize(f, t)
<1> DEFINE c == Cleanup(f, t)
           r == Rewrite(f, c)
<1>1. c \in Seq(Token)
  <2>1. PICK w \in Token : TRUE
    BY DEF Token, Marks
  <2> DEFINE s == IF "noise" \in f.clean THEN StripNoise(t) ELSE t
             u == IF "underscores" \in f.clean THEN SplitUnderscores(s) ELSE s
  <2>2. s \in Seq(Token)
    BY StripShows
  <2> HIDE DEF s
  <2>3. u \in Seq(Token)
    BY <2>2, SplitSpreads
  <2> HIDE DEF u
  <2>4. c = IF Visible(u) THEN u ELSE t
    BY DEF Cleanup, s, u
  <2> QED BY <2>3, <2>4
<1>2. Cleanup(f, r) = r
  BY CleanupOnce
<1>3. Rewrite(f, r) = r
  BY <1>1, RewriteOnce
<1> HIDE DEF c, r
<1>4. Normalize(f, t) = r /\ Normalize(f, r) = Rewrite(f, Cleanup(f, r))
  BY DEF Normalize, r, c
<1> QED BY <1>2, <1>3, <1>4

(* Normalizing again changes nothing, in any title without a word of nothing but
   underscores and of which no address with underscores is left (Normalize).  *)
THEOREM IdempotentTheorem == TitlesSpec => []IdempotentOnOthers
<1>1. TitlesInit => NormalizedInv
  BY LexiconAssumption DEF TitlesInit, NormalizedInv
<1>2. NormalizedInv /\ [TitlesNext]_titleVars => NormalizedInv'
  BY NormalizedKept
<1>3. NormalizedInv => IdempotentOnOthers
  <2> SUFFICES ASSUME NormalizedInv, step = "twice", Shows(title), NoAddress(Cleanup(file, title))
               PROVE  results[2] = results[1]
    BY DEF IdempotentOnOthers, Shows, NoAddress
  <2> QED BY NormalizeTwice DEF NormalizedInv
<1> QED BY <1>1, <1>2, <1>3, PTL DEF TitlesSpec

=============================================================================
