--------------------------- MODULE CoursesStoreProofs ---------------------------
(***************************************************************************)
(* Proofs about the two halves of the search worker.  What it stores       *)
(* (CoursesStore), for every set of versions and contents: what holds for  *)
(* any number of tabs, and what holds as long as one is opened.  What it   *)
(* finds (CatalogSearch), for every catalogue and every query.             *)
(***************************************************************************)
EXTENDS CoursesStore, CatalogSearch, FiniteSetTheorems, SequenceTheorems, TLAPS

-----------------------------------------------------------------------------
(* Any number of tabs.                                                     *)

PairInv == TypeOK /\ RecordsPaired

LEMMA InitPaired == Init => PairInv
  BY DEF Init, PairInv, TypeOK, RecordsPaired, Labels

LEMMA TabStepPaired ==
  ASSUME PairInv, NEW t \in Tabs, TabStep(t), UNCHANGED users
  PROVE  PairInv'
<1> USE DEF PairInv, TypeOK, RecordsPaired, Labels, Goto, Begin, Respond, store
<1>1. CASE OpenTab(t)
  BY <1>1 DEF OpenTab
<1>2. CASE AskImport(t)
  <2>1. PICK v \in Versions, c \in Contents : Begin(t, "import_open", v, c)
    BY <1>2 DEF AskImport
  <2>2. v # None /\ c # None
    BY StoreAssumption
  <2>3. QED
    BY <1>2, <2>1, <2>2 DEF AskImport
<1>3. CASE AskForget(t)
  BY <1>3 DEF AskForget
<1>4. CASE OpenDatabase(t)
  BY <1>4 DEF OpenDatabase
<1>5. CASE ReadState(t)
  BY <1>5 DEF ReadState
<1>6. CASE ReadRecords(t)
  <2>1. version[t] \in Versions
    BY <1>6 DEF ReadRecords
  <2>2. QED
    BY <1>6, <2>1 DEF ReadRecords
<1>7. CASE Persist(t)
  <2>1. version[t] \in Versions /\ content[t] \in Contents
    BY <1>7 DEF Persist
  <2>2. QED
    BY <1>7, <2>1 DEF Persist
<1>8. CASE Clear(t)
  BY <1>8 DEF Clear
<1>9. CASE Cleared(t)
  BY <1>9 DEF Cleared
<1>10. CASE Prune(t)
  BY <1>10 DEF Prune
<1>11. CASE FailRequest(t)
  BY <1>11 DEF FailRequest
<1>12. CASE CloseTab(t)
  BY <1>12 DEF CloseTab
<1>13. QED
  BY <1>1, <1>2, <1>3, <1>4, <1>5, <1>6, <1>7, <1>8, <1>9, <1>10, <1>11, <1>12
     DEF TabStep

LEMMA NextPaired == PairInv /\ [Next]_vars => PairInv'
<1>1. SUFFICES ASSUME PairInv, [Next]_vars PROVE PairInv'
  OBVIOUS
<1>2. CASE \E t \in users : TabStep(t) /\ UNCHANGED users
  <2>1. users \subseteq Tabs
    BY <1>1 DEF PairInv, TypeOK
  <2>2. QED
    BY <1>1, <1>2, <2>1, TabStepPaired
<1>3. CASE UNCHANGED vars
  BY <1>1, <1>3 DEF vars, store, PairInv, TypeOK, RecordsPaired
<1>4. QED
  BY <1>1, <1>2, <1>3 DEF Next

LEMMA PairInvariant == Spec => []PairInv
  BY InitPaired, NextPaired, PTL DEF Spec

\* The records keep their shape, and a request in progress its arguments.
THEOREM StoreTypeCorrect == Spec => []TypeOK
<1>1. PairInv => TypeOK
  BY DEF PairInv
<1>2. QED
  BY <1>1, PairInvariant, PTL

\* Any number of tabs: a catalogue and the index under its version always
\* belong together.
THEOREM RecordsAlwaysPaired == Spec => []RecordsPaired
<1>1. PairInv => RecordsPaired
  BY DEF PairInv
<1>2. QED
  BY <1>1, PairInvariant, PTL

-----------------------------------------------------------------------------
(* One tab.                                                                *)

StaleInv ==
  /\ NothingStale
  /\ OneTab => \A t \in users : pc[t] = "cleared" => Stored = {}

OneTabInv == TypeOK /\ StoreInv /\ SearchesTheCopy /\ StaleInv

LEMMA InitOneTab == Init => OneTabInv
<1>1. SUFFICES ASSUME Init PROVE OneTabInv
  OBVIOUS
<1>2. TypeOK /\ RecordsPaired
  BY <1>1, InitPaired DEF PairInv
<1>3. Stored = {}
  BY <1>1 DEF Init, Stored
<1>4. StoreInv /\ SearchesTheCopy /\ StaleInv
  BY <1>1, <1>2, <1>3
     DEF Init, StoreInv, ActiveReadable, SearchesTheCopy, StaleInv, NothingStale
<1>5. QED
  BY <1>2, <1>4 DEF OneTabInv

LEMMA TabStepOneTab ==
  ASSUME OneTab, OneTabInv, NEW t \in users, TabStep(t), UNCHANGED users
  PROVE  OneTabInv'
<1>1. TypeOK' /\ RecordsPaired'
  BY TabStepPaired DEF OneTabInv, StoreInv, PairInv, TypeOK
<1>2. /\ users' = users /\ \A u \in users : u = t
      /\ t \in Tabs
      /\ pc \in [Tabs -> Labels] /\ version \in [Tabs -> Versions \cup {None}]
      /\ content \in [Tabs -> Contents \cup {None}]
      /\ runtime \in [Tabs -> Contents \cup {None}]
      /\ answer \in [Tabs -> {"none", "ok", "failed"}]
      /\ warned \in [Tabs -> BOOLEAN]
  BY DEF OneTab, OneTabInv, TypeOK
<1> USE DEF OneTab, OneTabInv, StoreInv, ActiveReadable, SearchesTheCopy, StaleInv,
            NothingStale, Goto, Begin, Respond, store, Labels, Stored
<1>3. CASE OpenTab(t)
  BY <1>1, <1>2, <1>3 DEF OpenTab
<1>4. CASE AskImport(t)
  BY <1>1, <1>2, <1>4 DEF AskImport
<1>5. CASE AskForget(t)
  BY <1>1, <1>2, <1>5 DEF AskForget
<1>6. CASE OpenDatabase(t)
  BY <1>1, <1>2, <1>6 DEF OpenDatabase
<1>7. CASE ReadState(t)
  BY <1>1, <1>2, <1>7 DEF ReadState
<1>8. CASE ReadRecords(t)
  <2>1. version[t] = active /\ active # None /\ runtime[t] = None
    BY <1>8 DEF ReadRecords, TypeOK
  <2>2. CASE /\ catalogs[version[t]] # None
             /\ runtime' = [runtime EXCEPT ![t] = catalogs[version[t]]]
             /\ Goto(t, "prune")
             /\ UNCHANGED <<version, content, answer>>
    BY <1>1, <1>2, <1>8, <2>1, <2>2 DEF ReadRecords
  <2>3. CASE Respond(t, "failed") /\ UNCHANGED runtime
    BY <1>1, <1>2, <1>8, <2>1, <2>3 DEF ReadRecords
  <2>4. QED
    BY <1>8, <2>2, <2>3 DEF ReadRecords
<1>9. CASE Persist(t)
  <2>1. version[t] \in Versions /\ content[t] \in Contents /\ content[t] # None
        /\ version[t] # None
    BY <1>9, StoreAssumption DEF Persist, TypeOK
  <2>2. /\ catalogs' = [catalogs EXCEPT ![version[t]] = content[t]]
        /\ catalogs \in [Versions -> Contents \cup {None}]
    BY <1>9 DEF Persist, TypeOK
  <2>3. catalogs'[version[t]] = content[t]
    BY <2>1, <2>2
  <2>4. QED
    BY <1>1, <1>2, <1>9, <2>1, <2>3 DEF Persist
<1>10. CASE Clear(t)
  <2>1. Stored' = {}
    BY <1>10 DEF Clear
  <2>2. QED
    BY <1>1, <1>2, <1>10, <2>1 DEF Clear
<1>11. CASE Cleared(t)
  BY <1>1, <1>2, <1>11 DEF Cleared
<1>12. CASE Prune(t)
  <2>1. version[t] = active /\ active \in Versions
    BY <1>12 DEF Prune, TypeOK
  <2>2. catalogs'[active] = catalogs[active]
    BY <1>12, <2>1 DEF Prune, TypeOK
  <2>3. CASE UNCHANGED warned
    <3>1. warned'[t] \/ Stored' \subseteq {active}
      BY <1>2, <1>12, <2>1, <2>3 DEF Prune
    <3>2. QED
      BY <1>1, <1>2, <1>12, <2>1, <2>2, <3>1 DEF Prune
  <2>4. CASE warned' = [warned EXCEPT ![t] = TRUE]
    BY <1>1, <1>2, <1>12, <2>1, <2>2, <2>4 DEF Prune
  <2>5. QED
    BY <1>12, <2>3, <2>4 DEF Prune
<1>13. CASE FailRequest(t)
  BY <1>1, <1>2, <1>13 DEF FailRequest
<1>14. CASE CloseTab(t)
  BY <1>1, <1>2, <1>14 DEF CloseTab
<1>15. QED
  BY <1>3, <1>4, <1>5, <1>6, <1>7, <1>8, <1>9, <1>10, <1>11, <1>12, <1>13, <1>14
     DEF TabStep

LEMMA OneTabInvariant == Spec => []OneTabInv
<1>1. Init => OneTabInv
  BY InitOneTab
<1>2. OneTabInv /\ [Next]_vars => OneTabInv'
  <2>1. SUFFICES ASSUME OneTabInv, [Next]_vars PROVE OneTabInv'
    OBVIOUS
  <2>2. CASE \E t \in users : TabStep(t) /\ UNCHANGED users
    <3>1. CASE OneTab
      BY <2>1, <2>2, <3>1, TabStepOneTab
    <3>2. CASE ~ OneTab
      <4>1. TypeOK' /\ RecordsPaired'
        BY <2>1, <2>2, TabStepPaired DEF OneTabInv, StoreInv, PairInv, TypeOK
      <4>2. ~ OneTab'
        BY <2>2, <3>2 DEF OneTab
      <4>3. QED
        BY <4>1, <4>2 DEF OneTabInv, StoreInv, SearchesTheCopy, StaleInv, NothingStale
    <3>3. QED
      BY <3>1, <3>2
  <2>3. CASE UNCHANGED vars
    BY <2>1, <2>3 DEF vars, store, OneTab, OneTabInv, TypeOK, StoreInv, RecordsPaired,
       ActiveReadable, SearchesTheCopy, StaleInv, NothingStale, Stored
  <2>4. QED
    BY <2>1, <2>2, <2>3 DEF Next
<1>3. QED
  BY <1>1, <1>2, PTL DEF Spec

\* One tab: the active version has its records and no request in progress is
\* about to delete them.
THEOREM StoreConsistent == Spec => []StoreInv
<1>1. OneTabInv => StoreInv
  BY DEF OneTabInv
<1>2. QED
  BY <1>1, OneTabInvariant, PTL

\* One tab: what is searched is what is stored.
THEOREM SearchesTheStoredCopy == Spec => []SearchesTheCopy
<1>1. OneTabInv => SearchesTheCopy
  BY DEF OneTabInv
<1>2. QED
  BY <1>1, OneTabInvariant, PTL

\* One tab: a request that succeeded without a warning leaves one version.
THEOREM NothingStaleStays == Spec => []NothingStale
<1>1. OneTabInv => NothingStale
  BY DEF OneTabInv, StaleInv
<1>2. QED
  BY <1>1, OneTabInvariant, PTL

-----------------------------------------------------------------------------
(* The worker of one tab implements the copy.                              *)

\* A boot brings nothing, an import its contents, to the end of its pruning.
WantedInv ==
  \A t \in Tabs :
    pc[t] \in {"boot_open", "read_state", "read_records", "forget_open", "clear",
              "cleared", "idle", "closed"} => content[t] = None

LEMMA StepWanted ==
  ASSUME TypeOK, WantedInv, [Next]_vars
  PROVE  WantedInv'
<1> USE DEF WantedInv, TypeOK, Goto, Begin, Respond
<1>1. CASE \E t \in users : TabStep(t) /\ UNCHANGED users
  <2>1. PICK t \in Tabs : TabStep(t)
    BY <1>1
  <2>2. CASE OpenTab(t) \/ AskForget(t) \/ CloseTab(t)
    BY <2>2 DEF OpenTab, AskForget, CloseTab
  <2>3. CASE AskImport(t)
    BY <2>3 DEF AskImport
  <2>4. CASE OpenDatabase(t)
    BY <2>4 DEF OpenDatabase
  <2>5. CASE ReadState(t) \/ ReadRecords(t)
    BY <2>5 DEF ReadState, ReadRecords
  <2>6. CASE Persist(t) \/ Clear(t) \/ Cleared(t)
    BY <2>6 DEF Persist, Clear, Cleared
  <2>7. CASE Prune(t) \/ FailRequest(t)
    BY <2>7 DEF Prune, FailRequest
  <2>8. QED
    BY <2>1, <2>2, <2>3, <2>4, <2>5, <2>6, <2>7 DEF TabStep
<1>2. CASE UNCHANGED vars
  BY <1>2 DEF vars
<1>3. QED
  BY <1>1, <1>2 DEF Next

copyVars == <<StoredCopy, Request, Brings, Done, Answered>>

\* Each action of the worker is a step of the copy or stutters: an import takes
\* effect in Persist, a forget in Clear, and Prune is only an answer.
LEMMA TabStepCopy ==
  ASSUME OneTab, OneTabInv, WantedInv, NEW t \in users, TabStep(t), UNCHANGED users
  PROVE  Copy!Next \/ UNCHANGED copyVars
<1>1. Only = t /\ Only' = t /\ OneTab /\ OneTab' /\ t \in Tabs
  BY DEF OneTab, Only, OneTabInv, TypeOK
<1>2. /\ pc \in [Tabs -> Labels] /\ answer \in [Tabs -> {"none", "ok", "failed"}]
      /\ content \in [Tabs -> Contents \cup {None}]
      /\ version \in [Tabs -> Versions \cup {None}]
      /\ catalogs \in [Versions -> Contents \cup {None}]
      /\ active \in Versions \cup {None}
  BY DEF OneTabInv, TypeOK
<1> USE DEF Goto, Begin, Respond, store, Request, copyVars, StoredCopy, Brings, Done, Answered
<1>3. CASE OpenTab(t)
  BY <1>1, <1>2, <1>3 DEF OpenTab, Copy!Next, Copy!Ask
<1>4. CASE AskImport(t)
  BY <1>1, <1>2, <1>4 DEF AskImport, Copy!Next, Copy!Ask
<1>5. CASE AskForget(t)
  BY <1>1, <1>2, <1>5 DEF AskForget, Copy!Next, Copy!Ask
<1>6. CASE OpenDatabase(t)
  BY <1>1, <1>2, <1>6 DEF OpenDatabase
<1>7. CASE ReadState(t)
  BY <1>1, <1>2, <1>7 DEF ReadState, Copy!Next, Copy!Answer, WantedInv
<1>8. CASE ReadRecords(t)
  BY <1>1, <1>2, <1>8 DEF ReadRecords, Copy!Next, Copy!Answer, WantedInv
<1>9. CASE Persist(t)
  <2>1. version[t] \in Versions /\ version[t] # None /\ content[t] # None
    BY <1>2, <1>9 DEF Persist, OneTabInv, TypeOK
  <2>2. StoredCopy' = content[t] /\ ~ Done /\ Done' /\ Request = "import"
        /\ Request' = "import"
    BY <1>1, <1>2, <1>9, <2>1 DEF Persist
  <2>3. UNCHANGED <<Brings, Answered>>
    BY <1>1, <1>9 DEF Persist
  <2>4. QED
    BY <1>1, <2>2, <2>3 DEF Copy!Next, Copy!Effect
<1>10. CASE Clear(t)
  BY <1>1, <1>2, <1>10 DEF Clear, Copy!Next, Copy!Effect
<1>11. CASE Cleared(t)
  BY <1>1, <1>2, <1>11 DEF Cleared, Copy!Next, Copy!Answer
<1>12. CASE Prune(t)
  <2>1. version[t] = active /\ active \in Versions /\ active # None
    BY <1>2, <1>12 DEF Prune, OneTabInv, TypeOK, StoreInv
  <2>2. UNCHANGED StoredCopy
    BY <1>1, <1>2, <1>12, <2>1 DEF Prune
  <2>3. QED
    BY <1>1, <1>2, <1>12, <2>2 DEF Prune, Copy!Next, Copy!Answer
<1>13. CASE FailRequest(t)
  BY <1>1, <1>2, <1>13 DEF FailRequest, Copy!Next, Copy!Answer
<1>14. CASE CloseTab(t)
  BY <1>1, <1>2, <1>14 DEF CloseTab, Copy!Next, Copy!Close
<1>15. QED
  BY <1>3, <1>4, <1>5, <1>6, <1>7, <1>8, <1>9, <1>10, <1>11, <1>12, <1>13, <1>14
     DEF TabStep

\* One tab, the worker implements the copy: replaced or removed in one step,
\* with answers that tell the truth about it.
THEOREM ImplementsCopy == Spec => CopySpec
<1>1. Init => Copy!Init /\ WantedInv
  <2>1. SUFFICES ASSUME Init PROVE Copy!Init /\ WantedInv
    OBVIOUS
  <2>2. Only \in Tabs
    BY <2>1 DEF Init, Only
  <2>3. QED
    BY <2>1, <2>2
       DEF Init, Copy!Init, WantedInv, StoredCopy, Request, Brings, Done, Answered
<1>2. OneTabInv /\ WantedInv /\ [Next]_vars => WantedInv' /\ [Copy!Next]_copyVars
  <2>1. SUFFICES ASSUME OneTabInv, WantedInv, [Next]_vars
                 PROVE  WantedInv' /\ [Copy!Next]_copyVars
    OBVIOUS
  <2>2. WantedInv'
    BY <2>1, StepWanted DEF OneTabInv
  <2>3. CASE OneTab /\ \E t \in users : TabStep(t) /\ UNCHANGED users
    BY <2>1, <2>2, <2>3, TabStepCopy
  <2>4. CASE ~ OneTab /\ UNCHANGED users
    BY <2>2, <2>4 DEF OneTab, copyVars, StoredCopy, Request, Brings, Done, Answered
  <2>5. CASE UNCHANGED vars
    BY <2>2, <2>5 DEF vars, store, OneTab, Only, copyVars, StoredCopy, Request, Brings, Done,
                      Answered
  <2>6. QED
    BY <2>1, <2>3, <2>4, <2>5 DEF Next
<1>3. QED
  BY <1>1, <1>2, OneTabInvariant, PTL DEF Spec, CopySpec, Copy!Spec, copyVars

-----------------------------------------------------------------------------
(* Any catalogue, any filters, any order: what a search finds               *)
(* (CatalogSearch).                                                        *)

Sorts == [field : Fields, direction : {"asc", "desc"}, explicit : BOOLEAN]

\* A comparison of three things that agrees with itself.
Agrees(xx, xy, yx, yz, xz) ==
  /\ xx = 0
  /\ xy \in {-1, 0, 1} /\ yx = -xy
  /\ xy \in {-1, 0} /\ yz \in {-1, 0} => xz \in {-1, 0} /\ (xz = 0 => xy = 0 /\ yz = 0)

LEMMA SignAgrees ==
  ASSUME NEW x \in Int, NEW y \in Int, NEW z \in Int, NEW d \in {1, -1}
  PROVE  /\ Agrees(Sign(x - x) * d, Sign(x - y) * d, Sign(y - x) * d, Sign(y - z) * d, Sign(x - z) * d)
         /\ Agrees(Sign(x - x), Sign(x - y), Sign(y - x), Sign(y - z), Sign(x - z))
<1>1. CASE d = 1
  BY <1>1 DEF Sign, Agrees
<1>2. CASE d = -1
  BY <1>2 DEF Sign, Agrees
<1> QED BY <1>1, <1>2

LEMMA NullableAgrees ==
  ASSUME NEW m, NEW x \in Int \cup {m}, NEW y \in Int \cup {m}, NEW z \in Int \cup {m}, NEW d \in {1, -1}
  PROVE  Agrees(CompareNullable(x, x, m, d), CompareNullable(x, y, m, d), CompareNullable(y, x, m, d),
                CompareNullable(y, z, m, d), CompareNullable(x, z, m, d))
<1>1. CASE d = 1
  BY <1>1 DEF CompareNullable, Sign, Agrees
<1>2. CASE d = -1
  BY <1>2 DEF CompareNullable, Sign, Agrees
<1> QED BY <1>1, <1>2

LEMMA EntryFields ==
  ASSUME NEW e \in Entry
  PROVE  /\ e.id \in Int /\ e.title \in Int /\ e.author \in Int
         /\ e.year \in Int \cup {Null} /\ e.added \in Int
  BY DEF Entry

LEMMA FieldAgrees ==
  ASSUME NEW s \in Sorts, NEW a, NEW b, NEW c,
         a.entry \in Entry, b.entry \in Entry, c.entry \in Entry,
         a.score \in Int, b.score \in Int, c.score \in Int
  PROVE  Agrees(FieldOrder(a, a, s), FieldOrder(a, b, s), FieldOrder(b, a, s),
                FieldOrder(b, c, s), FieldOrder(a, c, s))
<1> DEFINE d == IF s.direction = "asc" THEN 1 ELSE -1
<1>1. d \in {1, -1} /\ s.field \in Fields
  BY DEF Sorts
<1>2. \A e \in Entry :
        /\ e.title \in Int \cup {0} /\ e.author \in Int \cup {0}
        /\ e.year \in Int \cup {Null} /\ e.added \in Int \cup {Null}
  BY EntryFields
<1>3. CASE s.field = "relevance"
  <2>1. \A x, y : FieldOrder(x, y, s) = Sign(x.score - y.score) * d
    BY <1>3 DEF FieldOrder
  <2> QED BY <1>1, <2>1, SignAgrees
<1>4. CASE s.field = "title"
  <2>1. \A x, y : FieldOrder(x, y, s) = CompareNullable(x.entry.title, y.entry.title, 0, d)
    BY <1>4 DEF FieldOrder
  <2>2. /\ a.entry.title \in Int \cup {0} /\ b.entry.title \in Int \cup {0}
        /\ c.entry.title \in Int \cup {0}
    BY <1>2
  <2> HIDE DEF d
  <2> QED BY <1>1, <2>1, <2>2, NullableAgrees
<1>5. CASE s.field = "author"
  <2>1. \A x, y : FieldOrder(x, y, s) = CompareNullable(x.entry.author, y.entry.author, 0, d)
    BY <1>5 DEF FieldOrder
  <2>2. /\ a.entry.author \in Int \cup {0} /\ b.entry.author \in Int \cup {0}
        /\ c.entry.author \in Int \cup {0}
    BY <1>2
  <2> HIDE DEF d
  <2> QED BY <1>1, <2>1, <2>2, NullableAgrees
<1>6. CASE s.field = "year"
  <2>1. \A x, y : FieldOrder(x, y, s) = CompareNullable(x.entry.year, y.entry.year, Null, d)
    BY <1>6 DEF FieldOrder
  <2>2. /\ a.entry.year \in Int \cup {Null} /\ b.entry.year \in Int \cup {Null}
        /\ c.entry.year \in Int \cup {Null}
    BY <1>2
  <2> HIDE DEF d
  <2> QED BY <1>1, <2>1, <2>2, NullableAgrees
<1>7. CASE s.field = "added_at"
  <2>1. \A x, y : FieldOrder(x, y, s) = CompareNullable(x.entry.added, y.entry.added, Null, d)
    BY <1>7 DEF FieldOrder
  <2>2. /\ a.entry.added \in Int \cup {Null} /\ b.entry.added \in Int \cup {Null}
        /\ c.entry.added \in Int \cup {Null}
    BY <1>2
  <2> HIDE DEF d
  <2> QED BY <1>1, <2>1, <2>2, NullableAgrees
<1> QED BY <1>1, <1>3, <1>4, <1>5, <1>6, <1>7 DEF Fields

\* The comparisons of the field, the title and the identifier, one after another,
\* put different entries in one order.
LEMMA BeforeIsOrder ==
  ASSUME NEW s \in Sorts, NEW a, NEW b, NEW c,
         a.entry \in Entry, b.entry \in Entry, c.entry \in Entry,
         a.score \in Int, b.score \in Int, c.score \in Int
  PROVE  /\ ~ Before(a, a, s)
         /\ Before(a, b, s) /\ Before(b, c, s) => Before(a, c, s)
         /\ a.entry.id # b.entry.id => Before(a, b, s) \/ Before(b, a, s)
<1> DEFINE T(x, y) == Sign(x.entry.title - y.entry.title)
           I(x, y) == Sign(x.entry.id - y.entry.id)
           F(x, y) == FieldOrder(x, y, s)
<1>1. \A x, y : Before(x, y, s) <=>
        F(x, y) = -1 \/ (F(x, y) = 0 /\ (T(x, y) = -1 \/ (T(x, y) = 0 /\ I(x, y) = -1)))
  <2> SUFFICES ASSUME NEW x, NEW y
               PROVE  Before(x, y, s) <=>
        F(x, y) = -1 \/ (F(x, y) = 0 /\ (T(x, y) = -1 \/ (T(x, y) = 0 /\ I(x, y) = -1)))
    OBVIOUS
  <2> DEFINE order == << F(x, y), T(x, y), I(x, y) >>
  <2>1. Before(x, y, s) <=> \E i \in 1..3 : order[i] = -1 /\ \A j \in 1..(i - 1) : order[j] = 0
    BY DEF Before
  <2>2. order[1] = F(x, y) /\ order[2] = T(x, y) /\ order[3] = I(x, y)
    OBVIOUS
  <2> HIDE DEF order, F, T, I
  <2>3. 1..(1 - 1) = {} /\ 1..(2 - 1) = {1} /\ 1..(3 - 1) = {1, 2} /\ 1..3 = {1, 2, 3}
    OBVIOUS
  <2> QED BY <2>1, <2>2, <2>3
<1>2. Agrees(F(a, a), F(a, b), F(b, a), F(b, c), F(a, c))
  BY FieldAgrees
<1>3. /\ a.entry.title \in Int /\ b.entry.title \in Int /\ c.entry.title \in Int
      /\ a.entry.id \in Int /\ b.entry.id \in Int /\ c.entry.id \in Int
  BY EntryFields
<1>4. /\ Agrees(T(a, a), T(a, b), T(b, a), T(b, c), T(a, c))
      /\ Agrees(I(a, a), I(a, b), I(b, a), I(b, c), I(a, c))
  BY <1>3, SignAgrees
<1>5. a.entry.id # b.entry.id => I(a, b) # 0
  BY <1>3 DEF Sign
<1> HIDE DEF F, T, I
<1>6. ~ Before(a, a, s)
  BY <1>1, <1>2, <1>4 DEF Agrees
<1>7. Before(a, b, s) /\ Before(b, c, s) => Before(a, c, s)
  BY <1>1, <1>2, <1>4 DEF Agrees
<1>8. a.entry.id # b.entry.id => Before(a, b, s) \/ Before(b, a, s)
  BY <1>1, <1>2, <1>4, <1>5 DEF Agrees
<1> QED BY <1>6, <1>7, <1>8

LEMMA VisibleTyped ==
  ASSUME NEW c \in Catalogs
  PROVE  /\ VisibleEntries(c) \subseteq Entry
         /\ IsFiniteSet(VisibleEntries(c))
         /\ \A e, f \in VisibleEntries(c) : e.id = f.id => e = f
         /\ \A q \in Queries, e \in VisibleEntries(c) : Hits[q][e.id] \in Nat /\ Near[q][e.id] \in Nat
<1> DEFINE entries == c.entries
<1>1. entries \in Seq(Entry)
  BY SearchAssumption
<1>2. /\ \A i, j \in DOMAIN entries : entries[i].id = entries[j].id => i = j
      /\ \A q \in Queries, i \in DOMAIN entries :
           Hits[q][entries[i].id] \in Nat /\ Near[q][entries[i].id] \in Nat
  BY SearchAssumption
<1>3. VisibleEntries(c) \subseteq ToSet(entries)
  BY DEF VisibleEntries
<1> HIDE DEF entries
<1>4. Len(entries) \in Nat /\ DOMAIN entries = 1..Len(entries) /\ \A i \in 1..Len(entries) : entries[i] \in Entry
  BY <1>1
<1>5. [i \in 1..Len(entries) |-> entries[i]] \in Surjection(1..Len(entries), ToSet(entries))
  BY <1>4 DEF Surjection, ToSet
<1>6. IsFiniteSet(1..Len(entries))
  BY <1>4, FS_Interval
<1>7. IsFiniteSet(ToSet(entries))
  BY <1>5, <1>6, FS_Surjection
<1>8. IsFiniteSet(VisibleEntries(c))
  BY <1>3, <1>7, FS_Subset
<1>9. \A e \in VisibleEntries(c) : \E i \in DOMAIN entries : e = entries[i]
  BY <1>3 DEF ToSet
<1> QED BY <1>2, <1>4, <1>8, <1>9

LEMMA CandidatesTyped ==
  ASSUME NEW c \in Catalogs, NEW q \in Queries \cup {Null}, NEW f
  PROVE  /\ IsFiniteSet(Candidates(c, q, f))
         /\ \A a \in Candidates(c, q, f) : a.entry \in VisibleEntries(c) /\ a.score \in Nat
         /\ \A a, b \in Candidates(c, q, f) : a.entry.id = b.entry.id => a = b
<1> DEFINE Of(W, n) == {[entry |-> e, score |-> n[e]] : e \in W}
           visible == VisibleEntries(c)
<1>1. \E W \in SUBSET visible : \E n \in [W -> Nat] : Scores(c, q) = Of(W, n)
  <2>1. CASE q = Null
    <3>1. [e \in visible |-> 0] \in [visible -> Nat]
      OBVIOUS
    <3>2. Scores(c, q) = Of(visible, [e \in visible |-> 0])
      BY <2>1 DEF Scores
    <3> QED BY <3>1, <3>2
  <2>2. CASE q # Null
    <3> DEFINE W(hits) == {e \in visible : hits[q][e.id] > 0}
               n(hits) == [e \in W(hits) |-> hits[q][e.id]]
    <3>1. n(Hits) \in [W(Hits) -> Nat] /\ n(Near) \in [W(Near) -> Nat]
      BY <2>2, VisibleTyped
    <3>2. Scores(c, q) = Of(W(Near), n(Near)) \/ Scores(c, q) = Of(W(Hits), n(Hits))
      BY <2>2 DEF Scores
    <3>3. W(Hits) \in SUBSET visible /\ W(Near) \in SUBSET visible
      OBVIOUS
    <3> HIDE DEF W, n, Of
    <3> QED BY <3>1, <3>2, <3>3
  <2> QED BY <2>1, <2>2
<1>2. PICK W \in SUBSET visible : \E n \in [W -> Nat] : Scores(c, q) = Of(W, n)
  BY <1>1
<1>3. PICK n \in [W -> Nat] : Scores(c, q) = Of(W, n)
  BY <1>2
<1>4. Candidates(c, q, f) \subseteq Of(W, n)
  BY <1>3 DEF Candidates
<1>5. \A a \in Candidates(c, q, f) : a.entry \in W /\ a = [entry |-> a.entry, score |-> n[a.entry]]
  BY <1>4
<1>6. \A a \in Candidates(c, q, f) : a.entry \in visible /\ a.score \in Nat
  BY <1>5
<1>7. \A a, b \in Candidates(c, q, f) : a.entry.id = b.entry.id => a = b
  <2>1. \A a, b \in Candidates(c, q, f) : a.entry.id = b.entry.id => a.entry = b.entry
    BY <1>6, VisibleTyped
  <2> QED BY <1>5, <2>1
<1>8. [a \in Candidates(c, q, f) |-> a.entry] \in Injection(Candidates(c, q, f), visible)
  BY <1>6, <1>7 DEF Injection, IsInjective
<1>9. IsFiniteSet(Candidates(c, q, f))
  BY <1>8, VisibleTyped, FS_Injection
<1> QED BY <1>6, <1>7, <1>9

\* In a finite set with an order, one has none before it, one has one, and so on.
LEMMA Places ==
  ASSUME NEW S, IsFiniteSet(S), NEW s,
         \A a \in S : ~ Before(a, a, s),
         \A a, b, c \in S : Before(a, b, s) /\ Before(b, c, s) => Before(a, c, s),
         \A a, b \in S : a # b => Before(a, b, s) \/ Before(b, a, s)
  PROVE  /\ Cardinality(S) \in Nat
         /\ \A i \in 1..Cardinality(S) : \E a \in S : Ahead(a, S, s) = i - 1
         /\ \A a \in S : Ahead(a, S, s) + 1 \in 1..Cardinality(S) /\ Ahead(a, S, s) \in Nat
         /\ \A a, b \in S : Ahead(a, S, s) = Ahead(b, S, s) => a = b
<1> DEFINE A(a) == {b \in S : Before(b, a, s)}
           place == [a \in S |-> Ahead(a, S, s) + 1]
           N == Cardinality(S)
           R(a) == Ahead(a, S, s)
<1>2. N \in Nat
  BY FS_CardinalityType
<1>3. ASSUME NEW a \in S
      PROVE  /\ R(a) = Cardinality(A(a)) /\ IsFiniteSet(A(a))
             /\ R(a) \in Nat /\ R(a) <= N - 1
  <2>1. A(a) \in SUBSET (S \ {a}) /\ A(a) \in SUBSET S
    OBVIOUS
  <2>2. IsFiniteSet(S \ {a}) /\ Cardinality(S \ {a}) = N - 1
    BY <1>3, FS_RemoveElement
  <2>3. IsFiniteSet(A(a)) /\ Cardinality(A(a)) <= N - 1
    BY <2>1, <2>2, FS_Subset
  <2>4. R(a) = Cardinality(A(a))
    BY DEF Ahead
  <2>5. Cardinality(A(a)) \in Nat
    BY <2>3, FS_CardinalityType
  <2> HIDE DEF A, R
  <2> QED BY <2>3, <2>4, <2>5
<1>4. ASSUME NEW a \in S, NEW b \in S, Before(a, b, s)
      PROVE  R(a) < R(b)
  <2>1. A(a) \in SUBSET A(b) /\ a \in A(b) /\ a \notin A(a)
    BY <1>4
  <2>2. /\ IsFiniteSet(A(b)) /\ R(a) \in Nat /\ R(b) \in Nat
        /\ R(a) = Cardinality(A(a)) /\ R(b) = Cardinality(A(b))
    BY <1>3
  <2> HIDE DEF R, A
  <2>3. Cardinality(A(a)) <= Cardinality(A(b)) /\ (Cardinality(A(b)) = Cardinality(A(a)) => A(b) = A(a))
    BY <2>1, <2>2, FS_Subset
  <2> QED BY <2>1, <2>2, <2>3
<1> HIDE DEF A, N, R
<1>5. \A a, b \in S : R(a) = R(b) => a = b
  <2> SUFFICES ASSUME NEW a \in S, NEW b \in S, a # b PROVE R(a) # R(b)
    OBVIOUS
  <2>1. R(a) < R(b) \/ R(b) < R(a)
    BY <1>4
  <2> QED BY <1>3, <2>1
<1>6. \A a \in S : R(a) + 1 \in 1..N /\ R(a) \in Nat
  BY <1>2, <1>3
<1> USE DEF R
<1>7. place \in Injection(S, 1..N)
  BY <1>5, <1>6 DEF Injection, IsInjective
<1>8. IsFiniteSet(1..N) /\ Cardinality(1..N) = N
  BY <1>2, FS_Interval
<1>9. Cardinality(S) = N
  BY DEF N
<1>10. place \in Surjection(S, 1..N)
  <2> HIDE DEF place
  <2> QED BY <1>7, <1>8, <1>9, FS_Injection
<1>11. ASSUME NEW i \in 1..N PROVE \E a \in S : R(a) = i - 1
  <2>1. PICK a \in S : place[a] = i
    BY <1>10 DEF Surjection
  <2> HIDE DEF R
  <2>2. R(a) + 1 = i
    BY <2>1 DEF R
  <2> QED BY <1>2, <1>6, <2>2
<1> QED BY <1>2, <1>5, <1>6, <1>11 DEF N

\* The result of a search is every candidate once.
LEMMA FoundIs ==
  ASSUME NEW c \in Catalogs, NEW q \in Queries \cup {Null}, NEW f, NEW s \in Sorts
  PROVE  /\ Found(c, q, f, s) \in Seq(Entry)
         /\ IsInjective(Found(c, q, f, s))
         /\ ToSet(Found(c, q, f, s)) = {a.entry : a \in Candidates(c, q, f)}
<1> DEFINE S == Candidates(c, q, f)
           N == Cardinality(S)
           at(i) == CHOOSE a \in S : Ahead(a, S, s) = i - 1
           found == [i \in 1..N |-> at(i).entry]
<1>1. Found(c, q, f, s) = found
  BY DEF Found
<1>2. /\ \A a \in S : a.entry \in Entry /\ a.score \in Int
      /\ \A a, b \in S : a.entry.id = b.entry.id => a = b
      /\ IsFiniteSet(S)
  BY CandidatesTyped, VisibleTyped
<1> HIDE DEF S
<1>3. /\ \A a \in S : ~ Before(a, a, s)
      /\ \A a, b, d \in S : Before(a, b, s) /\ Before(b, d, s) => Before(a, d, s)
      /\ \A a, b \in S : a # b => Before(a, b, s) \/ Before(b, a, s)
  BY <1>2, BeforeIsOrder
<1>4. /\ N \in Nat
      /\ \A i \in 1..N : \E a \in S : Ahead(a, S, s) = i - 1
      /\ \A a \in S : Ahead(a, S, s) + 1 \in 1..N /\ Ahead(a, S, s) \in Nat
      /\ \A a, b \in S : Ahead(a, S, s) = Ahead(b, S, s) => a = b
  BY <1>2, <1>3, Places
<1>5. \A i \in 1..N : at(i) \in S /\ Ahead(at(i), S, s) = i - 1
  BY <1>4
<1>6. \A a \in S : \E i \in 1..N : at(i) = a
  <2> TAKE a \in S
  <2> DEFINE i == Ahead(a, S, s) + 1
  <2>1. i \in 1..N /\ i - 1 = Ahead(a, S, s)
    BY <1>4
  <2>2. at(i) \in S /\ Ahead(at(i), S, s) = Ahead(a, S, s)
    BY <1>5, <2>1
  <2> QED BY <1>4, <2>1, <2>2
<1> HIDE DEF at, N
<1>7. found \in Seq(Entry) /\ Len(found) = N /\ DOMAIN found = 1..N
  <2>1. found \in [1..N -> Entry]
    BY <1>2, <1>5
  <2> QED BY <1>4, <2>1
<1>8. IsInjective(found)
  <2>1. SUFFICES ASSUME NEW i \in 1..N, NEW j \in 1..N, at(i).entry = at(j).entry PROVE i = j
    BY <1>7 DEF IsInjective
  <2>2. at(i) = at(j)
    BY <1>2, <1>5, <2>1
  <2>3. i - 1 = j - 1
    BY <1>5, <2>2
  <2> QED BY <1>4, <2>3
<1>9. ToSet(found) = {a.entry : a \in S}
  <2>1. ToSet(found) = {at(i).entry : i \in 1..N}
    BY <1>7 DEF ToSet
  <2> QED BY <1>5, <1>6, <2>1
<1> QED BY <1>1, <1>7, <1>8, <1>9 DEF S

\* What is between any two searches: the list is the part of the result that
\* was asked for, and the total and the offset are of that result.
SearchInv ==
  /\ catalog \in Catalogs /\ query \in Queries \cup {Null} /\ sort \in Sorts
  /\ total = Len(Found(catalog, query, filters, sort))
  /\ offset \in 0..total
  /\ list = SubSeq(Found(catalog, query, filters, sort), 1, offset)

LEMMA PageIs ==
  ASSUME NEW found \in Seq(Entry), NEW at \in 0..Len(found)
  PROVE  /\ Len(Page(found, at)) \in Nat
         /\ at + Len(Page(found, at)) \in 0..Len(found)
         /\ Page(found, 0) = SubSeq(found, 1, Len(Page(found, 0)))
         /\ SubSeq(found, 1, at) \o Page(found, at) = SubSeq(found, 1, at + Len(Page(found, at)))
<1>1. Batch \in Nat /\ Len(found) \in Nat /\ at \in Nat
  BY SearchAssumption
<1>2. ASSUME NEW k \in 0..Len(found)
      PROVE  /\ Lesser(k + Batch, Len(found)) \in k..Len(found)
             /\ Len(Page(found, k)) = Lesser(k + Batch, Len(found)) - k
             /\ Page(found, k) = SubSeq(found, k + 1, k + Len(Page(found, k)))
  <2>1. Lesser(k + Batch, Len(found)) \in k..Len(found)
    BY <1>1 DEF Lesser
  <2>2. \A i \in k + 1..Lesser(k + Batch, Len(found)) : found[i] \in Entry
    BY <2>1
  <2>3. Len(Page(found, k)) = Lesser(k + Batch, Len(found)) - k
    BY <2>1, <2>2, SubSeqProperties DEF Page
  <2>4. k + Len(Page(found, k)) = Lesser(k + Batch, Len(found))
    BY <1>1, <2>1, <2>3
  <2> QED BY <2>1, <2>3, <2>4 DEF Page
<1>3. 0 + 1 = 1 /\ 0 + Len(Page(found, 0)) = Len(Page(found, 0)) /\ 0 \in 0..Len(found)
  BY <1>1, <1>2
<1>4. Page(found, 0) = SubSeq(found, 1, Len(Page(found, 0)))
  BY <1>2, <1>3
<1>5. /\ Lesser(at + Batch, Len(found)) \in at..Len(found)
      /\ Len(Page(found, at)) = Lesser(at + Batch, Len(found)) - at
      /\ Page(found, at) = SubSeq(found, at + 1, at + Len(Page(found, at)))
  BY <1>2
<1> DEFINE n == at + Len(Page(found, at))
<1>6. Len(Page(found, at)) \in Nat /\ n \in at..Len(found)
  BY <1>1, <1>5
<1>7. 1 \in 1..Len(found) + 1 /\ at \in 1 - 1..Len(found)
  BY <1>1
<1> HIDE DEF n
<1>8. SubSeq(found, 1, at) \o SubSeq(found, at + 1, n) = SubSeq(found, 1, n)
  BY <1>6, <1>7, ConcatAdjacentSubSeq
<1>9. n \in 0..Len(found)
  BY <1>1, <1>6
<1> QED BY <1>4, <1>5, <1>6, <1>8, <1>9 DEF n

LEMMA AnewKeeps ==
  ASSUME NEW s \in Sorts, SearchAnew(s), catalog' \in Catalogs, query' \in Queries \cup {Null}
  PROVE  SearchInv'
<1> DEFINE found == Found(catalog', query', filters', sort')
<1>1. sort' \in Sorts
  BY DEF SearchAnew, Automatic, Sorts, Fields
<1>2. total' = Len(found) /\ list' = Page(found, 0) /\ offset' = Len(list')
  BY DEF SearchAnew
<1>3. found \in Seq(Entry)
  BY <1>1, FoundIs
<1> HIDE DEF found
<1>4. Len(found) \in Nat /\ 0 \in 0..Len(found)
  BY <1>3
<1>5. offset' \in 0..total' /\ list' = SubSeq(found, 1, offset')
  BY <1>2, <1>3, <1>4, PageIs
<1> QED BY <1>1, <1>2, <1>5 DEF SearchInv, found

LEMMA FiltersKeep ==
  ASSUME SearchInv, NEW f, SetFilters(f)
  PROVE  SearchInv'
<1>1. SearchAnew(sort) /\ catalog' = catalog /\ query' = query
  BY DEF SetFilters
<1> QED BY <1>1, AnewKeeps DEF SearchInv

LEMMA SearchInitInv == SearchInit => SearchInv
<1> SUFFICES ASSUME SearchInit PROVE SearchInv
  OBVIOUS
<1> DEFINE found == Found(catalog, query, filters, sort)
<1>1. catalog \in Catalogs /\ query \in Queries \cup {Null} /\ sort \in Sorts
  BY DEF SearchInit, ByAdded, Sorts, Fields
<1>2. total = Len(found) /\ list = Page(found, 0) /\ offset = Len(list)
  BY DEF SearchInit
<1>3. found \in Seq(Entry)
  BY <1>1, FoundIs
<1> HIDE DEF found
<1>4. Len(found) \in Nat /\ 0 \in 0..Len(found)
  BY <1>3
<1>5. offset \in 0..total /\ list = SubSeq(found, 1, offset)
  BY <1>2, <1>3, <1>4, PageIs
<1> QED BY <1>1, <1>2, <1>5 DEF SearchInv, found

LEMMA SearchNextInv == SearchInv /\ [SearchNext]_searchVars => SearchInv'
<1> SUFFICES ASSUME SearchInv, [SearchNext]_searchVars PROVE SearchInv'
  OBVIOUS
<1>1. CASE \E c \in Catalogs : Import(c)
  <2>1. PICK c \in Catalogs : Import(c)
    BY <1>1
  <2>2. SearchAnew(sort) /\ catalog' = c /\ query' = query
    BY <2>1 DEF Import
  <2> QED BY <2>2, AnewKeeps DEF SearchInv
<1>2. CASE \E q \in Queries \cup {Null} : Ask(q)
  <2>1. PICK q \in Queries \cup {Null} : Ask(q)
    BY <1>2
  <2>2. SearchAnew(sort) /\ catalog' = catalog /\ query' = q
    BY <2>1 DEF Ask
  <2> QED BY <2>2, AnewKeeps DEF SearchInv
<1>3. CASE \E g \in {"categories", "formats"}, r \in UNION {Facet(catalog, h) : h \in Groups} : Check(g, r)
  BY <1>3, FiltersKeep DEF Check
<1>4. CASE \E values \in {{}} \cup {{n} : n \in Names} : PickProvider(values)
  BY <1>4, FiltersKeep DEF PickProvider
<1>5. CASE \E y \in {e.year : e \in ToSet(catalog.entries)} \cup {Null} : PickYear(y)
  BY <1>5, FiltersKeep DEF PickYear
<1>6. CASE CheckPassword
  BY <1>6, FiltersKeep DEF CheckPassword
<1>7. CASE \E g \in Groups, value \in Names : TakeOff(g, value)
  BY <1>7, FiltersKeep DEF TakeOff
<1>8. CASE TakeOffYear
  BY <1>8, FiltersKeep DEF TakeOffYear
<1>9. CASE Reset
  BY <1>9, FiltersKeep DEF Reset
<1>10. CASE \E field \in Fields : OrderBy(field)
  <2>1. PICK field \in Fields : OrderBy(field)
    BY <1>10
  <2> DEFINE s == [field |-> field, explicit |-> TRUE,
                   direction |-> IF field \in {"title", "author"} THEN "asc" ELSE "desc"]
  <2>2. s \in Sorts /\ SearchAnew(s) /\ catalog' = catalog /\ query' = query
    BY <2>1 DEF OrderBy, Sorts
  <2> HIDE DEF s
  <2> QED BY <2>2, AnewKeeps DEF SearchInv
<1>11. CASE Turn
  <2> DEFINE s == [sort EXCEPT !.explicit = TRUE, !.direction = IF @ = "asc" THEN "desc" ELSE "asc"]
  <2>1. s \in Sorts
    BY DEF SearchInv, Sorts
  <2>2. SearchAnew(s) /\ catalog' = catalog /\ query' = query
    BY <1>11 DEF Turn
  <2> HIDE DEF s
  <2> QED BY <2>1, <2>2, AnewKeeps DEF SearchInv
<1>12. CASE More
  <2> DEFINE found == Found(catalog, query, filters, sort)
  <2>1. /\ total' = Len(found) /\ list' = list \o Page(found, offset)
        /\ offset' = offset + Len(Page(found, offset))
        /\ UNCHANGED <<catalog, filters, sort, query>>
    BY <1>12 DEF More
  <2>2. found \in Seq(Entry)
    BY FoundIs DEF SearchInv
  <2>3. total = Len(found) /\ offset \in 0..total /\ list = SubSeq(found, 1, offset)
    BY DEF SearchInv
  <2>4. Found(catalog', query', filters', sort') = found
    BY <2>1
  <2> HIDE DEF found
  <2>5. offset' \in 0..total' /\ list' = SubSeq(found, 1, offset')
    BY <2>1, <2>2, <2>3, PageIs
  <2>6. catalog' \in Catalogs /\ query' \in Queries \cup {Null} /\ sort' \in Sorts
    BY <2>1 DEF SearchInv
  <2> QED BY <2>1, <2>4, <2>5, <2>6 DEF SearchInv
<1>13. CASE UNCHANGED searchVars
  BY <1>13 DEF searchVars, SearchInv
<1> QED
  BY <1>1, <1>2, <1>3, <1>4, <1>5, <1>6, <1>7, <1>8, <1>9, <1>10, <1>11, <1>12, <1>13
     DEF SearchNext

\* Whatever the page does, its list, total and offset belong to the one search
\* that its query, filters and order describe (runSearch, applySearchResults).
THEOREM SearchInvHolds == SearchSpec => []SearchInv
  BY SearchInitInv, SearchNextInv, PTL DEF SearchSpec

LEMMA InvMatchesOnce == SearchInv => EveryMatchOnce
<1> SUFFICES ASSUME SearchInv PROVE EveryMatchOnce
  OBVIOUS
<1> DEFINE found == Found(catalog, query, filters, sort)
<1>1. /\ found \in Seq(Entry) /\ IsInjective(found)
      /\ ToSet(found) = {a.entry : a \in Candidates(catalog, query, filters)}
  BY FoundIs DEF SearchInv
<1>2. total = Len(found) /\ offset \in 0..total /\ list = SubSeq(found, 1, offset)
  BY DEF SearchInv
<1> HIDE DEF found
<1>3. Len(found) \in Nat /\ DOMAIN found = 1..Len(found)
  BY <1>1
<1>4. \A i \in 1..offset : found[i] \in Entry
  BY <1>1, <1>2, <1>3
<1>5. list \in Seq(Entry) /\ Len(list) = offset /\ \A i \in 1..offset : list[i] = found[i]
  BY <1>2, <1>3, <1>4, SubSeqProperties
<1>6. IsInjective(list)
  BY <1>1, <1>2, <1>3, <1>5 DEF IsInjective
<1>7. offset >= total => list = found
  BY <1>1, <1>2, <1>3, SubSeqFull
<1> QED BY <1>1, <1>6, <1>7 DEF EveryMatchOnce

\* Whatever is searched for, filtered and sorted by, and however often the end of
\* the list is reached: no entry is listed twice, and all are listed in the end.
THEOREM MatchOnceTheorem == SearchSpec => []EveryMatchOnce
  BY SearchInvHolds, InvMatchesOnce, PTL

\* Without a query every visible entry is a candidate as far as the filters let it.
LEMMA TotalIs ==
  ASSUME NEW c \in Catalogs, NEW f
  PROVE  Cardinality(Candidates(c, Null, f)) = Cardinality({e \in VisibleEntries(c) : Matches(e, f)})
<1> DEFINE E == {e \in VisibleEntries(c) : Matches(e, f)}
           S == Candidates(c, Null, f)
           b == [e \in E |-> [entry |-> e, score |-> 0]]
<1>1. S = {a \in {[entry |-> e, score |-> 0] : e \in VisibleEntries(c)} : Matches(a.entry, f)}
  BY DEF Candidates, Scores
<1>2. S = {[entry |-> e, score |-> 0] : e \in E}
  BY <1>1
<1>3. IsFiniteSet(E)
  BY VisibleTyped, FS_Subset
<1> HIDE DEF S, E
<1>4. b \in Bijection(E, S)
  BY <1>2 DEF Bijection, Injection, Surjection, IsInjective
<1>5. ExistsBijection(E, S)
  BY <1>4 DEF ExistsBijection
<1> HIDE DEF b
<1> QED BY <1>3, <1>5, FS_Bijection DEF S, E

\* The name that is shown for a key is one that is written so.
LEMMA FacetIs ==
  ASSUME NEW c \in Catalogs, NEW g \in Groups, NEW r \in Facet(c, g)
  PROVE  r.count = CountOf(c, g, Normal[r.value])
<1> DEFINE named(key) == {d \in c.definitions[g] : Normal[d.id] = key}
           keys == UNION {Keys(e, g) : e \in VisibleEntries(c)}
           value(key) == IF named(key) = {} THEN key ELSE (CHOOSE d \in named(key) : TRUE).id
<1>1. PICK key \in keys : r = [value |-> value(key), count |-> CountOf(c, g, key)]
  BY DEF Facet
<1>2. Normal[key] = key
  <2>1. PICK e \in VisibleEntries(c) : key \in Keys(e, g)
    OBVIOUS
  <2>2. e \in Entry
    BY VisibleTyped
  <2>3. e[g] \in Seq(Names)
    BY <2>2 DEF Entry, Groups
  <2> DEFINE names == e[g]
  <2>4. PICK i \in DOMAIN names : key = Normal[names[i]]
    BY <2>1 DEF Keys
  <2> HIDE DEF names
  <2>5. names \in Seq(Names)
    BY <2>3 DEF names
  <2>6. names[i] \in Names
    BY <2>4, <2>5
  <2> QED BY <2>4, <2>6, SearchAssumption
<1>3. Normal[value(key)] = key
  <2>1. CASE named(key) = {}
    BY <1>2, <2>1
  <2>2. CASE named(key) # {}
    <3>1. (CHOOSE d \in named(key) : TRUE) \in named(key)
      BY <2>2
    <3> QED BY <2>2, <3>1
  <2> QED BY <2>1, <2>2
<1> HIDE DEF value
<1> QED BY <1>1, <1>3

\* What one choice lets through.
LEMMA OneChoice ==
  ASSUME NEW e
  PROVE  /\ \A v : \A g \in Groups : Matches(e, [NoFilters EXCEPT ![g] = {v}]) <=> Normal[v] \in Keys(e, g)
         /\ \A y : y # Null => (Matches(e, [NoFilters EXCEPT !.year = y]) <=> e.year = y)
         /\ Matches(e, [NoFilters EXCEPT !.password = TRUE]) <=> e.password = TRUE
<1>1. ASSUME NEW keys PROVE Intersects(keys, {Normal[n] : n \in {}})
  BY DEF Intersects
<1>2. ASSUME NEW keys, NEW v PROVE Intersects(keys, {Normal[n] : n \in {v}}) <=> Normal[v] \in keys
  BY DEF Intersects
<1>3. ASSUME NEW v, NEW g \in Groups
      PROVE  Matches(e, [NoFilters EXCEPT ![g] = {v}]) <=> Normal[v] \in Keys(e, g)
  <2> DEFINE f == [NoFilters EXCEPT ![g] = {v}]
  <2>1. /\ f[g] = {v} /\ \A h \in Groups \ {g} : f[h] = {}
        /\ f.year = Null /\ f.password = Null
    BY DEF NoFilters, Groups
  <2> HIDE DEF f
  <2>2. Intersects(Keys(e, g), {Normal[n] : n \in f[g]}) <=> Normal[v] \in Keys(e, g)
    BY <1>2, <2>1
  <2>3. \A h \in Groups \ {g} : Intersects(Keys(e, h), {Normal[n] : n \in f[h]})
    BY <1>1, <2>1
  <2> QED BY <2>1, <2>2, <2>3 DEF Matches, f
<1>4. ASSUME NEW y, y # Null
      PROVE  Matches(e, [NoFilters EXCEPT !.year = y]) <=> e.year = y
  <2> DEFINE f == [NoFilters EXCEPT !.year = y]
  <2>1. (\A h \in Groups : f[h] = {}) /\ f.year = y /\ f.password = Null
    BY DEF NoFilters, Groups
  <2> HIDE DEF f
  <2>2. \A h \in Groups : Intersects(Keys(e, h), {Normal[n] : n \in f[h]})
    BY <1>1, <2>1
  <2> QED BY <1>4, <2>1, <2>2 DEF Matches, f
<1>5. Matches(e, [NoFilters EXCEPT !.password = TRUE]) <=> e.password = TRUE
  <2> DEFINE f == [NoFilters EXCEPT !.password = TRUE]
  <2>1. (\A h \in Groups : f[h] = {}) /\ f.year = Null /\ f.password = TRUE
    BY DEF NoFilters, Groups
  <2> HIDE DEF f
  <2>2. \A h \in Groups : Intersects(Keys(e, h), {Normal[n] : n \in f[h]})
    BY <1>1, <2>1
  <2>3. TRUE # Null
    BY SearchAssumption
  <2> QED BY <2>1, <2>2, <2>3 DEF Matches, f
<1> QED BY <1>3, <1>4, <1>5

LEMMA InvFacetsTell == SearchInv => FacetsTellTheTotals
<1> SUFFICES ASSUME catalog \in Catalogs PROVE FacetsTellTheTotals
  BY DEF SearchInv
<1> DEFINE Total(f) == Cardinality(Candidates(catalog, Null, f))
           visible == VisibleEntries(catalog)
<1>1. ASSUME NEW g \in Groups, NEW r \in Facet(catalog, g)
      PROVE  Total([NoFilters EXCEPT ![g] = {r.value}]) = r.count
  <2> DEFINE f == [NoFilters EXCEPT ![g] = {r.value}]
  <2>1. {e \in visible : Matches(e, f)} = {e \in visible : Normal[r.value] \in Keys(e, g)}
    BY OneChoice
  <2>2. Total(f) = Cardinality({e \in visible : Matches(e, f)})
    BY TotalIs
  <2>3. r.count = Cardinality({e \in visible : Normal[r.value] \in Keys(e, g)})
    BY FacetIs DEF CountOf
  <2> HIDE DEF visible, Total
  <2> QED BY <2>1, <2>2, <2>3
<1>2. ASSUME NEW r \in YearFacet(catalog)
      PROVE  Total([NoFilters EXCEPT !.year = r.value]) = r.count
  <2> DEFINE f == [NoFilters EXCEPT !.year = r.value]
  <2>1. r.value # Null /\ r.count = Cardinality({e \in visible : e.year = r.value})
    <3>1. PICK y \in {e.year : e \in visible} \ {Null} :
            r = [value |-> y, count |-> Cardinality({e \in visible : e.year = y})]
      BY DEF YearFacet
    <3>2. y # Null /\ r.value = y /\ r.count = Cardinality({e \in visible : e.year = y})
      BY <3>1
    <3> HIDE DEF visible
    <3> QED BY <3>2
  <2>2. {e \in visible : Matches(e, f)} = {e \in visible : e.year = r.value}
    BY <2>1, OneChoice
  <2>3. Total(f) = Cardinality({e \in visible : Matches(e, f)})
    BY TotalIs
  <2> HIDE DEF visible, Total
  <2> QED BY <2>1, <2>2, <2>3
<1>3. Total([NoFilters EXCEPT !.password = TRUE]) = WithPassword(catalog)
  <2> DEFINE f == [NoFilters EXCEPT !.password = TRUE]
  <2>1. {e \in visible : Matches(e, f)} = {e \in visible : e.password}
    <3>1. \A e \in visible : e.password \in BOOLEAN
      BY VisibleTyped DEF Entry
    <3> QED BY <3>1, OneChoice
  <2>2. Total(f) = Cardinality({e \in visible : Matches(e, f)})
    BY TotalIs
  <2>3. WithPassword(catalog) = Cardinality({e \in visible : e.password})
    BY DEF WithPassword
  <2> HIDE DEF visible, Total
  <2> QED BY <2>1, <2>2, <2>3
<1> QED BY <1>1, <1>2, <1>3 DEF FacetsTellTheTotals

\* Of every imported catalogue, the number beside a value is the length of the
\* list that choosing it gives.
THEOREM FacetsTheorem == SearchSpec => []FacetsTellTheTotals
  BY SearchInvHolds, InvFacetsTell, PTL

================================================================================
