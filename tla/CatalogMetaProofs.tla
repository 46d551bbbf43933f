--------------------------- MODULE CatalogMetaProofs ---------------------------
(***************************************************************************)
(* What the metadata cache answers, for any number of requests, contents   *)
(* and publications.                                                       *)
(***************************************************************************)
EXTENDS CatalogMeta, TLAPS

USE MetaAssumption

Inv == TypeOK /\ RequestsInv /\ CacheTellsTheFile

LEMMA InitInv == Init => Inv
BY DEF Init, Inv, TypeOK, RequestsInv, CacheTellsTheFile, NoFile, NoEntry,
       Unavailable, Response, Waiting, Inside

-----------------------------------------------------------------------------
(* Types.                                                                  *)

\* Whatever is answered, the response is one and the mutex has one holder.
LEMMA RespondTypes ==
  ASSUME NEW r \in Requests, NEW response \in Response, TypeOK,
         Respond(r, response)
  PROVE  /\ pc' \in [Requests -> Waiting \cup {"lock"} \cup Inside]
         /\ answer' \in [Requests -> Response]
         /\ holder' \in Requests \cup {None}
<1>1. pc' \in [Requests -> Waiting \cup {"lock"} \cup Inside]
  BY DEF TypeOK, Respond, Goto, Waiting, Inside
<1>2. answer' \in [Requests -> Response]
  BY DEF TypeOK, Respond
<1>3. holder' \in Requests \cup {None}
  BY DEF TypeOK, Respond
<1>. QED
  BY <1>1, <1>2, <1>3

LEMMA TypeStep == TypeOK /\ [Next]_vars => TypeOK'
<1> SUFFICES ASSUME TypeOK, [Next]_vars PROVE TypeOK'
  OBVIOUS
<1>0. /\ Unavailable \in Response
      /\ cache.meta \in Response
      /\ cache.stamp \in Nat
      /\ disk.content \in Contents \cup {None}
      /\ disk.stamp \in Nat
  BY DEF TypeOK, Response, Unavailable
<1>1. CASE Publish
  BY <1>1 DEF Publish, locals, TypeOK, Response
<1>2. CASE Remove
  BY <1>2 DEF Remove, locals, NoFile, TypeOK, Response
<1>3. ASSUME NEW r \in Requests, Lock(r) PROVE TypeOK'
  BY <1>3 DEF Lock, Goto, locals, TypeOK, Inside
<1>4. ASSUME NEW r \in Requests, Probe(r) PROVE TypeOK'
  <2>1. CASE Respond(r, Unavailable)
    BY <1>0, <1>4, <2>1, RespondTypes DEF Probe, locals, TypeOK
  <2>2. CASE Respond(r, cache.meta)
    BY <1>0, <1>4, <2>2, RespondTypes DEF Probe, locals, TypeOK
  <2>3. CASE Goto(r, "stat") /\ UNCHANGED <<holder, answer>>
    BY <1>4, <2>3 DEF Probe, Goto, locals, TypeOK, Inside
  <2>. QED
    BY <1>4, <2>1, <2>2, <2>3 DEF Probe
<1>5. ASSUME NEW r \in Requests, Stat(r) PROVE TypeOK'
  <2>1. CASE Respond(r, Unavailable) /\ UNCHANGED noted
    BY <1>0, <1>5, <2>1, RespondTypes DEF Stat, TypeOK
  <2>2. CASE /\ noted' = [noted EXCEPT ![r] = disk.stamp]
             /\ Goto(r, "read")
             /\ UNCHANGED <<holder, answer>>
    BY <1>0, <1>5, <2>2 DEF Stat, Goto, TypeOK, Inside
  <2>. QED
    BY <1>5, <2>1, <2>2 DEF Stat
<1>6. ASSUME NEW r \in Requests, Read(r) PROVE TypeOK'
  <2>1. CASE Respond(r, Unavailable) /\ UNCHANGED got
    BY <1>0, <1>6, <2>1, RespondTypes DEF Read, TypeOK
  <2>2. CASE /\ Respond(r, [content |-> disk.content, stamp |-> 0])
             /\ UNCHANGED got
    <3>1. [content |-> disk.content, stamp |-> 0] \in Response
      BY <1>0 DEF Response
    <3>. QED
      BY <1>6, <2>2, <3>1, RespondTypes DEF Read, TypeOK
  <2>3. CASE /\ got' = [got EXCEPT ![r] = disk.content]
             /\ Goto(r, "recheck")
             /\ UNCHANGED <<holder, answer>>
    BY <1>0, <1>6, <2>3 DEF Read, Goto, TypeOK, Inside
  <2>. QED
    BY <1>6, <2>1, <2>2, <2>3 DEF Read
<1>7. ASSUME NEW r \in Requests, Recheck(r) PROVE TypeOK'
  <2> DEFINE meta == [content |-> got[r], stamp |-> noted[r]]
  <2>1. meta \in Response
    BY DEF TypeOK, Response
  <2>2. CASE Respond(r, Unavailable) /\ UNCHANGED cache
    BY <1>0, <1>7, <2>2, RespondTypes DEF Recheck, locals, TypeOK
  <2>3. CASE /\ cache' = [stamp |-> disk.stamp, meta |-> meta]
             /\ Respond(r, meta)
    <3>1. cache' \in [stamp : Nat, meta : Response]
      BY <1>0, <2>1, <2>3
    <3>. HIDE DEF meta
    <3>. QED
      BY <1>7, <2>1, <2>3, <3>1, RespondTypes DEF Recheck, locals, TypeOK
  <2>. QED
    BY <1>7, <2>2, <2>3 DEF Recheck
<1>8. ASSUME NEW r \in Requests, NEW k \in {"meta", "catalog"}, Ask(r, k)
      PROVE  TypeOK'
  BY <1>8 DEF Ask, Goto, TypeOK, Waiting, Inside
<1>9. CASE UNCHANGED vars
  BY <1>9 DEF vars, locals, TypeOK
<1>. QED
  BY <1>1, <1>2, <1>3, <1>4, <1>5, <1>6, <1>7, <1>8, <1>9 DEF Next, Work

-----------------------------------------------------------------------------
(* The invariant.                                                          *)

LEMMA InvStep == Inv /\ [Next]_vars => Inv'
<1> SUFFICES ASSUME Inv, [Next]_vars PROVE (RequestsInv /\ CacheTellsTheFile)'
  BY TypeStep DEF Inv
<1> USE DEF Inv, TypeOK, RequestsInv, CacheTellsTheFile, Response, Waiting, Inside
<1>1. CASE Publish
  BY <1>1 DEF Publish, locals
<1>2. CASE Remove
  BY <1>2 DEF Remove, locals, NoFile
<1>3. ASSUME NEW r \in Requests, Lock(r)
      PROVE  (RequestsInv /\ CacheTellsTheFile)'
  BY <1>3 DEF Lock, Goto, locals
<1>4. ASSUME NEW r \in Requests, Probe(r)
      PROVE  (RequestsInv /\ CacheTellsTheFile)'
  BY <1>4 DEF Probe, Respond, Goto, locals
<1>5. ASSUME NEW r \in Requests, Stat(r)
      PROVE  (RequestsInv /\ CacheTellsTheFile)'
  BY <1>5 DEF Stat, Respond, Goto, NoFile
<1>6. ASSUME NEW r \in Requests, Read(r)
      PROVE  (RequestsInv /\ CacheTellsTheFile)'
  BY <1>6 DEF Read, Respond, Goto
<1>7. ASSUME NEW r \in Requests, Recheck(r)
      PROVE  (RequestsInv /\ CacheTellsTheFile)'
  BY <1>7 DEF Recheck, Respond, Goto, locals
<1>8. ASSUME NEW r \in Requests, NEW k \in {"meta", "catalog"}, Ask(r, k)
      PROVE  (RequestsInv /\ CacheTellsTheFile)'
  BY <1>8 DEF Ask, Goto
<1>9. CASE UNCHANGED vars
  BY <1>9 DEF vars, locals
<1>. QED
  BY <1>1, <1>2, <1>3, <1>4, <1>5, <1>6, <1>7, <1>8, <1>9 DEF Next, Work

\* The type invariant, the invariant of the requests and that of the cache
\* (readCoursesCatalogMeta and readCoursesCatalog together).
THEOREM RequestsConsistent == Spec => []Inv
BY InitInv, InvStep, PTL DEF Spec

\* The cached metadata are those of the file in place while their stamp is, for
\* any interleaving of requests and publications (readCoursesCatalogMeta).
THEOREM CacheAlwaysTellsTheFile == Spec => []CacheTellsTheFile
BY RequestsConsistent, PTL DEF Inv

-----------------------------------------------------------------------------
(* Each request as one look at the file.                                   *)

Asked == [r \in Requests |-> IF pc[r] \in Waiting THEN "none" ELSE kind[r]]

\* A step that answers a request is the answer of the abstract endpoint
\* (readCoursesCatalogMeta, readCoursesCatalog).
LEMMA AnswerRefines ==
  ASSUME NEW r \in Requests, NEW response, Inv,
         pc[r] \notin Waiting, Respond(r, response),
         UNCHANGED <<disk, kind, disturbed>>,
         \/ /\ disk.content \in Served
            /\ response = [content |-> disk.content,
                           stamp |-> IF kind[r] = "meta" THEN disk.stamp ELSE 0]
         \/ /\ disk.content \notin Served \/ disturbed[r]
            /\ response = Unavailable
  PROVE  View!Answer(r)
<1> DEFINE asked == [q \in Requests |-> IF pc[q] \in Waiting THEN "none" ELSE kind[q]]
<1>1. asked[r] = kind[r] /\ kind[r] # "none"
  BY DEF Inv, TypeOK
<1>2. asked' = [asked EXCEPT ![r] = "none"]
  BY DEF Inv, TypeOK, Respond, Goto, Waiting
<1>3. answer' = [answer EXCEPT ![r] = response]
  BY DEF Respond
<1>. HIDE DEF asked
<1>4. \/ /\ disk.content \in Served
         /\ answer' = [answer EXCEPT ![r] =
              [content |-> disk.content,
               stamp |-> IF asked[r] = "meta" THEN disk.stamp ELSE 0]]
      \/ /\ disk.content \notin Served \/ disturbed[r]
         /\ answer' = [answer EXCEPT ![r] = View!Unavailable]
  BY <1>1, <1>3 DEF Unavailable, View!Unavailable
<1>. QED
  BY <1>1, <1>2, <1>4 DEF asked, View!Answer

\* A step of a request on its way changes nothing the abstract endpoint shows.
LEMMA ProgressStutters ==
  ASSUME NEW r \in Requests, NEW label \in Inside, Inv,
         pc[r] \notin Waiting, Goto(r, label), kind' = kind
  PROVE  Asked' = Asked
BY DEF Inv, TypeOK, Goto, Asked, Waiting, Inside

\* The endpoints look like one look at the catalogue file each: what is
\* answered is in place at that moment, and "unavailable" is only said when
\* nothing fit is, or the file changed during the request (handleCoursesMeta,
\* handleCoursesCatalog).
THEOREM ImplementsView == Spec => ViewSpec
<1>1. Init => View!Init
  BY DEF Init, View!Init, NoFile, View!NoFile, Unavailable, View!Unavailable,
         Waiting
<1>2. Inv /\ [Next]_vars =>
        [View!Next]_(View!vars)
  <2> SUFFICES ASSUME Inv, [Next]_vars
               PROVE  \/ View!Next
                      \/ UNCHANGED <<disk, Asked, disturbed, answer>>
    BY DEF Asked, View!vars
  <2>1. CASE Publish
    <3>1. PICK c \in Contents : disk' = [content |-> c, stamp |-> published + 1]
      BY <2>1 DEF Publish
    <3>2. disk' \in View!File
      BY <3>1 DEF View!File, Inv, TypeOK
    <3>. QED
      BY <2>1, <3>2 DEF Publish, locals, View!Next, View!Change
  <2>2. CASE Remove
    BY <2>2 DEF Remove, locals, NoFile, View!Next, View!Change, View!NoFile
  <2>3. ASSUME NEW r \in Requests, NEW k \in {"meta", "catalog"}, Ask(r, k)
        PROVE  View!Next
    <3> DEFINE asked == [q \in Requests |-> IF pc[q] \in Waiting THEN "none"
                                            ELSE kind[q]]
    <3>1. asked[r] = "none"
      BY <2>3 DEF Ask
    <3>2. asked' = [asked EXCEPT ![r] = k]
      BY <2>3 DEF Ask, Goto, Inv, TypeOK, Waiting
    <3>3. View!Ask(r)
      BY <2>3, <3>1, <3>2 DEF Ask, View!Ask
    <3>. QED
      BY <3>3 DEF View!Next
  <2>4. ASSUME NEW r \in Requests, Lock(r)
        PROVE  UNCHANGED <<disk, Asked, disturbed, answer>>
    BY <2>4, ProgressStutters DEF Lock, locals, Waiting, Inside
  <2>5. ASSUME NEW r \in Requests, Probe(r)
        PROVE  \/ View!Next
               \/ UNCHANGED <<disk, Asked, disturbed, answer>>
    <3>1. pc[r] \notin Waiting /\ kind[r] = "meta"
      BY <2>5 DEF Probe, Waiting, Inv, RequestsInv
    <3>2. CASE disk = NoFile /\ Respond(r, Unavailable)
      BY <2>5, <3>1, <3>2, AnswerRefines
         DEF Probe, locals, NoFile, View!Next
    <3>3. CASE /\ disk # NoFile
               /\ cache.stamp = disk.stamp
               /\ Respond(r, cache.meta)
      <4>1. disk.stamp # 0
        BY <3>3 DEF Inv, TypeOK, RequestsInv, Response, NoFile
      <4>2. disk.content \in Served /\ cache.meta = disk
        BY <3>3, <4>1 DEF Inv, CacheTellsTheFile
      <4>3. cache.meta = [content |-> disk.content, stamp |-> disk.stamp]
        BY <4>2 DEF Inv, TypeOK, Response
      <4>. QED
        BY <2>5, <3>1, <3>3, <4>2, <4>3, AnswerRefines
           DEF Probe, locals, View!Next
    <3>4. CASE Goto(r, "stat") /\ UNCHANGED <<holder, answer>>
      BY <2>5, <3>1, <3>4, ProgressStutters DEF Probe, locals, Inside
    <3>. QED
      BY <2>5, <3>2, <3>3, <3>4 DEF Probe
  <2>6. ASSUME NEW r \in Requests, Stat(r)
        PROVE  \/ View!Next
               \/ UNCHANGED <<disk, Asked, disturbed, answer>>
    <3>1. pc[r] \notin Waiting
      BY <2>6 DEF Stat, Waiting
    <3>2. CASE disk = NoFile /\ Respond(r, Unavailable)
      BY <2>6, <3>1, <3>2, AnswerRefines
         DEF Stat, NoFile, View!Next
    <3>3. CASE Goto(r, "read") /\ UNCHANGED <<holder, answer>>
      BY <2>6, <3>1, <3>3, ProgressStutters DEF Stat, Inside
    <3>. QED
      BY <2>6, <3>2, <3>3 DEF Stat
  <2>7. ASSUME NEW r \in Requests, Read(r)
        PROVE  \/ View!Next
               \/ UNCHANGED <<disk, Asked, disturbed, answer>>
    <3>1. pc[r] \notin Waiting
      BY <2>7 DEF Read, Waiting
    <3>2. CASE disk.content \notin Served /\ Respond(r, Unavailable)
      BY <2>7, <3>1, <3>2, AnswerRefines DEF Read, View!Next
    <3>3. CASE /\ disk.content \in Served
               /\ kind[r] = "catalog"
               /\ Respond(r, [content |-> disk.content, stamp |-> 0])
      BY <2>7, <3>1, <3>3, AnswerRefines DEF Read, View!Next
    <3>4. CASE Goto(r, "recheck") /\ UNCHANGED <<holder, answer>>
      BY <2>7, <3>1, <3>4, ProgressStutters DEF Read, Inside
    <3>. QED
      BY <2>7, <3>2, <3>3, <3>4 DEF Read
  <2>8. ASSUME NEW r \in Requests, Recheck(r) PROVE View!Next
    <3> DEFINE meta == [content |-> got[r], stamp |-> noted[r]]
    <3>1. pc[r] = "recheck" /\ pc[r] \notin Waiting /\ kind[r] = "meta"
      BY <2>8 DEF Recheck, Waiting, Inv, RequestsInv
    <3>2. CASE disk.stamp # noted[r] /\ Respond(r, Unavailable)
      <4>1. disturbed[r]
        BY <3>1, <3>2 DEF Inv, TypeOK, RequestsInv
      <4>. QED
        BY <2>8, <3>1, <3>2, <4>1, AnswerRefines DEF Recheck, locals, View!Next
    <3>3. CASE disk.stamp = noted[r] /\ Respond(r, meta)
      <4>1. got[r] = disk.content /\ disk.content \in Served
        BY <3>1, <3>3 DEF Inv, RequestsInv
      <4>. QED
        BY <2>8, <3>1, <3>3, <4>1, AnswerRefines DEF Recheck, locals, View!Next
    <3>. QED
      BY <2>8, <3>2, <3>3 DEF Recheck
  <2>9. CASE UNCHANGED vars
    BY <2>9 DEF vars, locals, Asked
  <2>. QED
    BY <2>1, <2>2, <2>3, <2>4, <2>5, <2>6, <2>7, <2>8, <2>9 DEF Next, Work
<1>3. QED
  BY <1>1, <1>2, RequestsConsistent, PTL DEF Spec, ViewSpec, View!Spec

================================================================================
