--------------------------- MODULE CoursesPageProofs ---------------------------
(***************************************************************************)
(* What the page's list and its calls keep to, for any queries, copies and *)
(* numbers of calls under way.                                             *)
(***************************************************************************)
EXTENDS CoursesPage, TLAPS

\* Calls as runSearch and its neighbours make them: a search is for a query, and
\* its successful answer comes from a copy.
GoodCall ==
  {c \in CallType : c.type = "search" =>
                      c.query \in Queries /\ (c.answer = "ok" => c.copy \in Copies)}

IsLive(c) == c.type = "search" /\ c.current /\ c.waiting

\* The search of the present generation among the calls in s: there is one while
\* the page is loading, and a further batch is asked for beyond what is shown.
SearchInv(s, busy, shownTo) ==
  /\ s \in Seq(GoodCall)
  /\ busy <=> \E i \in DOMAIN s : IsLive(s[i])
  /\ \A i, j \in DOMAIN s : IsLive(s[i]) /\ IsLive(s[j]) => i = j
  /\ \A i \in DOMAIN s : IsLive(s[i]) /\ ~ s[i].reset => shownTo <= s[i].at

Inv == TypeOK /\ SearchInv(calls, loading, offset) /\ BatchesInOrder

LEMMA InvOneSearch == Inv => OneSearch
BY DEF Inv, SearchInv, OneSearch, Live, IsLive

LEMMA GoodCallType == GoodCall \subseteq CallType
BY DEF GoodCall

-----------------------------------------------------------------------------
(* The sequence of calls, one lemma for each way it changes.               *)

\* Nobody awaits a search of the present generation: any offset will do.
LEMMA Quiet ==
  ASSUME NEW s, NEW k, NEW n, SearchInv(s, FALSE, k)
  PROVE  SearchInv(s, FALSE, n)
BY DEF SearchInv

\* The head of the queue is settled or dropped.
LEMMA HeadGone ==
  ASSUME NEW s, NEW busy \in BOOLEAN, NEW n \in Nat, SearchInv(s, busy, n), s # << >>
  PROVE  /\ Head(s) \in GoodCall
         /\ SearchInv(Tail(s), busy /\ ~ IsLive(Head(s)), n)
         /\ IsLive(Head(s)) => busy
         /\ IsLive(Head(s)) /\ ~ Head(s).reset => n <= Head(s).at
<1> DEFINE t == Tail(s)
<1>1. s \in Seq(GoodCall) /\ Len(s) \in Nat /\ Len(s) # 0 /\ 1 \in DOMAIN s
  BY DEF SearchInv
<1>2. Head(s) = s[1] /\ s[1] \in GoodCall
  BY <1>1
<1>3. /\ t \in Seq(GoodCall)
      /\ \A i \in DOMAIN t : i + 1 \in DOMAIN s /\ t[i] = s[i + 1] /\ i \in Nat /\ i # 0
  BY <1>1
<1>4. \A i \in DOMAIN s : i # 1 => i - 1 \in DOMAIN t /\ t[i - 1] = s[i]
  BY <1>1
<1>5. ASSUME NEW i \in DOMAIN t, IsLive(t[i]) PROVE ~ IsLive(Head(s)) /\ busy
  BY <1>1, <1>2, <1>3, <1>5 DEF SearchInv
<1>6. ASSUME busy, ~ IsLive(Head(s)) PROVE \E i \in DOMAIN t : IsLive(t[i])
  <2>1. PICK i \in DOMAIN s : IsLive(s[i])
    BY <1>6 DEF SearchInv
  <2>. QED
    BY <2>1, <1>2, <1>4, <1>6
<1>7. \A i, j \in DOMAIN t : IsLive(t[i]) /\ IsLive(t[j]) => i = j
  <2> SUFFICES ASSUME NEW i \in DOMAIN t, NEW j \in DOMAIN t,
                      IsLive(t[i]), IsLive(t[j])
               PROVE  i = j
    OBVIOUS
  <2>1. i + 1 = j + 1
    BY <1>3 DEF SearchInv
  <2>. QED
    BY <2>1, <1>3
<1>8. \A i \in DOMAIN t : IsLive(t[i]) /\ ~ t[i].reset => n <= t[i].at
  BY <1>3 DEF SearchInv
<1>. HIDE DEF t
<1>9. SearchInv(t, busy /\ ~ IsLive(Head(s)), n)
  BY <1>3, <1>5, <1>6, <1>7, <1>8 DEF SearchInv
<1>. QED
  BY <1>1, <1>2, <1>9 DEF SearchInv, t

\* A call is given up.
LEMMA GivenUp ==
  ASSUME NEW s, NEW busy \in BOOLEAN, NEW n \in Nat, SearchInv(s, busy, n),
         NEW k \in DOMAIN s, s[k].waiting
  PROVE  /\ s[k] \in GoodCall
         /\ SearchInv([s EXCEPT ![k].waiting = FALSE], busy /\ ~ IsLive(s[k]), n)
         /\ IsLive(s[k]) => busy
         /\ IsLive(s[k]) /\ ~ s[k].reset => n <= s[k].at
<1> DEFINE t == [s EXCEPT ![k].waiting = FALSE]
<1>1. s \in Seq(GoodCall) /\ s[k] \in GoodCall
  BY DEF SearchInv
<1>2. DOMAIN t = DOMAIN s
  BY <1>1
<1>3. [s[k] EXCEPT !.waiting = FALSE] \in GoodCall
  BY <1>1 DEF GoodCall, CallType
<1>4. t \in Seq(GoodCall)
  BY <1>1, <1>3
<1>5. t[k] = [s[k] EXCEPT !.waiting = FALSE] /\ ~ IsLive(t[k])
  BY <1>1, <1>3 DEF IsLive, GoodCall, CallType
<1>6. \A i \in DOMAIN s : i # k => t[i] = s[i]
  BY <1>1
<1>. HIDE DEF t
<1>7. SearchInv(t, busy /\ ~ IsLive(s[k]), n)
  BY <1>2, <1>4, <1>5, <1>6 DEF SearchInv
<1>. QED
  BY <1>1, <1>7 DEF SearchInv, t

\* The worker answers a call.
LEMMA AnswerGiven ==
  ASSUME NEW s, NEW busy \in BOOLEAN, NEW n \in Nat, SearchInv(s, busy, n),
         NEW k \in DOMAIN s, NEW a \in {"ok", "failed"},
         NEW copy \in Copies \cup {None},
         s[k].type = "search" /\ a = "ok" => copy \in Copies,
         NEW t,
         \/ t = [s EXCEPT ![k].answer = a, ![k].copy = copy]
         \/ t = [s EXCEPT ![k].answer = a] /\ (s[k].type = "search" => a = "failed")
  PROVE  SearchInv(t, busy, n)
<1>1. s \in Seq(GoodCall) /\ s[k] \in GoodCall
  BY DEF SearchInv
<1>2. DOMAIN t = DOMAIN s
  BY <1>1
<1>3. /\ t[k] \in GoodCall
      /\ IsLive(t[k]) <=> IsLive(s[k])
      /\ t[k].reset = s[k].reset /\ t[k].at = s[k].at
  <2>1. s[k] \in CallType /\ (s[k].type = "search" => s[k].query \in Queries)
    BY <1>1 DEF GoodCall
  <2>2. CASE t = [s EXCEPT ![k].answer = a, ![k].copy = copy]
    <3>1. t[k] = [s[k] EXCEPT !.answer = a, !.copy = copy]
      BY <1>1, <2>2
    <3>2. t[k] \in CallType
      BY <2>1, <3>1 DEF CallType
    <3>. QED
      BY <2>1, <3>1, <3>2 DEF GoodCall, IsLive, CallType
  <2>3. CASE t = [s EXCEPT ![k].answer = a] /\ (s[k].type = "search" => a = "failed")
    <3>1. t[k] = [s[k] EXCEPT !.answer = a]
      BY <1>1, <2>3
    <3>2. t[k] \in CallType
      BY <2>1, <3>1 DEF CallType
    <3>. QED
      BY <2>1, <2>3, <3>1, <3>2 DEF GoodCall, IsLive, CallType
  <2>. QED
    BY <2>2, <2>3
<1>4. \A i \in DOMAIN s : i # k => t[i] = s[i]
  BY <1>1
<1>5. t \in Seq(GoodCall)
  BY <1>1, <1>3
<1>. QED
  BY <1>2, <1>3, <1>4, <1>5 DEF SearchInv

\* A search of a new generation is the only one that counts.
LEMMA Superseded ==
  ASSUME NEW s \in Seq(GoodCall), NEW q \in Queries, NEW n \in Nat
  PROVE  SearchInv(Append(Supersede(s), Call("search", q, 0, TRUE, None)), TRUE, n)
<1> DEFINE u == Supersede(s)
           c == Call("search", q, 0, TRUE, None)
<1>1. ASSUME NEW i \in DOMAIN s PROVE [s[i] EXCEPT !.current = FALSE] \in GoodCall
  <2>1. s[i] \in GoodCall
    OBVIOUS
  <2>. QED
    BY <2>1 DEF GoodCall, CallType
<1>2. u \in Seq(GoodCall) /\ Len(u) = Len(s)
  BY <1>1 DEF Supersede
<1>3. \A i \in DOMAIN u : ~ IsLive(u[i])
  BY DEF Supersede, IsLive, GoodCall, CallType
<1>4. c \in GoodCall /\ IsLive(c) /\ c.reset
  BY DEF Call, GoodCall, CallType, IsLive, Asked
<1>. HIDE DEF u, c
<1>5. /\ Append(u, c) \in Seq(GoodCall)
      /\ DOMAIN Append(u, c) = 1..(Len(u) + 1)
      /\ Append(u, c)[Len(u) + 1] = c
      /\ \A i \in DOMAIN u : Append(u, c)[i] = u[i]
      /\ \A i \in 1..(Len(u) + 1) : i = Len(u) + 1 \/ i \in DOMAIN u
      /\ Len(u) + 1 \in 1..(Len(u) + 1)
  BY <1>2, <1>4
<1>. QED
  BY <1>3, <1>4, <1>5 DEF SearchInv, u, c

\* One more call at the end of the queue: the search for a further batch, when
\* none is awaited, or a call that is no search.
LEMMA CallAdded ==
  ASSUME NEW s, NEW busy \in BOOLEAN, NEW n \in Nat, SearchInv(s, busy, n),
         NEW c \in GoodCall,
         IsLive(c) => ~ busy /\ n <= c.at
  PROVE  SearchInv(Append(s, c), busy \/ IsLive(c), n)
<1>1. s \in Seq(GoodCall)
  BY DEF SearchInv
<1>2. /\ Append(s, c) \in Seq(GoodCall)
      /\ DOMAIN Append(s, c) = 1..(Len(s) + 1)
      /\ Append(s, c)[Len(s) + 1] = c
      /\ \A i \in DOMAIN s : i \in DOMAIN Append(s, c) /\ Append(s, c)[i] = s[i]
      /\ \A i \in 1..(Len(s) + 1) : i = Len(s) + 1 \/ i \in DOMAIN s
      /\ Len(s) + 1 \in 1..(Len(s) + 1)
  BY <1>1
<1> DEFINE t == Append(s, c)
<1>. HIDE DEF t
<1>. QED
  BY <1>1, <1>2 DEF SearchInv, t

LEMMA NothingShown == << >> \in Seq(Batch)
OBVIOUS

LEMMA GoodCalls == \A s \in Seq(GoodCall) : s \in Seq(CallType)
BY GoodCallType

-----------------------------------------------------------------------------
(* The continuations.                                                      *)

\* A search of a new generation, sent while the calls in s remain.
LEMMA NewSearchKeeps ==
  ASSUME TypeOK, BatchesInOrder, NEW s \in Seq(GoodCall), NEW q \in Queries,
         NewSearch(q, s)
  PROVE  /\ calls' \in Seq(CallType) /\ loading' \in BOOLEAN /\ spoiled' \in BOOLEAN
         /\ panel' = "searching" /\ UNCHANGED shown
         /\ SearchInv(calls', loading', offset')
<1>1. offset' \in Nat /\ UNCHANGED shown
  BY DEF NewSearch, shown, TypeOK
<1>2. SearchInv(calls', TRUE, offset')
  BY <1>1, Superseded DEF NewSearch
<1>3. calls' \in Seq(CallType)
  BY <1>2, GoodCalls DEF SearchInv
<1>. QED
  BY <1>1, <1>2, <1>3 DEF NewSearch

\* A batch of the present generation is shown.
LEMMA ShowKeeps ==
  ASSUME TypeOK, BatchesInOrder, NEW c \in GoodCall, IsLive(c), c.copy \in Copies,
         ~ c.reset => offset <= c.at,
         NEW left, SearchInv(left, FALSE, offset),
         ShowBatch(c, left), UNCHANGED runtime
  PROVE  Inv'
<1> DEFINE found == Hits[c.copy][c.query]
           base  == IF c.reset THEN << >> ELSE list
           next  == [query |-> c.query, copy |-> c.copy, at |-> c.at + 1]
           batch == IF c.at < found THEN << next >> ELSE << >>
<1>1. c.query \in Queries /\ c.at \in Nat /\ c.reset \in BOOLEAN
  BY DEF GoodCall, CallType, IsLive
<1>2. found \in Nat
  BY <1>1, PageAssumption
<1>3. next \in Batch /\ next.at = c.at + 1
  BY <1>1 DEF Batch
<1>4. /\ base \in Seq(Batch)
      /\ \A i, j \in DOMAIN base : i < j => base[i].at < base[j].at
      /\ \A i \in DOMAIN base : base[i].at \in Nat /\ base[i].at <= c.at
  <2>1. CASE c.reset
    BY <2>1
  <2>2. CASE ~ c.reset
    <3>1. \A i \in DOMAIN list : list[i] \in Batch
      BY DEF TypeOK
    <3>. QED
      BY <1>1, <2>2, <3>1 DEF TypeOK, BatchesInOrder, Batch
  <2>. QED
    BY <2>1, <2>2
<1>5. /\ total' = found /\ list' = base \o batch /\ offset' = c.at + Len(batch)
      /\ panel' \in {"empty", "hidden"} /\ loading' = FALSE /\ calls' = left
      /\ UNCHANGED <<wanted, timer, ready, importing, fetching, spoiled, runtime>>
  BY DEF ShowBatch
<1>. HIDE DEF found, base, next
<1>6. /\ list' \in Seq(Batch)
      /\ offset' \in Nat
      /\ \A i, j \in DOMAIN list' : i < j => list'[i].at < list'[j].at
      /\ \A i \in DOMAIN list' : list'[i].at <= offset'
  <2>1. CASE c.at < found
    <3>1. list' = Append(base, next) /\ offset' = c.at + 1
      BY <1>4, <1>5, <2>1
    <3>. QED
      BY <1>1, <1>3, <1>4, <3>1
  <2>2. CASE ~ (c.at < found)
    <3>1. list' = base /\ offset' = c.at
      BY <1>1, <1>4, <1>5, <2>2
    <3>. QED
      BY <1>1, <1>4, <3>1
  <2>. QED
    BY <2>1, <2>2
<1>7. SearchInv(calls', loading', offset')
  BY <1>5, Quiet
<1>8. calls' \in Seq(CallType)
  BY <1>7, GoodCalls DEF SearchInv
<1>9. TypeOK'
  BY <1>2, <1>5, <1>6, <1>8 DEF TypeOK
<1>. QED
  BY <1>6, <1>7, <1>9 DEF Inv, BatchesInOrder

LEMMA SettledKeeps ==
  ASSUME Inv, NEW c \in GoodCall, c.waiting,
         NEW answer \in {"ok", "failed", "late"}, answer = "ok" => c.answer = "ok",
         NEW left, SearchInv(left, loading /\ ~ IsLive(c), offset),
         IsLive(c) => loading,
         IsLive(c) /\ ~ c.reset => offset <= c.at,
         Settled(c, answer, left), UNCHANGED runtime
  PROVE  Inv'
<1>0. TypeOK /\ BatchesInOrder /\ left \in Seq(GoodCall) /\ left \in Seq(CallType)
  BY GoodCalls DEF Inv, SearchInv
<1>1. CASE SearchSettled(c, answer, left)
  <2>1. CASE c.current /\ answer = "ok" /\ ShowBatch(c, left)
    <3>1. IsLive(c) /\ c.copy \in Copies
      BY <1>1, <2>1 DEF SearchSettled, IsLive, GoodCall
    <3>2. SearchInv(left, FALSE, offset)
      BY <3>1 DEF SearchInv
    <3>. QED
      BY <1>0, <2>1, <3>1, <3>2, ShowKeeps
  <2>2. CASE c.current /\ answer # "ok" /\ StopSearch(c, left)
    <3>1. IsLive(c)
      BY <1>1, <2>2 DEF SearchSettled, IsLive
    <3>2. SearchInv(calls', loading', offset')
      BY <2>2, <3>1 DEF StopSearch, shown, SearchInv
    <3>3. c.reset \in BOOLEAN
      BY DEF GoodCall, CallType
    <3>4. TypeOK'
      BY <1>0, <2>2, <3>3 DEF StopSearch, shown, TypeOK
    <3>. QED
      BY <1>0, <2>2, <3>2, <3>4 DEF StopSearch, shown, Inv, BatchesInOrder
  <2>3. CASE ~ c.current /\ calls' = left /\ UNCHANGED <<page, spoiled>>
    <3>1. SearchInv(calls', loading', offset')
      BY <2>3 DEF IsLive, page, shown, SearchInv
    <3>2. TypeOK'
      BY <1>0, <2>3 DEF page, shown, TypeOK
    <3>. QED
      BY <1>0, <2>3, <3>1, <3>2 DEF page, shown, Inv, BatchesInOrder
  <2>. QED
    BY <1>1, <2>1, <2>2, <2>3 DEF SearchSettled
<1>2. ASSUME c.type # "search" PROVE SearchInv(left, loading, offset)
  BY <1>2 DEF IsLive, SearchInv
<1>3. CASE BootSettled(c, answer, left)
  <2>1. CASE ready' = TRUE /\ NewSearch(wanted, left)
    <3>1. wanted \in Queries
      BY <1>0 DEF TypeOK
    <3>2. /\ calls' \in Seq(CallType) /\ loading' \in BOOLEAN /\ spoiled' \in BOOLEAN
          /\ panel' = "searching" /\ UNCHANGED shown
          /\ SearchInv(calls', loading', offset')
      BY <1>0, <2>1, <3>1, NewSearchKeeps
    <3>3. TypeOK'
      BY <1>0, <1>3, <2>1, <3>2 DEF BootSettled, shown, TypeOK
    <3>. QED
      BY <1>0, <3>2, <3>3 DEF Inv, BatchesInOrder, shown
  <2>2. CASE /\ panel' = IF answer = "ok" THEN "install" ELSE "broken"
             /\ calls' = left
             /\ UNCHANGED <<ready, loading, shown, spoiled>>
    <3>1. TypeOK'
      BY <1>0, <1>3, <2>2 DEF BootSettled, shown, TypeOK
    <3>2. SearchInv(calls', loading', offset')
      BY <1>2, <1>3, <2>2 DEF BootSettled, shown
    <3>. QED
      BY <1>0, <2>2, <3>1, <3>2 DEF Inv, BatchesInOrder, shown
  <2>. QED
    BY <1>3, <2>1, <2>2 DEF BootSettled
<1>4. CASE ImportSettled(c, answer, left)
  <2>1. CASE ready' = TRUE /\ NewSearch(wanted, left)
    <3>1. wanted \in Queries
      BY <1>0 DEF TypeOK
    <3>2. /\ calls' \in Seq(CallType) /\ loading' \in BOOLEAN /\ spoiled' \in BOOLEAN
          /\ panel' = "searching" /\ UNCHANGED shown
          /\ SearchInv(calls', loading', offset')
      BY <1>0, <2>1, <3>1, NewSearchKeeps
    <3>3. TypeOK'
      BY <1>0, <1>4, <2>1, <3>2 DEF ImportSettled, shown, TypeOK
    <3>. QED
      BY <1>0, <3>2, <3>3 DEF Inv, BatchesInOrder, shown
  <2>2. CASE /\ calls' = left
             /\ spoiled' = (spoiled \/ answer = "late")
             /\ UNCHANGED <<ready, loading, shown, panel>>
    <3>1. TypeOK'
      BY <1>0, <1>4, <2>2 DEF ImportSettled, shown, TypeOK
    <3>2. SearchInv(calls', loading', offset')
      BY <1>2, <1>4, <2>2 DEF ImportSettled, shown
    <3>. QED
      BY <1>0, <2>2, <3>1, <3>2 DEF Inv, BatchesInOrder, shown
  <2>. QED
    BY <1>4, <2>1, <2>2 DEF ImportSettled
<1>5. CASE ForgetSettled(c, answer, left)
  <2>1. c.type # "search" /\ calls' = left /\ loading' = loading
    BY <1>5 DEF ForgetSettled
  <2>2. CASE /\ ready' = FALSE
             /\ total' = 0 /\ offset' = 0 /\ list' = << >>
             /\ panel' = "forgotten"
             /\ UNCHANGED spoiled
    <3>1. TypeOK'
      BY <1>0, <1>5, <2>2, NothingShown DEF ForgetSettled, TypeOK
    <3>2. SearchInv(left, loading, 0)
      <4>1. SearchInv(left, loading, offset)
        BY <1>2, <2>1
      <4>2. ASSUME NEW i \in DOMAIN left PROVE 0 <= left[i].at
        <5>1. left[i] \in CallType
          BY <1>0
        <5>. QED
          BY <5>1 DEF CallType
      <4>. QED
        BY <4>1, <4>2 DEF SearchInv
    <3>. QED
      BY <2>1, <2>2, <3>1, <3>2 DEF Inv, BatchesInOrder
  <2>3. CASE /\ spoiled' = (spoiled \/ answer = "late")
             /\ UNCHANGED <<ready, shown, panel>>
    <3>1. TypeOK'
      BY <1>0, <1>5, <2>3 DEF ForgetSettled, shown, TypeOK
    <3>2. SearchInv(calls', loading', offset')
      BY <1>2, <2>1, <2>3 DEF shown
    <3>. QED
      BY <1>0, <2>3, <3>1, <3>2 DEF Inv, BatchesInOrder, shown
  <2>. QED
    BY <1>5, <2>2, <2>3 DEF ForgetSettled
<1>. QED
  BY <1>1, <1>3, <1>4, <1>5 DEF Settled

-----------------------------------------------------------------------------
(* The invariant.                                                          *)

LEMMA InitInv == Init => Inv
<1> SUFFICES ASSUME Init PROVE Inv
  OBVIOUS
<1>1. Other("boot", None) \in GoodCall /\ ~ IsLive(Other("boot", None))
  BY DEF Other, Call, GoodCall, CallType, IsLive, Asked
<1>2. /\ calls \in Seq(GoodCall)
      /\ \A i \in DOMAIN calls : calls[i] = Other("boot", None)
  BY <1>1 DEF Init
<1>3. calls \in Seq(CallType)
  BY <1>2, GoodCalls
<1>4. TypeOK /\ BatchesInOrder
  <2>1. TypeOK
    BY <1>3, NothingShown DEF Init, TypeOK
  <2>2. DOMAIN list = {}
    BY DEF Init
  <2>. QED
    BY <2>1, <2>2 DEF BatchesInOrder
<1>5. SearchInv(calls, FALSE, offset)
  BY <1>1, <1>2 DEF SearchInv
<1>. QED
  BY <1>4, <1>5 DEF Inv, Init, SearchInv

\* A call that is no search joins the queue.
LEMMA OtherAdded ==
  ASSUME Inv, NEW type \in {"boot", "import", "forget"},
         NEW copy \in Copies \cup {None}
  PROVE  /\ SearchInv(Append(calls, Other(type, copy)), loading, offset)
         /\ Append(calls, Other(type, copy)) \in Seq(CallType)
<1> DEFINE c == Other(type, copy)
<1>1. c \in GoodCall /\ ~ IsLive(c)
  BY DEF Other, Call, GoodCall, CallType, IsLive, Asked
<1>. HIDE DEF c
<1>2. SearchInv(Append(calls, c), loading \/ IsLive(c), offset)
  BY <1>1, CallAdded DEF Inv, TypeOK
<1>3. SearchInv(Append(calls, c), loading, offset)
  BY <1>1, <1>2 DEF SearchInv
<1>. QED
  BY <1>3, GoodCalls DEF SearchInv, c

LEMMA UserStep == Inv /\ User /\ UNCHANGED runtime => Inv'
<1> SUFFICES ASSUME Inv, User, UNCHANGED runtime PROVE Inv'
  OBVIOUS
<1>0. TypeOK /\ BatchesInOrder /\ calls \in Seq(GoodCall)
  BY DEF Inv, SearchInv
<1>1. ASSUME NEW q \in Queries, Type(q) PROVE Inv'
  BY <1>0, <1>1 DEF Type, shown, Inv, TypeOK, BatchesInOrder, SearchInv
<1>2. ASSUME NEW q \in Queries, NewSearch(q, calls),
             wanted' \in Queries, UNCHANGED <<timer, ready, importing, fetching>>
      PROVE  Inv'
  <2>1. /\ calls' \in Seq(CallType) /\ loading' \in BOOLEAN /\ spoiled' \in BOOLEAN
        /\ panel' = "searching" /\ UNCHANGED shown
        /\ SearchInv(calls', loading', offset')
    BY <1>0, <1>2, NewSearchKeeps
  <2>2. TypeOK'
    BY <1>0, <1>2, <2>1 DEF shown, TypeOK
  <2>. QED
    BY <1>0, <2>1, <2>2 DEF Inv, BatchesInOrder, shown
<1>3. ASSUME NEW q \in Queries, Choose(q) PROVE Inv'
  BY <1>2, <1>3 DEF Choose
<1>4. CASE Retry
  BY <1>0, <1>2, <1>4 DEF Retry, TypeOK
<1>5. CASE Scroll
  <2> DEFINE c == Call("search", wanted, offset, FALSE, None)
  <2>1. c \in GoodCall /\ IsLive(c) /\ c.at = offset
    BY <1>0 DEF Call, GoodCall, CallType, IsLive, Asked, TypeOK
  <2>2. calls' = Append(calls, c) /\ ~ loading /\ loading' = TRUE
    BY <1>5 DEF Scroll
  <2>. HIDE DEF c
  <2>3. SearchInv(calls', TRUE, offset)
    <3>1. SearchInv(calls', loading \/ IsLive(c), offset)
      BY <1>0, <2>1, <2>2, CallAdded DEF Inv, TypeOK
    <3>. QED
      BY <2>1, <3>1 DEF SearchInv
  <2>4. calls' \in Seq(CallType)
    BY <2>3, GoodCalls DEF SearchInv
  <2>5. TypeOK'
    BY <1>0, <1>5, <2>4 DEF Scroll, shown, TypeOK
  <2>. QED
    BY <1>0, <1>5, <2>2, <2>3, <2>5 DEF Scroll, shown, Inv, BatchesInOrder
<1>6. CASE Submit
  BY <1>0, <1>6 DEF Submit, shown, Inv, TypeOK, BatchesInOrder, SearchInv
<1>7. CASE Forget
  <2>1. calls' = Append(calls, Other("forget", None)) /\ UNCHANGED <<page, spoiled>>
    BY <1>7 DEF Forget
  <2>2. SearchInv(calls', loading, offset) /\ calls' \in Seq(CallType)
    BY <2>1, OtherAdded
  <2>3. TypeOK'
    BY <1>0, <2>1, <2>2 DEF page, shown, TypeOK
  <2>. QED
    BY <1>0, <2>1, <2>2, <2>3 DEF page, shown, Inv, BatchesInOrder
<1>. QED
  BY <1>1, <1>3, <1>4, <1>5, <1>6, <1>7 DEF User

LEMMA InvStep == Inv /\ [Next]_vars => Inv'
<1> SUFFICES ASSUME Inv, [Next]_vars PROVE Inv'
  OBVIOUS
<1>0. /\ TypeOK /\ BatchesInOrder /\ calls \in Seq(GoodCall)
      /\ SearchInv(calls, loading, offset) /\ loading \in BOOLEAN /\ offset \in Nat
  BY DEF Inv, SearchInv, TypeOK
<1>1. CASE User
  <2>1. UNCHANGED runtime
    BY <1>1 DEF User, Type, Choose, Retry, Scroll, Submit, Forget
  <2>. QED
    BY <1>1, <2>1, UserStep
<1>2. CASE Download
  <2>1. SearchInv(calls', loading, offset) /\ calls' \in Seq(CallType)
    <3>1. CASE \E c \in Copies : calls' = Append(calls, Other("import", c))
      BY <3>1, OtherAdded
    <3>2. CASE UNCHANGED calls
      BY <1>0, <3>2 DEF TypeOK
    <3>. QED
      BY <1>2, <3>1, <3>2 DEF Download
  <2>2. importing' \in BOOLEAN
    BY <1>0, <1>2 DEF Download, TypeOK
  <2>3. TypeOK'
    BY <1>0, <1>2, <2>1, <2>2 DEF Download, shown, TypeOK
  <2>. QED
    BY <1>0, <1>2, <2>1, <2>3 DEF Download, shown, Inv, BatchesInOrder
<1>3. CASE Elapse
  <2>1. CASE NewSearch(wanted, calls)
    <3>1. wanted \in Queries
      BY <1>0 DEF TypeOK
    <3>2. /\ calls' \in Seq(CallType) /\ loading' \in BOOLEAN /\ spoiled' \in BOOLEAN
          /\ panel' = "searching" /\ UNCHANGED shown
          /\ SearchInv(calls', loading', offset')
      BY <1>0, <2>1, <3>1, NewSearchKeeps
    <3>3. TypeOK'
      BY <1>0, <1>3, <3>2 DEF Elapse, shown, TypeOK
    <3>. QED
      BY <1>0, <3>2, <3>3 DEF Inv, BatchesInOrder, shown
  <2>2. CASE UNCHANGED <<loading, shown, panel, calls, spoiled>>
    <3>1. TypeOK'
      BY <1>0, <1>3, <2>2 DEF Elapse, shown, TypeOK
    <3>. QED
      BY <1>0, <2>2, <3>1 DEF shown, Inv, BatchesInOrder
  <2>. QED
    BY <1>3, <2>1, <2>2 DEF Elapse
<1>4. CASE Work
  <2>1. PICK i \in DOMAIN calls :
          /\ \/ \E a \in {"ok", "failed"}, copy \in Copies \cup {None} :
                  /\ calls[i].type = "search" /\ a = "ok" => copy \in Copies
                  /\ calls' = [calls EXCEPT ![i].answer = a, ![i].copy = copy]
             \/ \E a \in {"ok", "failed"} :
                  /\ calls[i].type = "search" => a = "failed"
                  /\ calls' = [calls EXCEPT ![i].answer = a]
          /\ runtime' \in Copies \cup {None}
          /\ UNCHANGED <<page, spoiled>>
    <3>1. \A i \in DOMAIN calls : calls[i].copy \in Copies \cup {None}
      BY <1>0 DEF GoodCall, CallType
    <3>. QED
      BY <1>0, <1>4, <3>1 DEF Work, TypeOK
  <2>2. SearchInv(calls', loading, offset)
    <3>1. CASE \E a \in {"ok", "failed"}, copy \in Copies \cup {None} :
                 /\ calls[i].type = "search" /\ a = "ok" => copy \in Copies
                 /\ calls' = [calls EXCEPT ![i].answer = a, ![i].copy = copy]
      <4>1. PICK a \in {"ok", "failed"}, copy \in Copies \cup {None} :
              /\ calls[i].type = "search" /\ a = "ok" => copy \in Copies
              /\ calls' = [calls EXCEPT ![i].answer = a, ![i].copy = copy]
        BY <3>1
      <4>. QED
        BY <1>0, <4>1, AnswerGiven
    <3>2. CASE \E a \in {"ok", "failed"} :
                 /\ calls[i].type = "search" => a = "failed"
                 /\ calls' = [calls EXCEPT ![i].answer = a]
      <4>1. PICK a \in {"ok", "failed"} :
              /\ calls[i].type = "search" => a = "failed"
              /\ calls' = [calls EXCEPT ![i].answer = a]
        BY <3>2
      <4>2. None \in Copies \cup {None}
        OBVIOUS
      <4>. QED
        BY <1>0, <4>1, <4>2, AnswerGiven
    <3>. QED
      BY <2>1, <3>1, <3>2
  <2>3. calls' \in Seq(CallType)
    BY <2>2, GoodCalls DEF SearchInv
  <2>4. TypeOK'
    BY <1>0, <2>1, <2>3 DEF page, shown, TypeOK
  <2>. QED
    BY <1>0, <2>1, <2>2, <2>4 DEF page, shown, Inv, BatchesInOrder
<1>5. CASE Receive
  <2> DEFINE c == Head(calls)
             left == Tail(calls)
  <2>1. calls # << >> /\ c.answer # Asked /\ UNCHANGED runtime
    BY <1>5 DEF Receive
  <2>2. /\ c \in GoodCall
        /\ SearchInv(left, loading /\ ~ IsLive(c), offset)
        /\ IsLive(c) => loading
        /\ IsLive(c) /\ ~ c.reset => offset <= c.at
    BY <1>0, <2>1, HeadGone
  <2>3. c.answer \in {"ok", "failed"}
    BY <2>1, <2>2 DEF GoodCall, CallType
  <2>4. CASE c.waiting /\ Settled(c, c.answer, left)
    <3>. HIDE DEF c, left
    <3>. QED
      BY <2>1, <2>2, <2>3, <2>4, SettledKeeps
  <2>5. CASE ~ c.waiting /\ calls' = left /\ UNCHANGED <<page, spoiled>>
    <3>1. SearchInv(left, loading, offset)
      BY <2>2, <2>5 DEF IsLive, SearchInv
    <3>2. left \in Seq(CallType)
      BY <3>1, GoodCalls DEF SearchInv
    <3>3. TypeOK'
      BY <1>0, <2>1, <2>5, <3>2 DEF page, shown, TypeOK
    <3>. QED
      BY <1>0, <2>5, <3>1, <3>3 DEF page, shown, Inv, BatchesInOrder
  <2>. QED
    BY <1>5, <2>4, <2>5 DEF Receive
<1>6. CASE GiveUp
  <2>1. PICK i \in DOMAIN calls :
          /\ calls[i].waiting
          /\ Settled(calls[i], "late", [calls EXCEPT ![i].waiting = FALSE])
          /\ UNCHANGED runtime
    BY <1>6 DEF GiveUp
  <2>2. /\ calls[i] \in GoodCall
        /\ SearchInv([calls EXCEPT ![i].waiting = FALSE],
                     loading /\ ~ IsLive(calls[i]), offset)
        /\ IsLive(calls[i]) => loading
        /\ IsLive(calls[i]) /\ ~ calls[i].reset => offset <= calls[i].at
    BY <1>0, <2>1, GivenUp
  <2>. QED
    BY <2>1, <2>2, SettledKeeps
<1>7. CASE UNCHANGED vars
  BY <1>0, <1>7 DEF vars, page, shown, Inv, TypeOK, BatchesInOrder
<1>8. CASE Reopen
  BY <1>0, <1>8 DEF Reopen, shown, Inv, TypeOK, BatchesInOrder
<1>. QED
  BY <1>1, <1>2, <1>3, <1>4, <1>5, <1>6, <1>7, <1>8 DEF Next

-----------------------------------------------------------------------------
(* What the list and the queue of calls know of each other.                *)

Brought(c) == c.type = "import" /\ c.answer = "ok"
Changes(c) == c.type # "search" /\ c.answer = "ok"

\* What is given up or answered is a beginning of the queue.
InOrder(s) ==
  \A i, j \in DOMAIN s : i < j => /\ s[j].answer # Asked => s[i].answer # Asked
                                  /\ s[i].waiting => s[j].waiting

\* Nothing is searched before the worker has booted.
BootFirst(s) ==
  \A i, j \in DOMAIN s : s[i].type = "boot" => i = 1 /\ s[j].type # "search"

\* An answer is from the copy that the worker still has, unless a later call has
\* changed it.
FromTheCopy(s, r) ==
  \A j \in DOMAIN s :
    s[j].type = "search" /\ s[j].answer = "ok" /\ (\A k \in DOMAIN s : j < k => ~ Changes(s[k]))
      => s[j].copy = r

\* What was forgotten answers nothing; only an import brings another copy.
NothingAfter(s, r) ==
  \A i \in DOMAIN s :
    s[i].type = "forget" /\ s[i].answer = "ok" =>
      /\ r = None \/ \E k \in DOMAIN s : i < k /\ Brought(s[k])
      /\ \A j \in DOMAIN s : i < j /\ s[j].type = "search" /\ s[j].answer = "ok" =>
           \E k \in DOMAIN s : i < k /\ k < j /\ Brought(s[k])

QueueInv(s, r) == InOrder(s) /\ BootFirst(s) /\ FromTheCopy(s, r) /\ NothingAfter(s, r)

\* A new list is on its way.
Renews(s) == \E i \in DOMAIN s : IsLive(s[i]) /\ s[i].reset

\* The page does not know whether the worker does these.
GivenUpOn(s) == \E i \in DOMAIN s : s[i].type \in {"import", "forget"} /\ ~ s[i].waiting

\* A list of copy c, and the answer that will extend it, are of the copy that the
\* worker has, unless a call that the page is still to hear of has changed it.
Agrees(c, s, r) ==
  /\ (\A i \in DOMAIN s : ~ Changes(s[i])) => r = c
  /\ \A j \in DOMAIN s :
       IsLive(s[j]) /\ s[j].answer = "ok" /\ (\A i \in DOMAIN s : i < j => ~ Changes(s[i]))
         => s[j].copy = c

\* No search finds anything before an import.
Barren(s, r) ==
  \A j \in DOMAIN s : IsLive(s[j]) =>
    \/ s[j].answer = "failed"
    \/ s[j].answer = Asked /\ r = None
    \/ \E k \in DOMAIN s : k < j /\ Brought(s[k])

\* The search that is awaited is for what is wanted and for the next batch, while
\* the page has a copy (`rdy') and no typed query waits (`late').
Awaited(s, rdy, late, q, n) ==
  \A j \in DOMAIN s : IsLive(s[j]) =>
    /\ s[j].reset => s[j].at = 0
    /\ rdy /\ ~ s[j].reset => s[j].at = n
    /\ rdy /\ ~ late => s[j].query = q

ListOf(c) ==
  /\ total = Hits[c][wanted] /\ offset <= total
  /\ list = [i \in 1..offset |-> [query |-> wanted, copy |-> c, at |-> i]]

ReadyInv ==
  /\ GivenUpOn(calls) => Renews(calls)
  /\ ~ timer /\ ~ Renews(calls) => \E c \in Copies : ListOf(c) /\ Agrees(c, calls, runtime)

EmptyInv ==
  /\ list = << >> /\ total = 0 /\ offset = 0
  /\ ~ GivenUpOn(calls) /\ Barren(calls, runtime)

ListInv ==
  /\ QueueInv(calls, runtime)
  /\ Awaited(calls, ready, timer, wanted, offset)
  /\ ready => \A i \in DOMAIN calls : calls[i].type # "boot"
  /\ ~ spoiled => IF ready THEN ReadyInv ELSE EmptyInv

LEMMA ListInvAnswers == Inv /\ ListInv => ListAnswers
<1> SUFFICES ASSUME Inv, ListInv PROVE ListAnswers
  OBVIOUS
<1>1. ASSUME ready, ~ timer, ~ loading, ~ spoiled
      PROVE  \E c \in Copies :
               /\ total = Hits[c][wanted]
               /\ offset <= total
               /\ list = [i \in 1..offset |-> [query |-> wanted, copy |-> c, at |-> i]]
               /\ (\A i \in DOMAIN calls : calls[i].type = "search") => c = runtime
  <2>1. ~ Renews(calls)
    BY <1>1 DEF Inv, SearchInv, Renews
  <2>2. PICK c \in Copies : ListOf(c) /\ Agrees(c, calls, runtime)
    BY <1>1, <2>1 DEF ListInv, ReadyInv
  <2>3. (\A i \in DOMAIN calls : calls[i].type = "search") => c = runtime
    BY <2>2 DEF Agrees, Changes
  <2>. QED
    BY <2>2, <2>3 DEF ListOf
<1>2. ~ ready /\ ~ spoiled => list = << >> /\ total = 0
  BY DEF ListInv, EmptyInv
<1>. QED
  BY <1>1, <1>2 DEF ListAnswers

-----------------------------------------------------------------------------
(* The same for each way the queue changes.                                *)

LEMMA TailMap ==
  ASSUME NEW s \in Seq(GoodCall), s # << >>
  PROVE  /\ Tail(s) \in Seq(GoodCall)
         /\ 1 \in DOMAIN s /\ Head(s) = s[1]
         /\ \A i \in DOMAIN s : i \in Nat /\ i >= 1
         /\ \A i \in DOMAIN Tail(s) : i \in Nat /\ i >= 1 /\ i + 1 \in DOMAIN s /\ Tail(s)[i] = s[i + 1]
         /\ \A i \in DOMAIN s : i # 1 => i - 1 \in DOMAIN Tail(s) /\ Tail(s)[i - 1] = s[i]
<1>1. s \in Seq(GoodCall) /\ Len(s) \in Nat /\ Len(s) # 0
  OBVIOUS
<1>. QED
  BY <1>1

LEMMA AppendMap ==
  ASSUME NEW s \in Seq(GoodCall), NEW c \in GoodCall
  PROVE  /\ Append(s, c) \in Seq(GoodCall)
         /\ Len(s) + 1 \in DOMAIN Append(s, c) /\ Append(s, c)[Len(s) + 1] = c
         /\ \A i \in DOMAIN s : i \in Nat /\ i < Len(s) + 1
         /\ \A i \in DOMAIN s : i \in DOMAIN Append(s, c) /\ Append(s, c)[i] = s[i]
         /\ \A i \in DOMAIN Append(s, c) : i = Len(s) + 1 \/ i \in DOMAIN s
         /\ Len(s) + 1 \in Nat
OBVIOUS

\* A call joins the queue.
LEMMA JoinedQueue ==
  ASSUME NEW s \in Seq(GoodCall), NEW c \in GoodCall, NEW r,
         c.answer = Asked, c.waiting, c.type # "boot",
         c.type = "search" => \A i \in DOMAIN s : s[i].type # "boot",
         QueueInv(s, r)
  PROVE  QueueInv(Append(s, c), r)
<1> DEFINE t == Append(s, c)
           n == Len(s) + 1
<1>1. /\ n \in DOMAIN t /\ t[n] = c /\ n \in Nat
      /\ \A i \in DOMAIN s : i \in Nat /\ i < n /\ i \in DOMAIN t /\ t[i] = s[i]
      /\ \A i \in DOMAIN t : i = n \/ i \in DOMAIN s
  BY AppendMap
<1>2. ~ Changes(c) /\ ~ Brought(c) /\ ~ (c.answer = "ok")
  BY DEF Changes, Brought, Asked
<1>. HIDE DEF t, n
<1>3. InOrder(t)
  BY <1>1 DEF QueueInv, InOrder
<1>4. BootFirst(t)
  BY <1>1 DEF QueueInv, BootFirst
<1>5. FromTheCopy(t, r)
  <2> SUFFICES ASSUME NEW j \in DOMAIN t, t[j].type = "search", t[j].answer = "ok",
                      \A k \in DOMAIN t : j < k => ~ Changes(t[k])
               PROVE  t[j].copy = r
    BY DEF FromTheCopy
  <2>1. j \in DOMAIN s /\ t[j] = s[j]
    BY <1>1, <1>2
  <2>2. \A k \in DOMAIN s : j < k => ~ Changes(s[k])
    BY <1>1
  <2>. QED
    BY <2>1, <2>2 DEF QueueInv, FromTheCopy
<1>6. NothingAfter(t, r)
  <2> SUFFICES ASSUME NEW i \in DOMAIN t, t[i].type = "forget", t[i].answer = "ok"
               PROVE  /\ r = None \/ \E k \in DOMAIN t : i < k /\ Brought(t[k])
                      /\ \A j \in DOMAIN t : i < j /\ t[j].type = "search" /\ t[j].answer = "ok" =>
                           \E k \in DOMAIN t : i < k /\ k < j /\ Brought(t[k])
    BY DEF NothingAfter
  <2>1. i \in DOMAIN s /\ t[i] = s[i]
    BY <1>1, <1>2
  <2>2. /\ r = None \/ \E k \in DOMAIN s : i < k /\ Brought(s[k])
        /\ \A j \in DOMAIN s : i < j /\ s[j].type = "search" /\ s[j].answer = "ok" =>
             \E k \in DOMAIN s : i < k /\ k < j /\ Brought(s[k])
    BY <2>1 DEF QueueInv, NothingAfter
  <2>3. \A j \in DOMAIN t : i < j /\ t[j].type = "search" /\ t[j].answer = "ok" =>
             \E k \in DOMAIN t : i < k /\ k < j /\ Brought(t[k])
    BY <1>1, <1>2, <2>2
  <2>. QED
    BY <1>1, <2>2, <2>3
<1>. QED
  BY <1>3, <1>4, <1>5, <1>6 DEF QueueInv, t

LEMMA JoinedCalls ==
  ASSUME NEW s \in Seq(GoodCall), NEW c \in GoodCall, NEW r,
         c.answer = Asked, c.waiting, ~ (IsLive(c) /\ c.reset)
  PROVE  /\ GivenUpOn(Append(s, c)) => GivenUpOn(s)
         /\ Renews(Append(s, c)) <=> Renews(s)
         /\ \A x : Agrees(x, s, r) => Agrees(x, Append(s, c), r)
         /\ ~ IsLive(c) /\ Barren(s, r) => Barren(Append(s, c), r)
         /\ \A rdy, late, q, n :
              Awaited(s, rdy, late, q, n) /\ (IsLive(c) => c.at = n /\ c.query = q) =>
                Awaited(Append(s, c), rdy, late, q, n)
<1> DEFINE t == Append(s, c)
           m == Len(s) + 1
<1>1. /\ m \in DOMAIN t /\ t[m] = c /\ m \in Nat
      /\ \A i \in DOMAIN s : i \in Nat /\ i < m /\ i \in DOMAIN t /\ t[i] = s[i]
      /\ \A i \in DOMAIN t : i = m \/ i \in DOMAIN s
  BY AppendMap
<1>2. ~ Changes(c) /\ ~ (c.answer = "ok")
  BY DEF Changes, Asked
<1>. HIDE DEF t, m
<1>3. (GivenUpOn(t) => GivenUpOn(s)) /\ (Renews(t) <=> Renews(s))
  BY <1>1 DEF GivenUpOn, Renews
<1>4. ASSUME NEW x, Agrees(x, s, r) PROVE Agrees(x, t, r)
  BY <1>1, <1>2, <1>4 DEF Agrees
<1>5. ~ IsLive(c) /\ Barren(s, r) => Barren(t, r)
  BY <1>1 DEF Barren
<1>6. ASSUME NEW rdy, NEW late, NEW q, NEW n, Awaited(s, rdy, late, q, n),
             IsLive(c) => c.at = n /\ c.query = q
      PROVE  Awaited(t, rdy, late, q, n)
  BY <1>1, <1>6 DEF Awaited
<1>. QED
  BY <1>3, <1>4, <1>5, <1>6 DEF t

\* The head of the queue is gone.
LEMMA TailQueue ==
  ASSUME NEW s \in Seq(GoodCall), NEW r, s # << >>, QueueInv(s, r)
  PROVE  QueueInv(Tail(s), r)
<1> DEFINE t == Tail(s)
<1>1. /\ \A i \in DOMAIN s : i \in Nat /\ i >= 1
      /\ \A i \in DOMAIN t : i \in Nat /\ i >= 1 /\ i + 1 \in DOMAIN s /\ t[i] = s[i + 1]
      /\ \A i \in DOMAIN s : i # 1 => i - 1 \in DOMAIN t /\ t[i - 1] = s[i]
  BY TailMap
<1>. HIDE DEF t
<1>2. InOrder(t)
  <2> SUFFICES ASSUME NEW i \in DOMAIN t, NEW j \in DOMAIN t, i < j
               PROVE  /\ t[j].answer # Asked => t[i].answer # Asked
                      /\ t[i].waiting => t[j].waiting
    BY DEF InOrder
  <2>1. i + 1 < j + 1
    BY <1>1
  <2>. QED
    BY <1>1, <2>1 DEF QueueInv, InOrder
<1>3. BootFirst(t)
  <2> SUFFICES ASSUME NEW i \in DOMAIN t PROVE t[i].type # "boot"
    BY DEF BootFirst
  <2>. QED
    BY <1>1 DEF QueueInv, BootFirst
<1>4. FromTheCopy(t, r)
  <2> SUFFICES ASSUME NEW j \in DOMAIN t, t[j].type = "search", t[j].answer = "ok",
                      \A k \in DOMAIN t : j < k => ~ Changes(t[k])
               PROVE  t[j].copy = r
    BY DEF FromTheCopy
  <2>1. ASSUME NEW k \in DOMAIN s, j + 1 < k PROVE ~ Changes(s[k])
    <3>1. k # 1 /\ j < k - 1
      BY <1>1, <2>1
    <3>. QED
      BY <1>1, <3>1
  <2>. QED
    BY <1>1, <2>1 DEF QueueInv, FromTheCopy
<1>5. NothingAfter(t, r)
  <2> SUFFICES ASSUME NEW i \in DOMAIN t, t[i].type = "forget", t[i].answer = "ok"
               PROVE  /\ r = None \/ \E k \in DOMAIN t : i < k /\ Brought(t[k])
                      /\ \A j \in DOMAIN t : i < j /\ t[j].type = "search" /\ t[j].answer = "ok" =>
                           \E k \in DOMAIN t : i < k /\ k < j /\ Brought(t[k])
    BY DEF NothingAfter
  <2>1. /\ r = None \/ \E k \in DOMAIN s : i + 1 < k /\ Brought(s[k])
        /\ \A j \in DOMAIN s : i + 1 < j /\ s[j].type = "search" /\ s[j].answer = "ok" =>
             \E k \in DOMAIN s : i + 1 < k /\ k < j /\ Brought(s[k])
    BY <1>1 DEF QueueInv, NothingAfter
  <2>2. ASSUME NEW k \in DOMAIN s, i + 1 < k
        PROVE  k - 1 \in DOMAIN t /\ i < k - 1 /\ t[k - 1] = s[k]
    BY <1>1, <2>2
  <2>3. r = None \/ \E k \in DOMAIN t : i < k /\ Brought(t[k])
    BY <2>1, <2>2
  <2>4. ASSUME NEW j \in DOMAIN t, i < j, t[j].type = "search", t[j].answer = "ok"
        PROVE  \E k \in DOMAIN t : i < k /\ k < j /\ Brought(t[k])
    <3>1. j + 1 \in DOMAIN s /\ i + 1 < j + 1 /\ s[j + 1] = t[j]
      BY <1>1, <2>4
    <3>2. PICK k \in DOMAIN s : i + 1 < k /\ k < j + 1 /\ Brought(s[k])
      BY <2>1, <2>4, <3>1
    <3>3. k - 1 < j
      BY <1>1, <3>2
    <3>. QED
      BY <2>2, <3>2, <3>3
  <2>. QED
    BY <2>3, <2>4
<1>. QED
  BY <1>2, <1>3, <1>4, <1>5 DEF QueueInv, t

LEMMA TailCalls ==
  ASSUME NEW s \in Seq(GoodCall), NEW r, s # << >>
  PROVE  /\ GivenUpOn(Tail(s)) => GivenUpOn(s)
         /\ InOrder(s) /\ Head(s).waiting => ~ GivenUpOn(Tail(s))
         /\ Renews(Tail(s)) => Renews(s)
         /\ Renews(s) => Renews(Tail(s)) \/ (IsLive(Head(s)) /\ Head(s).reset)
         /\ \A x : Agrees(x, s, r) /\ ~ Changes(Head(s)) => Agrees(x, Tail(s), r)
         /\ Barren(s, r) /\ ~ Brought(Head(s)) => Barren(Tail(s), r)
         /\ \A rdy, late, q, n : Awaited(s, rdy, late, q, n) => Awaited(Tail(s), rdy, late, q, n)
<1> DEFINE t == Tail(s)
           h == Head(s)
<1>1. /\ 1 \in DOMAIN s /\ h = s[1]
      /\ \A i \in DOMAIN s : i \in Nat /\ i >= 1
      /\ \A i \in DOMAIN t : i \in Nat /\ i >= 1 /\ i + 1 \in DOMAIN s /\ t[i] = s[i + 1]
      /\ \A i \in DOMAIN s : i # 1 => i - 1 \in DOMAIN t /\ t[i - 1] = s[i]
  BY TailMap
<1>. HIDE DEF t, h
<1>2. GivenUpOn(t) => GivenUpOn(s)
  BY <1>1 DEF GivenUpOn
<1>3. ASSUME InOrder(s), h.waiting PROVE ~ GivenUpOn(t)
  <2>1. ASSUME NEW i \in DOMAIN t PROVE t[i].waiting
    <3>1. 1 < i + 1
      BY <1>1
    <3>. QED
      BY <1>1, <1>3, <3>1 DEF InOrder
  <2>. QED
    BY <2>1 DEF GivenUpOn
<1>4. (Renews(t) => Renews(s)) /\ (Renews(s) => Renews(t) \/ (IsLive(h) /\ h.reset))
  BY <1>1 DEF Renews
<1>5. ASSUME NEW x, Agrees(x, s, r), ~ Changes(h) PROVE Agrees(x, t, r)
  <2>1. ASSUME \A i \in DOMAIN t : ~ Changes(t[i]) PROVE r = x
    <3>1. \A i \in DOMAIN s : ~ Changes(s[i])
      BY <1>1, <1>5, <2>1
    <3>. QED
      BY <1>5, <3>1 DEF Agrees
  <2>2. ASSUME NEW j \in DOMAIN t, IsLive(t[j]), t[j].answer = "ok",
               \A i \in DOMAIN t : i < j => ~ Changes(t[i])
        PROVE  t[j].copy = x
    <3>1. ASSUME NEW i \in DOMAIN s, i < j + 1 PROVE ~ Changes(s[i])
      <4>1. CASE i = 1
        BY <1>1, <1>5, <4>1
      <4>2. CASE i # 1
        <5>1. i - 1 < j
          BY <1>1, <3>1
        <5>. QED
          BY <1>1, <2>2, <4>2, <5>1
      <4>. QED
        BY <4>1, <4>2
    <3>. QED
      BY <1>1, <1>5, <2>2, <3>1 DEF Agrees
  <2>. QED
    BY <2>1, <2>2 DEF Agrees
<1>6. ASSUME Barren(s, r), ~ Brought(h) PROVE Barren(t, r)
  <2> SUFFICES ASSUME NEW j \in DOMAIN t, IsLive(t[j])
               PROVE  \/ t[j].answer = "failed"
                      \/ t[j].answer = Asked /\ r = None
                      \/ \E k \in DOMAIN t : k < j /\ Brought(t[k])
    BY DEF Barren
  <2>1. \/ t[j].answer = "failed"
        \/ t[j].answer = Asked /\ r = None
        \/ \E k \in DOMAIN s : k < j + 1 /\ Brought(s[k])
    BY <1>1, <1>6 DEF Barren
  <2>2. ASSUME NEW k \in DOMAIN s, k < j + 1, Brought(s[k])
        PROVE  \E m \in DOMAIN t : m < j /\ Brought(t[m])
    <3>1. k # 1
      BY <1>1, <1>6, <2>2
    <3>2. k - 1 \in DOMAIN t /\ k - 1 < j /\ t[k - 1] = s[k]
      BY <1>1, <2>2, <3>1
    <3>. QED
      BY <2>2, <3>2
  <2>. QED
    BY <2>1, <2>2
<1>7. ASSUME NEW rdy, NEW late, NEW q, NEW n, Awaited(s, rdy, late, q, n)
      PROVE  Awaited(t, rdy, late, q, n)
  BY <1>1, <1>7 DEF Awaited
<1>. QED
  BY <1>2, <1>3, <1>4, <1>5, <1>6, <1>7 DEF t, h

\* A successful answer that is received first is from the copy that the worker
\* still has, unless a later call has changed it; one that says that the copy was
\* forgotten leaves nothing to be found.
LEMMA HeadTells ==
  ASSUME NEW s \in Seq(GoodCall), NEW r, s # << >>, QueueInv(s, r), Head(s).answer = "ok"
  PROVE  /\ Head(s).type = "search" /\ (\A i \in DOMAIN Tail(s) : ~ Changes(Tail(s)[i])) =>
              Head(s).copy = r
         /\ Head(s).type = "forget" => Barren(Tail(s), r)
<1> DEFINE t == Tail(s)
<1>1. /\ 1 \in DOMAIN s /\ Head(s) = s[1]
      /\ \A i \in DOMAIN s : i \in Nat /\ i >= 1
      /\ \A i \in DOMAIN t : i \in Nat /\ i >= 1 /\ i + 1 \in DOMAIN s /\ t[i] = s[i + 1]
      /\ \A i \in DOMAIN s : i # 1 => i - 1 \in DOMAIN t /\ t[i - 1] = s[i]
  BY TailMap
<1>. HIDE DEF t
<1>2. ASSUME Head(s).type = "search", \A i \in DOMAIN t : ~ Changes(t[i])
      PROVE  Head(s).copy = r
  <2>1. \A k \in DOMAIN s : 1 < k => ~ Changes(s[k])
    BY <1>1, <1>2
  <2>. QED
    BY <1>1, <1>2, <2>1 DEF QueueInv, FromTheCopy
<1>3. ASSUME Head(s).type = "forget" PROVE Barren(t, r)
  <2> SUFFICES ASSUME NEW j \in DOMAIN t, IsLive(t[j])
               PROVE  \/ t[j].answer = "failed"
                      \/ t[j].answer = Asked /\ r = None
                      \/ \E k \in DOMAIN t : k < j /\ Brought(t[k])
    BY DEF Barren
  <2>1. j + 1 \in DOMAIN s /\ s[j + 1] = t[j] /\ 1 < j + 1 /\ t[j].type = "search"
    BY <1>1 DEF IsLive
  <2>2. /\ r = None \/ \E k \in DOMAIN s : 1 < k /\ Brought(s[k])
        /\ t[j].answer = "ok" => \E k \in DOMAIN s : 1 < k /\ k < j + 1 /\ Brought(s[k])
    BY <1>1, <1>3, <2>1 DEF QueueInv, NothingAfter
  <2>3. ASSUME NEW k \in DOMAIN s, 1 < k, k < j + 1, Brought(s[k])
        PROVE  \E m \in DOMAIN t : m < j /\ Brought(t[m])
    <3>1. k - 1 \in DOMAIN t /\ k - 1 < j /\ t[k - 1] = s[k]
      BY <1>1, <2>3
    <3>. QED
      BY <2>3, <3>1
  <2>4. CASE t[j].answer = Asked /\ r # None
    <3>1. PICK k \in DOMAIN s : 1 < k /\ Brought(s[k])
      BY <2>2, <2>4
    <3>2. s[k].answer # Asked /\ k # j + 1
      BY <2>1, <3>1 DEF Brought, Asked
    <3>3. ~ (j + 1 < k)
      BY <2>1, <2>4, <3>2 DEF QueueInv, InOrder
    <3>4. k < j + 1
      BY <1>1, <2>1, <3>2, <3>3
    <3>. QED
      BY <2>3, <3>1, <3>4
  <2>5. t[j].answer \in {Asked, "ok", "failed"}
    <3>1. s[j + 1] \in GoodCall
      BY <2>1
    <3>. QED
      BY <2>1, <3>1 DEF GoodCall, CallType
  <2>. QED
    BY <2>2, <2>3, <2>4, <2>5
<1>. QED
  BY <1>2, <1>3 DEF t

\* The order of the queue and what the worker does are kept if calls change in
\* nothing but who awaits them.
LEMMA SameQueue ==
  ASSUME NEW s \in Seq(GoodCall), NEW t \in Seq(GoodCall), NEW r, QueueInv(s, r),
         DOMAIN t = DOMAIN s,
         \A i \in DOMAIN s : t[i].type = s[i].type /\ t[i].answer = s[i].answer /\ t[i].copy = s[i].copy,
         \A i, j \in DOMAIN s : i < j /\ t[i].waiting => t[j].waiting
  PROVE  QueueInv(t, r)
<1>1. \A i \in DOMAIN s : (Changes(t[i]) <=> Changes(s[i])) /\ (Brought(t[i]) <=> Brought(s[i]))
  BY DEF Changes, Brought
<1>2. InOrder(t) /\ BootFirst(t)
  BY DEF QueueInv, InOrder, BootFirst
<1>3. FromTheCopy(t, r)
  BY <1>1 DEF QueueInv, FromTheCopy
<1>4. NothingAfter(t, r)
  <2> SUFFICES ASSUME NEW i \in DOMAIN s, s[i].type = "forget", s[i].answer = "ok"
               PROVE  /\ r = None \/ \E k \in DOMAIN t : i < k /\ Brought(t[k])
                      /\ \A j \in DOMAIN t : i < j /\ t[j].type = "search" /\ t[j].answer = "ok" =>
                           \E k \in DOMAIN t : i < k /\ k < j /\ Brought(t[k])
    BY DEF NothingAfter
  <2>1. /\ r = None \/ \E k \in DOMAIN s : i < k /\ Brought(s[k])
        /\ \A j \in DOMAIN s : i < j /\ s[j].type = "search" /\ s[j].answer = "ok" =>
             \E k \in DOMAIN s : i < k /\ k < j /\ Brought(s[k])
    BY DEF QueueInv, NothingAfter
  <2>. QED
    BY <1>1, <2>1
<1>. QED
  BY <1>2, <1>3, <1>4 DEF QueueInv

\* A call is given up, the first of those that were awaited.
GivenUpIn(s, k, t) ==
  /\ k \in DOMAIN s /\ s[k].waiting /\ \A j \in 1..(k - 1) : ~ s[j].waiting
  /\ t = [s EXCEPT ![k].waiting = FALSE]

LEMMA GivenUpQueue ==
  ASSUME NEW s \in Seq(GoodCall), NEW t, NEW r, NEW k, QueueInv(s, r), GivenUpIn(s, k, t)
  PROVE  /\ t \in Seq(GoodCall) /\ QueueInv(t, r)
         /\ GivenUpOn(t) => GivenUpOn(s) \/ s[k].type \in {"import", "forget"}
         /\ Renews(t) => Renews(s)
         /\ Renews(s) => Renews(t) \/ (IsLive(s[k]) /\ s[k].reset)
         /\ \A x : Agrees(x, s, r) => Agrees(x, t, r)
         /\ Barren(s, r) => Barren(t, r)
         /\ \A rdy, late, q, n : Awaited(s, rdy, late, q, n) => Awaited(t, rdy, late, q, n)
         /\ \A i \in DOMAIN t : i \in DOMAIN s /\ t[i].type = s[i].type
<1>. USE DEF GivenUpIn
<1>1. s[k] \in GoodCall /\ [s[k] EXCEPT !.waiting = FALSE] \in GoodCall
  <2>1. s[k] \in GoodCall
    OBVIOUS
  <2>. QED
    BY <2>1 DEF GoodCall, CallType
<1>2. t \in Seq(GoodCall) /\ DOMAIN t = DOMAIN s
  BY <1>1
<1>3. /\ t[k] = [s[k] EXCEPT !.waiting = FALSE]
      /\ \A i \in DOMAIN s : i # k => t[i] = s[i]
  OBVIOUS
<1>4. /\ t[k].type = s[k].type /\ t[k].answer = s[k].answer /\ t[k].copy = s[k].copy
      /\ t[k].waiting = FALSE /\ ~ IsLive(t[k])
  BY <1>1, <1>3 DEF GoodCall, CallType, IsLive
<1>5. \A i, j \in DOMAIN s : i < j /\ t[i].waiting => t[j].waiting
  <2> SUFFICES ASSUME NEW i \in DOMAIN s, NEW j \in DOMAIN s, i < j, t[i].waiting
               PROVE  t[j].waiting
    OBVIOUS
  <2>1. i # k /\ s[i].waiting
    BY <1>3, <1>4
  <2>2. i \in Nat /\ i >= 1 /\ j \in Nat /\ k \in Nat
    OBVIOUS
  <2>3. ~ (i < k)
    BY <2>1, <2>2
  <2>4. j # k
    BY <2>2, <2>3
  <2>. QED
    BY <1>3, <2>1, <2>4 DEF QueueInv, InOrder
<1>6. QueueInv(t, r)
  <2>1. \A i \in DOMAIN s : t[i].type = s[i].type /\ t[i].answer = s[i].answer /\ t[i].copy = s[i].copy
    BY <1>3, <1>4
  <2>. QED
    BY <1>2, <1>5, <2>1, SameQueue
<1>7. \A i \in DOMAIN s : (Changes(t[i]) <=> Changes(s[i])) /\ (Brought(t[i]) <=> Brought(s[i]))
  BY <1>3, <1>4 DEF Changes, Brought
<1>8. \A i \in DOMAIN s : IsLive(t[i]) => i # k /\ t[i] = s[i]
  BY <1>3, <1>4
<1>9. /\ GivenUpOn(t) => GivenUpOn(s) \/ s[k].type \in {"import", "forget"}
      /\ Renews(t) => Renews(s)
      /\ Renews(s) => Renews(t) \/ (IsLive(s[k]) /\ s[k].reset)
  BY <1>2, <1>3, <1>4, <1>8 DEF GivenUpOn, Renews
<1>10. \A x : Agrees(x, s, r) => Agrees(x, t, r)
  BY <1>2, <1>7, <1>8 DEF Agrees
<1>11. Barren(s, r) => Barren(t, r)
  BY <1>2, <1>7, <1>8 DEF Barren
<1>12. \A rdy, late, q, n : Awaited(s, rdy, late, q, n) => Awaited(t, rdy, late, q, n)
  BY <1>2, <1>8 DEF Awaited
<1>. QED
  BY <1>2, <1>3, <1>4, <1>6, <1>9, <1>10, <1>11, <1>12

\* The worker answers a call, the first that it has not answered: it fails, finds
\* something in the copy it has, or has another copy or none afterwards.
AnsweredIn(s, k, t, r, new) ==
  /\ k \in DOMAIN s /\ s[k].answer = Asked
  /\ \A j \in 1..(k - 1) : s[j].answer # Asked
  /\ DOMAIN t = DOMAIN s /\ \A i \in DOMAIN s : i # k => t[i] = s[i]
  /\ t[k].type = s[k].type /\ t[k].waiting = s[k].waiting /\ t[k].reset = s[k].reset
  /\ t[k].at = s[k].at /\ t[k].query = s[k].query /\ t[k].current = s[k].current
  /\ \/ t[k].answer = "failed" /\ new = r
     \/ /\ s[k].type = "search" /\ t[k].answer = "ok"
        /\ t[k].copy = r /\ r # None /\ new = r
     \/ s[k].type \in {"boot", "import"} /\ t[k].answer = "ok"
     \/ s[k].type = "forget" /\ t[k].answer = "ok" /\ new = None

LEMMA WorkedQueue ==
  ASSUME NEW s \in Seq(GoodCall), NEW t \in Seq(GoodCall), NEW r, NEW new, NEW k,
         QueueInv(s, r), AnsweredIn(s, k, t, r, new)
  PROVE  /\ QueueInv(t, new)
         /\ GivenUpOn(t) <=> GivenUpOn(s)
         /\ Renews(t) <=> Renews(s)
         /\ \A x : Agrees(x, s, r) => Agrees(x, t, new)
         /\ Barren(s, r) => Barren(t, new)
         /\ \A rdy, late, q, n : Awaited(s, rdy, late, q, n) => Awaited(t, rdy, late, q, n)
         /\ \A i \in DOMAIN t : i \in DOMAIN s /\ t[i].type = s[i].type
<1>. USE DEF AnsweredIn
<1>1. /\ k \in Nat /\ k >= 1
      /\ \A i \in DOMAIN s : i \in Nat /\ i >= 1 /\ (i < k => s[i].answer # Asked)
      /\ \A i \in DOMAIN s : k < i => s[i].answer = Asked
  <2>1. k \in Nat /\ k >= 1 /\ \A i \in DOMAIN s : i \in Nat /\ i >= 1
    OBVIOUS
  <2>. QED
    BY <2>1 DEF QueueInv, InOrder
<1>2. t[k].answer \in {"ok", "failed"} /\ t[k].answer # Asked
  BY DEF Asked
<1>3. ~ Changes(s[k]) /\ ~ Brought(s[k]) /\ (IsLive(t[k]) <=> IsLive(s[k]))
  BY DEF Changes, Brought, Asked, IsLive
<1>4. \A i \in DOMAIN s : /\ Changes(s[i]) => Changes(t[i]) /\ i < k
                          /\ Brought(s[i]) => Brought(t[i]) /\ i < k
  <2> SUFFICES ASSUME NEW i \in DOMAIN s
               PROVE  /\ Changes(s[i]) => Changes(t[i]) /\ i < k
                      /\ Brought(s[i]) => Brought(t[i]) /\ i < k
    OBVIOUS
  <2>1. CASE i = k
    BY <1>3, <2>1
  <2>2. CASE i # k
    <3>1. s[i].answer = "ok" => i < k
      BY <1>1, <2>2 DEF Asked
    <3>. QED
      BY <2>2, <3>1 DEF Changes, Brought
  <2>. QED
    BY <2>1, <2>2
<1>5. \/ new = r /\ ~ Changes(t[k])
      \/ k = 1 /\ \A i \in DOMAIN s : s[i].type # "search"
      \/ Brought(t[k])
      \/ new = None
  <2>1. CASE t[k].answer = "failed" /\ new = r
    BY <2>1 DEF Changes
  <2>2. CASE s[k].type = "search" /\ t[k].answer = "ok" /\ new = r
    BY <2>2 DEF Changes
  <2>3. CASE s[k].type = "boot"
    BY <2>3 DEF QueueInv, BootFirst
  <2>4. CASE s[k].type = "import" /\ t[k].answer = "ok"
    BY <2>4 DEF Brought
  <2>. QED
    BY <2>1, <2>2, <2>3, <2>4
<1>6. s[k].type = "search" /\ t[k].answer = "ok" => t[k].copy = r /\ r # None /\ new = r
  OBVIOUS
<1>7. InOrder(t)
  <2> SUFFICES ASSUME NEW i \in DOMAIN s, NEW j \in DOMAIN s, i < j
               PROVE  /\ t[j].answer # Asked => t[i].answer # Asked
                      /\ t[i].waiting => t[j].waiting
    BY DEF InOrder
  <2>1. t[i].waiting = s[i].waiting /\ t[j].waiting = s[j].waiting
    OBVIOUS
  <2>2. s[i].waiting => s[j].waiting
    BY DEF QueueInv, InOrder
  <2>3. ASSUME t[j].answer # Asked PROVE t[i].answer # Asked
    <3>1. CASE i = k
      BY <1>2, <3>1
    <3>2. CASE i # k /\ j = k
      BY <1>1, <3>2
    <3>3. CASE i # k /\ j # k
      BY <2>3, <3>3 DEF QueueInv, InOrder
    <3>. QED
      BY <3>1, <3>2, <3>3
  <2>. QED
    BY <2>1, <2>2, <2>3
<1>8. BootFirst(t)
  <2>1. \A i \in DOMAIN s : t[i].type = s[i].type
    OBVIOUS
  <2>. QED
    BY <2>1 DEF QueueInv, BootFirst
<1>9. FromTheCopy(t, new)
  <2> SUFFICES ASSUME NEW j \in DOMAIN s, t[j].type = "search", t[j].answer = "ok",
                      \A m \in DOMAIN s : j < m => ~ Changes(t[m])
               PROVE  t[j].copy = new
    BY DEF FromTheCopy
  <2>1. CASE j = k
    BY <1>6, <2>1
  <2>2. CASE j # k
    <3>1. t[j] = s[j] /\ j < k
      BY <1>1, <2>2 DEF Asked
    <3>2. ~ Changes(t[k])
      BY <3>1
    <3>3. new = r
      <4>1. ~ (s[k].type \in {"boot", "import", "forget"} /\ t[k].answer = "ok")
        BY <3>2 DEF Changes
      <4>. QED
        BY <4>1
    <3>4. \A m \in DOMAIN s : j < m => ~ Changes(s[m])
      BY <1>4
    <3>. QED
      BY <3>1, <3>3, <3>4 DEF QueueInv, FromTheCopy
  <2>. QED
    BY <2>1, <2>2
<1>10. NothingAfter(t, new)
  <2> SUFFICES ASSUME NEW i \in DOMAIN s, t[i].type = "forget", t[i].answer = "ok"
               PROVE  /\ new = None \/ \E m \in DOMAIN s : i < m /\ Brought(t[m])
                      /\ \A j \in DOMAIN s : i < j /\ t[j].type = "search" /\ t[j].answer = "ok" =>
                           \E m \in DOMAIN s : i < m /\ m < j /\ Brought(t[m])
    BY DEF NothingAfter
  <2>1. CASE i = k
    <3>1. new = None
      BY <2>1
    <3>2. ASSUME NEW j \in DOMAIN s, i < j PROVE t[j].answer # "ok"
      <4>1. j # k /\ s[j].answer = Asked
        BY <1>1, <2>1, <3>2
      <4>. QED
        BY <4>1 DEF Asked
    <3>. QED
      BY <3>1, <3>2
  <2>2. CASE i # k
    <3>1. t[i] = s[i] /\ i < k
      BY <1>1, <2>2 DEF Asked
    <3>2. /\ r = None \/ \E m \in DOMAIN s : i < m /\ Brought(s[m])
          /\ \A j \in DOMAIN s : i < j /\ s[j].type = "search" /\ s[j].answer = "ok" =>
               \E m \in DOMAIN s : i < m /\ m < j /\ Brought(s[m])
      BY <3>1 DEF QueueInv, NothingAfter
    <3>3. new = None \/ \E m \in DOMAIN s : i < m /\ Brought(t[m])
      <4>1. k # 1
        BY <1>1, <3>1
      <4>. QED
        BY <1>4, <1>5, <3>1, <3>2, <4>1
    <3>4. ASSUME NEW j \in DOMAIN s, i < j, t[j].type = "search", t[j].answer = "ok"
          PROVE  \E m \in DOMAIN s : i < m /\ m < j /\ Brought(t[m])
      <4>1. CASE j = k
        <5>1. PICK m \in DOMAIN s : i < m /\ Brought(s[m])
          BY <1>6, <3>2, <3>4, <4>1
        <5>. QED
          BY <1>4, <4>1, <5>1
      <4>2. CASE j # k
        <5>1. PICK m \in DOMAIN s : i < m /\ m < j /\ Brought(s[m])
          BY <3>2, <3>4, <4>2
        <5>. QED
          BY <1>4, <5>1
      <4>. QED
        BY <4>1, <4>2
    <3>. QED
      BY <3>3, <3>4
  <2>. QED
    BY <2>1, <2>2
<1>11. (GivenUpOn(t) <=> GivenUpOn(s)) /\ (Renews(t) <=> Renews(s))
  <2>1. \A i \in DOMAIN s : /\ t[i].type = s[i].type /\ t[i].waiting = s[i].waiting
                            /\ t[i].reset = s[i].reset /\ (IsLive(t[i]) <=> IsLive(s[i]))
    BY <1>3
  <2>. QED
    BY <2>1 DEF GivenUpOn, Renews
<1>12. ASSUME NEW x, Agrees(x, s, r) PROVE Agrees(x, t, new)
  <2>1. ASSUME \A i \in DOMAIN s : ~ Changes(t[i]) PROVE new = x
    <3>1. \A i \in DOMAIN s : ~ Changes(s[i])
      BY <1>4, <2>1
    <3>2. r = x
      BY <1>12, <3>1 DEF Agrees
    <3>3. ~ (s[k].type \in {"boot", "import", "forget"} /\ t[k].answer = "ok")
      BY <2>1 DEF Changes
    <3>. QED
      BY <3>2, <3>3
  <2>2. ASSUME NEW j \in DOMAIN s, IsLive(t[j]), t[j].answer = "ok",
               \A i \in DOMAIN s : i < j => ~ Changes(t[i])
        PROVE  t[j].copy = x
    <3>1. CASE j = k
      <4>1. \A i \in DOMAIN s : ~ Changes(s[i])
        BY <1>4, <2>2, <3>1
      <4>2. r = x
        BY <1>12, <4>1 DEF Agrees
      <4>. QED
        BY <1>6, <2>2, <3>1, <4>2 DEF IsLive
    <3>2. CASE j # k
      <4>1. \A i \in DOMAIN s : i < j => ~ Changes(s[i])
        BY <1>4, <2>2
      <4>. QED
        BY <1>12, <2>2, <3>2, <4>1 DEF Agrees
    <3>. QED
      BY <3>1, <3>2
  <2>. QED
    BY <2>1, <2>2 DEF Agrees
<1>13. ASSUME Barren(s, r) PROVE Barren(t, new)
  <2> SUFFICES ASSUME NEW j \in DOMAIN s, IsLive(t[j])
               PROVE  \/ t[j].answer = "failed"
                      \/ t[j].answer = Asked /\ new = None
                      \/ \E m \in DOMAIN s : m < j /\ Brought(t[m])
    BY DEF Barren
  <2>1. /\ IsLive(s[j])
        /\ \/ s[j].answer = "failed"
           \/ s[j].answer = Asked /\ r = None
           \/ \E m \in DOMAIN s : m < j /\ Brought(s[m])
    <3>1. IsLive(s[j])
      BY <1>3
    <3>. QED
      BY <1>13, <3>1 DEF Barren
  <2>2. CASE j = k
    BY <1>2, <1>4, <1>6, <2>1, <2>2 DEF IsLive, Asked
  <2>3. CASE j # k
    <3>1. t[j] = s[j] /\ s[j].type = "search"
      BY <2>1, <2>3 DEF IsLive
    <3>2. s[j].answer = Asked => k < j
      BY <1>1, <2>3
    <3>. QED
      BY <1>4, <1>5, <2>1, <3>1, <3>2
  <2>. QED
    BY <2>2, <2>3
<1>14. \A rdy, late, q, n : Awaited(s, rdy, late, q, n) => Awaited(t, rdy, late, q, n)
  <2>1. \A i \in DOMAIN s : /\ t[i].at = s[i].at /\ t[i].query = s[i].query
                            /\ t[i].reset = s[i].reset /\ (IsLive(t[i]) <=> IsLive(s[i]))
    BY <1>3
  <2>. QED
    BY <2>1 DEF Awaited
<1>15. \A i \in DOMAIN t : i \in DOMAIN s /\ t[i].type = s[i].type
  OBVIOUS
<1>. QED
  BY <1>7, <1>8, <1>9, <1>10, <1>11, <1>12, <1>13, <1>14, <1>15 DEF QueueInv

-----------------------------------------------------------------------------
(* The same for each step of the page.                                     *)

\* A search of a new generation: no list is promised until it is answered.
LEMMA NewSearchList ==
  ASSUME NEW s \in Seq(GoodCall), NEW q \in Queries, QueueInv(s, runtime),
         \A i \in DOMAIN s : s[i].type # "boot",
         NewSearch(q, s), wanted' = q, ready', UNCHANGED runtime
  PROVE  ListInv'
<1> DEFINE u == Supersede(s)
           c == Call("search", q, 0, TRUE, None)
           t == Append(u, c)
<1>1. ASSUME NEW i \in DOMAIN s
      PROVE  /\ [s[i] EXCEPT !.current = FALSE] \in GoodCall
             /\ LET x == [s[i] EXCEPT !.current = FALSE]
                IN  /\ x.type = s[i].type /\ x.answer = s[i].answer /\ x.copy = s[i].copy
                    /\ x.waiting = s[i].waiting /\ ~ IsLive(x)
  <2>1. s[i] \in GoodCall
    OBVIOUS
  <2>. QED
    BY <2>1 DEF GoodCall, CallType, IsLive
<1>2. u \in Seq(GoodCall) /\ DOMAIN u = DOMAIN s
  BY <1>1 DEF Supersede
<1>3. \A i \in DOMAIN s : /\ u[i].type = s[i].type /\ u[i].answer = s[i].answer
                          /\ u[i].copy = s[i].copy /\ u[i].waiting = s[i].waiting /\ ~ IsLive(u[i])
  BY <1>1 DEF Supersede
<1>4. QueueInv(u, runtime)
  <2>1. \A i, j \in DOMAIN s : i < j /\ u[i].waiting => u[j].waiting
    BY <1>3 DEF QueueInv, InOrder
  <2>. QED
    BY <1>2, <1>3, <2>1, SameQueue
<1>5. /\ c \in GoodCall /\ IsLive(c) /\ c.reset /\ c.at = 0 /\ c.query = q
      /\ c.answer = Asked /\ c.waiting /\ c.type = "search"
  BY DEF Call, GoodCall, CallType, IsLive, Asked
<1>. HIDE DEF u, c
<1>6. QueueInv(t, runtime)
  BY <1>2, <1>3, <1>4, <1>5, JoinedQueue
<1>7. /\ Len(u) + 1 \in DOMAIN t /\ t[Len(u) + 1] = c
      /\ \A i \in DOMAIN u : t[i] = u[i]
      /\ \A i \in DOMAIN t : i = Len(u) + 1 \/ i \in DOMAIN u
  BY <1>2, <1>5, AppendMap
<1>. HIDE DEF t
<1>8. /\ Renews(t)
      /\ \A n, late : Awaited(t, TRUE, late, q, n)
      /\ \A i \in DOMAIN t : t[i].type # "boot"
  BY <1>2, <1>3, <1>5, <1>7 DEF Renews, Awaited
<1>9. calls' = t /\ spoiled' = FALSE
  BY DEF NewSearch, t, u, c
<1>10. Awaited(calls', ready', timer', wanted', offset')
  BY <1>8, <1>9 DEF Awaited
<1>11. ReadyInv'
  BY <1>8, <1>9 DEF ReadyInv
<1>. QED
  BY <1>6, <1>8, <1>9, <1>10, <1>11 DEF ListInv

\* A call that is no search joins the queue.
LEMMA OtherList ==
  ASSUME Inv, ListInv, NEW type \in {"import", "forget"}, NEW copy \in Copies \cup {None},
         calls' = Append(calls, Other(type, copy)),
         UNCHANGED <<wanted, timer, ready, shown, runtime, spoiled>>
  PROVE  ListInv'
<1> DEFINE c == Other(type, copy)
<1>1. /\ c \in GoodCall /\ ~ IsLive(c) /\ c.answer = Asked /\ c.waiting
      /\ c.type = type
  BY DEF Other, Call, GoodCall, CallType, IsLive, Asked
<1>2. calls \in Seq(GoodCall) /\ QueueInv(calls, runtime)
  BY DEF Inv, SearchInv, ListInv
<1>. HIDE DEF c
<1>3. QueueInv(calls', runtime)
  BY <1>1, <1>2, JoinedQueue DEF c
<1>4. /\ GivenUpOn(calls') => GivenUpOn(calls)
      /\ Renews(calls') <=> Renews(calls)
      /\ \A x : Agrees(x, calls, runtime) => Agrees(x, calls', runtime)
      /\ Barren(calls, runtime) => Barren(calls', runtime)
      /\ \A rdy, late, q, n : Awaited(calls, rdy, late, q, n) => Awaited(calls', rdy, late, q, n)
  BY <1>1, <1>2, JoinedCalls DEF c
<1>5. \A i \in DOMAIN calls' :
        calls'[i].type # "boot" \/ (i \in DOMAIN calls /\ calls'[i] = calls[i])
  BY <1>1, <1>2, AppendMap DEF c
<1>6. UNCHANGED <<wanted, timer, ready, total, offset, list, runtime, spoiled>>
  BY DEF shown
<1>7. ~ spoiled /\ ready => ReadyInv'
  BY <1>4, <1>6 DEF ListInv, ReadyInv, ListOf
<1>8. ~ spoiled /\ ~ ready => EmptyInv'
  BY <1>4, <1>6 DEF ListInv, EmptyInv
<1>. QED
  BY <1>3, <1>4, <1>5, <1>6, <1>7, <1>8 DEF ListInv

\* A call is settled: what it leaves of the queue and what its answer says are
\* given by the lemmas above.
LEMMA SettledList ==
  ASSUME Inv, ListInv, NEW c \in GoodCall, c.waiting,
         NEW answer \in {"ok", "failed", "late"}, answer = "ok" => c.answer = "ok",
         NEW left \in Seq(GoodCall), QueueInv(left, runtime),
         c.type = "boot" => ~ ready,
         ready \/ answer = "ok" => \A i \in DOMAIN left : left[i].type # "boot",
         \A rdy, late, q, n : Awaited(calls, rdy, late, q, n) => Awaited(left, rdy, late, q, n),
         GivenUpOn(left) => /\ answer = "late"
                            /\ GivenUpOn(calls) \/ c.type \in {"import", "forget"},
         Renews(left) => Renews(calls),
         Renews(calls) => Renews(left) \/ (IsLive(c) /\ c.reset),
         IsLive(c) => \A i \in DOMAIN left : ~ IsLive(left[i]),
         \A x : Agrees(x, calls, runtime) /\ (answer = "ok" => c.type = "search") =>
                  Agrees(x, left, runtime),
         Barren(calls, runtime) /\ (answer = "ok" => c.type # "import") => Barren(left, runtime),
         answer = "ok" /\ c.type = "forget" => Barren(left, runtime),
         answer = "ok" /\ c.type = "search" /\ (\A i \in DOMAIN left : ~ Changes(left[i])) =>
           c.copy = runtime,
         \A x : answer = "ok" /\ IsLive(c) /\ Agrees(x, calls, runtime) => c.copy = x,
         answer = "ok" /\ IsLive(c) => ~ Barren(calls, runtime),
         IsLive(c) => /\ c.reset => c.at = 0
                      /\ ready /\ ~ c.reset => c.at = offset
                      /\ ready /\ ~ timer => c.query = wanted,
         Settled(c, answer, left), UNCHANGED runtime
  PROVE  ListInv'
<1>0. /\ Awaited(left, ready, timer, wanted, offset)
      /\ ready => \A i \in DOMAIN left : left[i].type # "boot"
      /\ wanted \in Queries
  BY DEF ListInv, Inv, TypeOK
<1>1. ASSUME calls' = left, UNCHANGED <<wanted, timer, ready, shown>>,
             spoiled => spoiled', ~ spoiled' => ~ (IsLive(c) /\ c.reset),
             ~ spoiled' /\ answer = "late" => c.type \notin {"import", "forget"},
             answer = "ok" => c.type = "search" \/ (c.type = "boot" /\ ~ ready)
      PROVE  ListInv'
  <2>1. UNCHANGED <<wanted, timer, ready, total, offset, list, runtime>>
    BY <1>1 DEF shown
  <2>2. ASSUME ~ spoiled', ready PROVE ReadyInv'
    <3>1. ReadyInv /\ (Renews(calls) <=> Renews(left))
      BY <1>1, <2>2 DEF ListInv
    <3>2. GivenUpOn(left) => GivenUpOn(calls)
      BY <1>1, <2>2
    <3>3. \A x : Agrees(x, calls, runtime) => Agrees(x, left, runtime)
      BY <1>1, <2>2
    <3>. QED
      BY <1>1, <2>1, <3>1, <3>2, <3>3 DEF ReadyInv, ListOf
  <2>3. ASSUME ~ spoiled', ~ ready PROVE EmptyInv'
    <3>1. EmptyInv /\ ~ GivenUpOn(left) /\ Barren(left, runtime)
      BY <1>1, <2>3 DEF ListInv, EmptyInv
    <3>. QED
      BY <1>1, <2>1, <3>1 DEF EmptyInv
  <2>. QED
    BY <1>0, <1>1, <2>1, <2>2, <2>3 DEF ListInv
<1>2. CASE SearchSettled(c, answer, left)
  <2>1. CASE c.current /\ answer = "ok" /\ ShowBatch(c, left)
    <3>1. IsLive(c) /\ c.query \in Queries /\ c.copy \in Copies /\ c.type = "search"
      BY <1>2, <2>1 DEF SearchSettled, IsLive, GoodCall
    <3> DEFINE found == Hits[c.copy][c.query]
               next == [query |-> c.query, copy |-> c.copy, at |-> c.at + 1]
               batch == IF c.at < found THEN << next >> ELSE << >>
    <3>2. /\ total' = found /\ list' = (IF c.reset THEN << >> ELSE list) \o batch
          /\ offset' = c.at + Len(batch) /\ calls' = left
          /\ UNCHANGED <<wanted, timer, ready, spoiled, runtime>>
      BY <2>1 DEF ShowBatch
    <3>3. found \in Nat /\ c.at \in Nat
      <4>1. c \in CallType
        BY DEF GoodCall
      <4>. QED
        BY <3>1, <4>1, PageAssumption DEF CallType
    <3>4. ~ Renews(left)
      BY <3>1 DEF Renews
    <3>5. ASSUME ~ spoiled, ready, ~ timer PROVE \E x \in Copies : ListOf(x)' /\ Agrees(x, left, runtime)
      <4>1. c.query = wanted
        BY <3>1, <3>5
      <4>2. CASE c.reset
        <5>1. Agrees(c.copy, left, runtime)
          BY <2>1, <3>1 DEF Agrees
        <5>2. ListOf(c.copy)'
          <6>1. c.at = 0 /\ list' = batch /\ offset' = Len(batch) /\ total' = found
            BY <3>1, <3>2, <4>2
          <6>2. CASE 0 < found
            <7>1. list' = << next >> /\ offset' = 1
              BY <6>1, <6>2
            <7>2. \A i \in 1..1 : << next >>[i] = [query |-> wanted, copy |-> c.copy, at |-> i]
              BY <4>1, <6>1
            <7>3. << next >> = [i \in 1..1 |-> [query |-> wanted, copy |-> c.copy, at |-> i]]
              BY <7>2
            <7>4. total' = Hits[c.copy][wanted'] /\ offset' <= total'
              BY <3>2, <3>3, <4>1, <6>1, <6>2, <7>1
            <7>5. list' = [i \in 1..offset' |-> [query |-> wanted', copy |-> c.copy, at |-> i]]
              BY <3>2, <7>1, <7>3
            <7>. QED
              BY <7>4, <7>5 DEF ListOf
          <6>3. CASE found = 0
            <7>1. list' = << >> /\ offset' = 0
              BY <6>1, <6>3
            <7>2. << >> = [i \in 1..0 |-> [query |-> wanted, copy |-> c.copy, at |-> i]]
              OBVIOUS
            <7>. QED
              BY <3>2, <3>3, <4>1, <6>1, <6>3, <7>1, <7>2 DEF ListOf
          <6>. QED
            BY <3>3, <6>2, <6>3
        <5>. QED
          BY <3>1, <5>1, <5>2
      <4>3. CASE ~ c.reset
        <5>1. ReadyInv /\ ~ Renews(calls)
          BY <3>4, <3>5, <4>3 DEF ListInv
        <5>2. PICK x \in Copies : ListOf(x) /\ Agrees(x, calls, runtime)
          BY <3>5, <5>1 DEF ReadyInv
        <5>3. c.copy = x /\ Agrees(x, left, runtime) /\ c.at = offset
          BY <2>1, <3>1, <3>5, <4>3, <5>2
        <5>4. ListOf(x)'
          <6>1. /\ total = found /\ offset <= total /\ offset \in Nat
                /\ list = [i \in 1..offset |-> [query |-> wanted, copy |-> x, at |-> i]]
                /\ list' = list \o batch /\ list \in Seq(Batch)
            BY <3>2, <4>1, <4>3, <5>2, <5>3 DEF ListOf, Inv, TypeOK
          <6>2. CASE c.at < found
            <7>1. list' = Append(list, next) /\ offset' = offset + 1
              BY <3>2, <5>3, <6>1, <6>2
            <7>2. Len(list) = offset
              BY <6>1
            <7>3. next = [query |-> wanted, copy |-> x, at |-> offset + 1]
              BY <4>1, <5>3
            <7>. HIDE DEF next, batch, found
            <7>4. Append(list, next) =
                    [i \in 1..(offset + 1) |-> [query |-> wanted, copy |-> x, at |-> i]]
              BY <6>1, <7>2, <7>3
            <7>5. total' = found /\ offset + 1 <= found
              BY <3>2, <3>3, <5>3, <6>1, <6>2
            <7>. QED
              BY <3>2, <4>1, <5>3, <6>1, <7>1, <7>4, <7>5 DEF ListOf, found
          <6>3. CASE ~ (c.at < found)
            <7>1. list' = list /\ offset' = offset
              BY <3>2, <5>3, <6>1, <6>3
            <7>. QED
              BY <3>2, <5>2, <6>1, <7>1 DEF ListOf
          <6>. QED
            BY <6>2, <6>3
        <5>. QED
          BY <5>3, <5>4
      <4>. QED
        BY <4>2, <4>3
    <3>6. ~ spoiled /\ ready => ReadyInv'
      BY <2>1, <3>2, <3>4, <3>5 DEF ReadyInv
    <3>7. ~ spoiled => ready
      BY <2>1, <3>1 DEF ListInv, EmptyInv
    <3>8. Awaited(left, ready, timer, wanted, offset')
      BY <3>1 DEF Awaited
    <3>. QED
      BY <1>0, <3>2, <3>6, <3>7, <3>8 DEF ListInv
  <2>2. CASE c.current /\ answer # "ok" /\ StopSearch(c, left)
    BY <1>1, <1>2, <2>2 DEF StopSearch, SearchSettled
  <2>3. CASE ~ c.current /\ calls' = left /\ UNCHANGED <<page, spoiled>>
    BY <1>1, <1>2, <2>3 DEF page, SearchSettled, IsLive
  <2>. QED
    BY <1>2, <2>1, <2>2, <2>3 DEF SearchSettled
<1>3. CASE BootSettled(c, answer, left)
  <2>1. CASE answer = "ok" /\ ready' = TRUE /\ NewSearch(wanted, left)
    BY <1>0, <1>3, <2>1, NewSearchList DEF BootSettled
  <2>2. CASE calls' = left /\ UNCHANGED <<ready, loading, shown, spoiled>>
    BY <1>1, <1>3, <2>2 DEF BootSettled, IsLive
  <2>. QED
    BY <1>3, <2>1, <2>2 DEF BootSettled
<1>4. CASE ImportSettled(c, answer, left)
  <2>1. CASE answer = "ok" /\ ready' = TRUE /\ NewSearch(wanted, left)
    BY <1>0, <1>4, <2>1, NewSearchList DEF ImportSettled
  <2>2. CASE /\ answer # "ok" /\ calls' = left
             /\ spoiled' = (spoiled \/ answer = "late")
             /\ UNCHANGED <<ready, loading, shown, panel>>
    BY <1>1, <1>4, <2>2 DEF ImportSettled, IsLive
  <2>. QED
    BY <1>4, <2>1, <2>2 DEF ImportSettled
<1>5. CASE ForgetSettled(c, answer, left)
  <2>1. CASE /\ answer = "ok"
             /\ ready' = FALSE
             /\ total' = 0 /\ offset' = 0 /\ list' = << >>
             /\ UNCHANGED spoiled
    <3>1. /\ calls' = left /\ UNCHANGED <<wanted, timer, runtime>>
          /\ c.type = "forget"
      BY <1>5 DEF ForgetSettled
    <3>2. EmptyInv'
      BY <2>1, <3>1 DEF EmptyInv
    <3>3. Awaited(left, FALSE, timer, wanted, 0)
      BY <1>0 DEF Awaited
    <3>. QED
      BY <2>1, <3>1, <3>2, <3>3 DEF ListInv
  <2>2. CASE /\ answer # "ok" /\ spoiled' = (spoiled \/ answer = "late")
             /\ UNCHANGED <<ready, shown, panel>>
    BY <1>1, <1>5, <2>2 DEF ForgetSettled, IsLive
  <2>. QED
    BY <1>5, <2>1, <2>2 DEF ForgetSettled
<1>. QED
  BY <1>2, <1>3, <1>4, <1>5 DEF Settled

LEMMA ListInvInit == Init => ListInv
<1> SUFFICES ASSUME Init PROVE ListInv
  OBVIOUS
<1>1. /\ DOMAIN calls = 1..1 /\ calls[1].type = "boot" /\ calls[1].answer = Asked
      /\ calls[1].waiting
  BY DEF Init, Other, Call
<1>2. \A i \in DOMAIN calls : i = 1
  BY <1>1
<1>3. QueueInv(calls, runtime)
  BY <1>1, <1>2 DEF QueueInv, InOrder, BootFirst, FromTheCopy, NothingAfter
<1>4. /\ Awaited(calls, ready, timer, wanted, offset)
      /\ Barren(calls, runtime) /\ ~ GivenUpOn(calls)
  BY <1>1, <1>2 DEF Awaited, Barren, GivenUpOn, IsLive
<1>. QED
  BY <1>3, <1>4 DEF ListInv, EmptyInv, Init

\* Neither the list nor the queue is touched, and no search is put off.
LEMMA SameList ==
  ASSUME ListInv, UNCHANGED <<wanted, ready, shown, calls, runtime, spoiled>>,
         timer' = timer \/ ~ ready
  PROVE  ListInv'
<1>1. UNCHANGED <<wanted, ready, total, offset, list, calls, runtime, spoiled>>
  BY DEF shown
<1>2. Awaited(calls, ready, timer', wanted, offset)
  BY DEF ListInv, Awaited
<1>3. ~ spoiled /\ ready => ReadyInv'
  BY <1>1 DEF ListInv, ReadyInv, ListOf
<1>4. ~ spoiled /\ ~ ready => EmptyInv'
  BY <1>1 DEF ListInv, EmptyInv
<1>. QED
  BY <1>1, <1>2, <1>3, <1>4 DEF ListInv

LEMMA ListInvUser == Inv /\ ListInv /\ User /\ UNCHANGED runtime => ListInv'
<1> SUFFICES ASSUME Inv, ListInv, User, UNCHANGED runtime PROVE ListInv'
  OBVIOUS
<1>0. /\ calls \in Seq(GoodCall) /\ QueueInv(calls, runtime) /\ wanted \in Queries
      /\ ready => \A i \in DOMAIN calls : calls[i].type # "boot"
  BY DEF Inv, SearchInv, TypeOK, ListInv
<1>1. ASSUME NEW q \in Queries, Type(q) PROVE ListInv'
  <2>1. /\ ready /\ timer' /\ UNCHANGED <<ready, total, offset, list, calls, runtime, spoiled>>
    BY <1>1 DEF Type, shown
  <2>2. Awaited(calls, ready, timer', wanted', offset)
    BY <2>1 DEF ListInv, Awaited
  <2>3. ~ spoiled => ReadyInv'
    BY <2>1 DEF ListInv, ReadyInv
  <2>. QED
    BY <1>0, <2>1, <2>2, <2>3 DEF ListInv
<1>2. ASSUME NEW q \in Queries, Choose(q) PROVE ListInv'
  <2>1. ready /\ NewSearch(q, calls) /\ wanted' = q /\ UNCHANGED ready
    BY <1>2 DEF Choose
  <2>. QED
    BY <1>0, <2>1, NewSearchList
<1>3. CASE Retry
  <2>1. ready /\ NewSearch(wanted, calls) /\ wanted' = wanted /\ UNCHANGED ready
    BY <1>3 DEF Retry
  <2>. QED
    BY <1>0, <2>1, NewSearchList
<1>4. CASE Scroll
  <2> DEFINE c == Call("search", wanted, offset, FALSE, None)
  <2>1. /\ c \in GoodCall /\ IsLive(c) /\ ~ c.reset /\ c.at = offset /\ c.query = wanted
        /\ c.answer = Asked /\ c.waiting /\ c.type = "search"
    BY <1>0 DEF Call, GoodCall, CallType, IsLive, Asked, Inv, TypeOK
  <2>2. /\ calls' = Append(calls, c) /\ ~ loading /\ ready
        /\ UNCHANGED <<wanted, timer, ready, total, offset, list, runtime, spoiled>>
    BY <1>4 DEF Scroll, shown
  <2>. HIDE DEF c
  <2>3. \A i \in DOMAIN calls' : calls'[i].type # "boot"
    BY <1>0, <2>1, <2>2, AppendMap
  <2>4. QueueInv(calls', runtime)
    BY <1>0, <2>1, <2>2, JoinedQueue
  <2>5. /\ GivenUpOn(calls') => GivenUpOn(calls)
        /\ Renews(calls') <=> Renews(calls)
        /\ \A x : Agrees(x, calls, runtime) => Agrees(x, calls', runtime)
        /\ Awaited(calls, ready, timer, wanted, offset) =>
             Awaited(calls', ready, timer, wanted, offset)
    BY <1>0, <2>1, <2>2, JoinedCalls
  <2>6. ~ spoiled => ReadyInv'
    BY <2>2, <2>5 DEF ListInv, ReadyInv, ListOf
  <2>. QED
    BY <2>2, <2>3, <2>4, <2>5, <2>6 DEF ListInv
<1>5. CASE Submit
  BY <1>5, SameList DEF Submit
<1>6. CASE Forget
  <2>1. /\ calls' = Append(calls, Other("forget", None))
        /\ UNCHANGED <<wanted, timer, ready, shown, runtime, spoiled>>
    BY <1>6 DEF Forget, page
  <2>. QED
    BY <2>1, OtherList
<1>. QED
  BY <1>1, <1>2, <1>3, <1>4, <1>5, <1>6 DEF User

LEMMA ListInvWork == Inv /\ ListInv /\ Work => ListInv'
<1> SUFFICES ASSUME Inv, ListInv, Work PROVE ListInv'
  OBVIOUS
<1>0. calls \in Seq(GoodCall) /\ QueueInv(calls, runtime) /\ calls' \in Seq(GoodCall)
  <2>1. Inv'
    BY InvStep DEF Next
  <2>. QED
    BY <2>1 DEF Inv, SearchInv, ListInv
<1>1. UNCHANGED <<wanted, timer, ready, total, offset, list, spoiled>>
  BY DEF Work, page, shown
<1>2. PICK k \in DOMAIN calls :
        /\ calls[k].answer = Asked
        /\ \A j \in 1..(k - 1) : calls[j].answer # Asked
        /\ \/ /\ calls' = [calls EXCEPT ![k].answer = "failed"]
              /\ UNCHANGED runtime
           \/ /\ calls[k].type = "search" /\ runtime # None
              /\ calls' = [calls EXCEPT ![k].answer = "ok", ![k].copy = runtime]
              /\ UNCHANGED runtime
           \/ /\ calls[k].type = "boot"
              /\ calls' = [calls EXCEPT ![k].answer = "ok", ![k].copy = runtime']
           \/ /\ calls[k].type = "import"
              /\ calls' = [calls EXCEPT ![k].answer = "ok"]
           \/ /\ calls[k].type = "forget" /\ runtime' = None
              /\ calls' = [calls EXCEPT ![k].answer = "ok"]
  BY DEF Work
<1>3. /\ DOMAIN calls' = DOMAIN calls
      /\ \A i \in DOMAIN calls : i # k => calls'[i] = calls[i]
  BY <1>0, <1>2
<1>4. \E a \in {"ok", "failed"}, x \in {calls[k].copy, runtime, runtime'} :
        /\ calls'[k] = [calls[k] EXCEPT !.answer = a, !.copy = x]
        /\ \/ a = "failed" /\ runtime' = runtime
           \/ calls[k].type = "search" /\ a = "ok" /\ x = runtime /\ runtime # None /\ runtime' = runtime
           \/ calls[k].type \in {"boot", "import"} /\ a = "ok"
           \/ calls[k].type = "forget" /\ a = "ok" /\ runtime' = None
  <2>1. calls[k] \in CallType
    BY <1>0 DEF GoodCall
  <2>2. [calls[k] EXCEPT !.answer = "failed"] = [calls[k] EXCEPT !.answer = "failed", !.copy = calls[k].copy]
    BY <2>1 DEF CallType
  <2>3. [calls[k] EXCEPT !.answer = "ok"] = [calls[k] EXCEPT !.answer = "ok", !.copy = calls[k].copy]
    BY <2>1 DEF CallType
  <2>4. CASE calls' = [calls EXCEPT ![k].answer = "failed"] /\ UNCHANGED runtime
    BY <1>0, <2>2, <2>4
  <2>5. CASE /\ calls[k].type = "search" /\ runtime # None /\ UNCHANGED runtime
             /\ calls' = [calls EXCEPT ![k].answer = "ok", ![k].copy = runtime]
    <3>1. calls'[k] = [calls[k] EXCEPT !.answer = "ok", !.copy = runtime]
      BY <1>0, <2>5
    <3>. QED
      BY <2>5, <3>1
  <2>6. CASE /\ calls[k].type = "boot"
             /\ calls' = [calls EXCEPT ![k].answer = "ok", ![k].copy = runtime']
    <3>1. calls'[k] = [calls[k] EXCEPT !.answer = "ok", !.copy = runtime']
      BY <1>0, <2>6
    <3>. QED
      BY <2>6, <3>1
  <2>7. CASE /\ \/ calls[k].type = "import"
                \/ calls[k].type = "forget" /\ runtime' = None
             /\ calls' = [calls EXCEPT ![k].answer = "ok"]
    <3>1. calls'[k] = [calls[k] EXCEPT !.answer = "ok"]
      BY <1>0, <2>7
    <3>. QED
      BY <2>3, <2>7, <3>1
  <2>. QED
    BY <1>2, <2>4, <2>5, <2>6, <2>7
<1>5. PICK a \in {"ok", "failed"}, x \in {calls[k].copy, runtime, runtime'} :
        /\ calls'[k] = [calls[k] EXCEPT !.answer = a, !.copy = x]
        /\ \/ a = "failed" /\ runtime' = runtime
           \/ calls[k].type = "search" /\ a = "ok" /\ x = runtime /\ runtime # None /\ runtime' = runtime
           \/ calls[k].type \in {"boot", "import"} /\ a = "ok"
           \/ calls[k].type = "forget" /\ a = "ok" /\ runtime' = None
  BY <1>4
<1>6. /\ calls'[k].type = calls[k].type /\ calls'[k].waiting = calls[k].waiting
      /\ calls'[k].reset = calls[k].reset /\ calls'[k].at = calls[k].at
      /\ calls'[k].query = calls[k].query /\ calls'[k].current = calls[k].current
      /\ calls'[k].answer = a /\ calls'[k].copy = x
  <2>1. calls[k] \in CallType
    BY <1>0 DEF GoodCall
  <2>. QED
    BY <1>5, <2>1 DEF CallType
<1>10. \/ calls'[k].answer = "failed" /\ runtime' = runtime
       \/ /\ calls[k].type = "search" /\ calls'[k].answer = "ok"
          /\ calls'[k].copy = runtime /\ runtime # None /\ runtime' = runtime
       \/ calls[k].type \in {"boot", "import"} /\ calls'[k].answer = "ok"
       \/ calls[k].type = "forget" /\ calls'[k].answer = "ok" /\ runtime' = None
  BY <1>5, <1>6
<1>11. /\ calls[k].answer = Asked
       /\ \A j \in 1..(k - 1) : calls[j].answer # Asked
  BY <1>2
<1>12. AnsweredIn(calls, k, calls', runtime, runtime')
  BY <1>3, <1>6, <1>10, <1>11 DEF AnsweredIn
<1>7. /\ QueueInv(calls', runtime')
      /\ GivenUpOn(calls') <=> GivenUpOn(calls)
      /\ Renews(calls') <=> Renews(calls)
      /\ \A c : Agrees(c, calls, runtime) => Agrees(c, calls', runtime')
      /\ Barren(calls, runtime) => Barren(calls', runtime')
      /\ \A rdy, late, q, n : Awaited(calls, rdy, late, q, n) => Awaited(calls', rdy, late, q, n)
      /\ \A i \in DOMAIN calls' : i \in DOMAIN calls /\ calls'[i].type = calls[i].type
  BY <1>0, <1>12, WorkedQueue
<1>8. ~ spoiled /\ ready => ReadyInv'
  BY <1>1, <1>7 DEF ListInv, ReadyInv, ListOf
<1>9. ~ spoiled /\ ~ ready => EmptyInv'
  BY <1>1, <1>7 DEF ListInv, EmptyInv
<1>. QED
  BY <1>1, <1>7, <1>8, <1>9 DEF ListInv

LEMMA ListInvReceive == Inv /\ ListInv /\ Receive => ListInv'
<1> SUFFICES ASSUME Inv, ListInv, Receive PROVE ListInv'
  OBVIOUS
<1> DEFINE c == Head(calls)
           left == Tail(calls)
<1>0. /\ calls \in Seq(GoodCall) /\ QueueInv(calls, runtime) /\ calls # << >>
      /\ c.answer # Asked /\ UNCHANGED runtime
  BY DEF Inv, SearchInv, ListInv, Receive
<1>1. /\ c \in GoodCall /\ left \in Seq(GoodCall)
      /\ 1 \in DOMAIN calls /\ c = calls[1]
      /\ \A i \in DOMAIN calls : i \in Nat /\ i >= 1
      /\ \A i \in DOMAIN left : i \in Nat /\ i >= 1 /\ i + 1 \in DOMAIN calls /\ left[i] = calls[i + 1]
  BY <1>0, TailMap
<1>2. QueueInv(left, runtime)
  BY <1>0, TailQueue
<1>3. \A i \in DOMAIN left : left[i].type # "boot"
  BY <1>0, <1>1 DEF QueueInv, BootFirst
<1>4. /\ GivenUpOn(left) => GivenUpOn(calls)
      /\ c.waiting => ~ GivenUpOn(left)
      /\ Renews(left) => Renews(calls)
      /\ Renews(calls) => Renews(left) \/ (IsLive(c) /\ c.reset)
      /\ \A x : Agrees(x, calls, runtime) /\ ~ Changes(c) => Agrees(x, left, runtime)
      /\ Barren(calls, runtime) /\ ~ Brought(c) => Barren(left, runtime)
      /\ \A rdy, late, q, n : Awaited(calls, rdy, late, q, n) => Awaited(left, rdy, late, q, n)
  BY <1>0, TailCalls DEF QueueInv
<1>5. c.answer \in {"ok", "failed"}
  BY <1>0, <1>1 DEF GoodCall, CallType
<1>6. CASE c.waiting /\ Settled(c, c.answer, left)
  <2>1. c.type = "boot" => ~ ready
    BY <1>1 DEF ListInv
  <2>2. ASSUME IsLive(c) PROVE \A i \in DOMAIN left : ~ IsLive(left[i])
    <3> SUFFICES ASSUME NEW i \in DOMAIN left, IsLive(left[i]) PROVE FALSE
      OBVIOUS
    <3>1. i + 1 = 1
      BY <1>1, <2>2 DEF Inv, SearchInv
    <3>. QED
      BY <1>1, <3>1
  <2>3. \A x : Agrees(x, calls, runtime) /\ (c.answer = "ok" => c.type = "search") =>
                 Agrees(x, left, runtime)
    BY <1>4 DEF Changes
  <2>4. Barren(calls, runtime) /\ (c.answer = "ok" => c.type # "import") => Barren(left, runtime)
    BY <1>4 DEF Brought
  <2>5. /\ c.answer = "ok" /\ c.type = "forget" => Barren(left, runtime)
        /\ c.answer = "ok" /\ c.type = "search" /\ (\A i \in DOMAIN left : ~ Changes(left[i])) =>
             c.copy = runtime
    BY <1>0, HeadTells
  <2>6. \A i \in DOMAIN calls : ~ (i < 1)
    BY <1>1
  <2>7. \A x : c.answer = "ok" /\ IsLive(c) /\ Agrees(x, calls, runtime) => c.copy = x
    BY <1>1, <2>6 DEF Agrees
  <2>8. c.answer = "ok" /\ IsLive(c) => ~ Barren(calls, runtime)
    BY <1>1, <2>6 DEF Barren, Asked
  <2>9. IsLive(c) => /\ c.reset => c.at = 0
                     /\ ready /\ ~ c.reset => c.at = offset
                     /\ ready /\ ~ timer => c.query = wanted
    BY <1>1 DEF ListInv, Awaited
  <2>. HIDE DEF c, left
  <2>. QED
    BY <1>0, <1>1, <1>2, <1>3, <1>4, <1>5, <1>6, <2>1, <2>2, <2>3, <2>4, <2>5, <2>7, <2>8, <2>9,
       SettledList
<1>7. CASE ~ c.waiting /\ calls' = left /\ UNCHANGED <<page, spoiled>>
  <2>1. UNCHANGED <<wanted, timer, ready, total, offset, list, runtime, spoiled>>
    BY <1>0, <1>7 DEF page, shown
  <2>2. ~ IsLive(c)
    BY <1>7 DEF IsLive
  <2>3. c.type \in {"boot", "search", "import", "forget"}
    BY <1>1 DEF GoodCall, CallType
  <2>4. c.type \in {"import", "forget"} => GivenUpOn(calls)
    BY <1>1, <1>7 DEF GivenUpOn
  <2>. HIDE DEF c, left
  <2>5. ASSUME ~ spoiled, ready PROVE ReadyInv'
    <3>1. ReadyInv /\ (Renews(calls) <=> Renews(left)) /\ c.type # "boot"
      BY <1>1, <1>4, <2>2, <2>5 DEF ListInv
    <3>2. ~ Renews(calls) => ~ Changes(c)
      BY <2>3, <2>4, <3>1 DEF ReadyInv, Changes
    <3>. QED
      BY <1>4, <1>7, <2>1, <3>1, <3>2 DEF ReadyInv, ListOf
  <2>6. ASSUME ~ spoiled, ~ ready PROVE EmptyInv'
    <3>1. EmptyInv /\ ~ Brought(c)
      BY <2>4, <2>6 DEF ListInv, EmptyInv, Brought
    <3>. QED
      BY <1>4, <1>7, <2>1, <3>1 DEF EmptyInv
  <2>. QED
    BY <1>2, <1>3, <1>4, <1>7, <2>1, <2>5, <2>6 DEF ListInv
<1>. QED
  BY <1>6, <1>7 DEF Receive

LEMMA ListInvGiveUp == Inv /\ ListInv /\ GiveUp => ListInv'
<1> SUFFICES ASSUME Inv, ListInv, GiveUp PROVE ListInv'
  OBVIOUS
<1>0. calls \in Seq(GoodCall) /\ QueueInv(calls, runtime)
  BY DEF Inv, SearchInv, ListInv
<1>1. PICK k \in DOMAIN calls :
        /\ calls[k].waiting
        /\ \A j \in 1..(k - 1) : ~ calls[j].waiting
        /\ Settled(calls[k], "late", [calls EXCEPT ![k].waiting = FALSE])
        /\ UNCHANGED runtime
  BY DEF GiveUp
<1>10. calls[k].waiting /\ \A j \in 1..(k - 1) : ~ calls[j].waiting
  BY <1>1
<1> DEFINE c == calls[k]
           left == [calls EXCEPT ![k].waiting = FALSE]
<1>11. GivenUpIn(calls, k, left) /\ c = calls[k]
  BY <1>10 DEF GivenUpIn
<1> HIDE DEF c, left
<1>2. /\ left \in Seq(GoodCall) /\ QueueInv(left, runtime)
      /\ GivenUpOn(left) => GivenUpOn(calls) \/ c.type \in {"import", "forget"}
      /\ Renews(left) => Renews(calls)
      /\ Renews(calls) => Renews(left) \/ (IsLive(c) /\ c.reset)
      /\ \A x : Agrees(x, calls, runtime) => Agrees(x, left, runtime)
      /\ Barren(calls, runtime) => Barren(left, runtime)
      /\ \A rdy, late, q, n : Awaited(calls, rdy, late, q, n) => Awaited(left, rdy, late, q, n)
      /\ \A i \in DOMAIN left : i \in DOMAIN calls /\ left[i].type = calls[i].type
  BY <1>0, <1>11, GivenUpQueue
<1> USE DEF c, left
<1>3. c \in GoodCall
  BY <1>0
<1>4. ASSUME IsLive(c) PROVE \A i \in DOMAIN left : ~ IsLive(left[i])
  <2>1. ~ IsLive(left[k])
    BY <1>0, <1>3 DEF IsLive, GoodCall, CallType
  <2>2. \A i \in DOMAIN left : i # k => left[i] = calls[i] /\ i \in DOMAIN calls
    BY <1>0
  <2>. QED
    BY <1>4, <2>1, <2>2 DEF Inv, SearchInv
<1>5. c.type = "boot" => ~ ready
  BY DEF ListInv
<1>6. ready => \A i \in DOMAIN left : left[i].type # "boot"
  BY <1>2 DEF ListInv
<1>7. IsLive(c) => /\ c.reset => c.at = 0
                   /\ ready /\ ~ c.reset => c.at = offset
                   /\ ready /\ ~ timer => c.query = wanted
  BY DEF ListInv, Awaited
<1>8. c.waiting /\ Settled(c, "late", left) /\ UNCHANGED runtime
  BY <1>1
<1> DEFINE answer == "late"
<1>9. answer = "late" /\ answer # "ok" /\ answer \in {"ok", "failed", "late"} /\ Settled(c, answer, left)
  BY <1>8
<1>. HIDE DEF c, left, answer
<1>. QED
  BY <1>2, <1>3, <1>4, <1>5, <1>6, <1>7, <1>8, <1>9, SettledList

LEMMA ListInvStep == Inv /\ ListInv /\ [Next]_vars => ListInv'
<1> SUFFICES ASSUME Inv, ListInv, [Next]_vars PROVE ListInv'
  OBVIOUS
<1>1. CASE User
  <2>1. UNCHANGED runtime
    BY <1>1 DEF User, Type, Choose, Retry, Scroll, Submit, Forget
  <2>. QED
    BY <1>1, <2>1, ListInvUser
<1>2. CASE Reopen
  BY <1>2, SameList DEF Reopen
<1>3. CASE Download
  <2>1. UNCHANGED <<wanted, timer, ready, shown, runtime, spoiled>>
    BY <1>3 DEF Download
  <2>2. CASE \E c \in Copies : calls' = Append(calls, Other("import", c))
    <3>1. PICK c \in Copies : calls' = Append(calls, Other("import", c))
      BY <2>2
    <3>. QED
      BY <2>1, <3>1, OtherList
  <2>3. CASE UNCHANGED calls
    BY <2>1, <2>3, SameList
  <2>. QED
    BY <1>3, <2>2, <2>3 DEF Download
<1>4. CASE Elapse
  <2>1. UNCHANGED <<wanted, ready, runtime>>
    BY <1>4 DEF Elapse
  <2>2. CASE ready /\ NewSearch(wanted, calls)
    <3>1. /\ calls \in Seq(GoodCall) /\ QueueInv(calls, runtime) /\ wanted \in Queries
          /\ \A i \in DOMAIN calls : calls[i].type # "boot"
      BY <2>2 DEF Inv, SearchInv, TypeOK, ListInv
    <3>. QED
      BY <2>1, <2>2, <3>1, NewSearchList
  <2>3. CASE ~ ready /\ UNCHANGED <<shown, calls, spoiled>>
    BY <2>1, <2>3, SameList
  <2>. QED
    BY <1>4, <2>2, <2>3 DEF Elapse
<1>5. CASE Work
  BY <1>5, ListInvWork
<1>6. CASE Receive
  BY <1>6, ListInvReceive
<1>7. CASE GiveUp
  BY <1>7, ListInvGiveUp
<1>8. CASE UNCHANGED vars
  BY <1>8, SameList DEF vars, page
<1>. QED
  BY <1>1, <1>2, <1>3, <1>4, <1>5, <1>6, <1>7, <1>8 DEF Next

\* The types and the two invariants together (courses.js, runSearch).
LEMMA PageInvariant == Spec => []Inv
BY InitInv, InvStep, PTL DEF Spec

\* The type invariant of the page and its calls (courses.js, state).
THEOREM PageTypeCorrect == Spec => []TypeOK
BY PageInvariant, PTL DEF Inv

\* The page is loading exactly while one search of the present generation is
\* awaited (runSearch's generation and loadingSearch).
THEOREM OneSearchAtATime == Spec => []OneSearch
BY PageInvariant, InvOneSearch, PTL

\* No batch is shown twice or out of order, whatever fails, comes late or is
\* given up (runSearch's offset).
THEOREM BatchesStayInOrder == Spec => []BatchesInOrder
BY PageInvariant, PTL DEF Inv

\* The list at rest is what the worker finds for what is wanted, whatever was
\* superseded, came late, was given up or went on in the background (runSearch,
\* importCatalog, forgetCatalog).
THEOREM ListAlwaysAnswers == Spec => []ListAnswers
<1>1. Init /\ Inv => ListInv
  BY ListInvInit
<1>2. Inv /\ ListInv /\ [Next]_vars => ListInv'
  BY ListInvStep
<1>3. Inv /\ ListInv => ListAnswers
  BY ListInvAnswers
<1>. QED
  BY <1>1, <1>2, <1>3, PageInvariant, PTL DEF Spec

================================================================================
