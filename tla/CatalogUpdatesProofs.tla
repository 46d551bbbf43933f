-------------------------- MODULE CatalogUpdatesProofs --------------------------
(***************************************************************************)
(* Proofs about CatalogUpdates: for any files, any number of checks and of *)
(* imports under way, whatever is answered late, lost or refused.          *)
(***************************************************************************)
EXTENDS CatalogUpdates, TLAPS

\* An import that the worker has done had a version.
Call == {c \in CallType : c.type = "import" /\ c.answer = "ok" => c.label \in Files}

\* An import of the file in place under its own version.
Right == {c \in Call : c.type = "import" /\ c.label = c.holds}

Known ==
  /\ calls \in Seq(Call)
  /\ ready => label \in Files
  /\ \A k \in Checks : checks[k].step = "told" => checks[k].says # Unknown

\* What an update in a quiet tab rests on: until its own check has told it of the
\* file in place nothing is downloaded, and what is told after that is the same.
Steady ==
  /\ ready
  /\ calls \in Seq(Right)
  /\ \A k \in Checks : /\ checks[k].why \notin Forms
                       /\ checks[k].step = "told" => checks[k].says = published
  /\ \A f \in Forms : /\ forms[f].step # "checking"
                      /\ forms[f].step \in {"handed", "called"} => forms[f].holds = published
  /\ \/ remote = published
     \/ /\ calls = << >> /\ ~ dialog
        /\ \A f \in Forms : forms[f] = NoForm
        /\ \E k \in Checks : checks[k].why = "update"

UpdatesInv == TypeOK /\ Known /\ OfferAtRest /\ (steady => Steady)

-----------------------------------------------------------------------------
(* Sequences of calls, and checks that are started or come back.           *)

LEMMA ChangedSeq ==
  ASSUME NEW S, NEW s \in Seq(S), NEW i \in DOMAIN s, NEW x \in S
  PROVE  [s EXCEPT ![i] = x] \in Seq(S)
  OBVIOUS

LEMMA TakenSeq ==
  ASSUME NEW S, NEW s \in Seq(S), s # << >>
  PROVE  Head(s) \in S /\ Tail(s) \in Seq(S)
  OBVIOUS

LEMMA LongerSeq ==
  ASSUME NEW S, NEW s \in Seq(S), NEW x \in S
  PROVE  Append(s, x) \in Seq(S)
  OBVIOUS

Whys == {"none", "itself", "update"} \cup Forms

CheckType ==
  [why : Whys, step : {"idle", "later", "asked", "told"}, says : Files \cup {None, Unknown}]

FormType ==
  [step : {"idle", "asked", "handed", "checking", "called"}, holds : Files \cup {None}]

\* A check that is started is under way, and the others are as they were.
LEMMA Started ==
  ASSUME TypeOK, NEW why \in Whys, NEW step \in {"later", "asked"}, StartCheck(why, step)
  PROVE  /\ checks' \in [Checks -> CheckType]
         /\ Idle' # Checks
         /\ \A k \in Checks : checks'[k] = checks[k] \/ checks'[k] = Check(why, step)
         /\ \A k \in Checks \ Idle : checks'[k] = checks[k]
         /\ \E k \in Checks : checks'[k] = Check(why, step)
<1>1. PICK k \in Idle : checks' = [checks EXCEPT ![k] = Check(why, step)]
  BY DEF StartCheck
<1>2. k \in Checks /\ checks \in [Checks -> CheckType]
  BY <1>1 DEF Idle, TypeOK, CheckType, Whys
<1>3. Check(why, step) \in CheckType /\ Check(why, step) # NoCheck
  BY DEF Check, NoCheck, CheckType
<1>4. checks'[k] # NoCheck
  BY <1>1, <1>2, <1>3
<1>5. QED
  BY <1>1, <1>2, <1>3, <1>4 DEF Idle

\* A check that comes back leaves everything well typed.
LEMMA Resumed ==
  ASSUME TypeOK, Known, NEW k \in Checks, NEW said \in Files \cup {None}, Resume(k, said)
  PROVE  /\ checks' \in [Checks -> CheckType]
         /\ \A j \in Checks : checks'[j] = checks[j] \/ checks'[j] = NoCheck
         /\ forms' \in [Forms -> FormType]
         /\ calls' \in Seq(Call)
         /\ dialog' \in BOOLEAN /\ locked' \in BOOLEAN
<1>1. checks \in [Checks -> CheckType] /\ forms \in [Forms -> FormType]
  BY DEF TypeOK, CheckType, FormType, Whys
<1>2. NoCheck \in CheckType
  BY DEF NoCheck, Check, CheckType, Whys
<1>3. checks' = [checks EXCEPT ![k] = NoCheck]
  BY DEF Resume
<1>4. dialog' \in BOOLEAN /\ locked' \in BOOLEAN
  BY DEF Resume, OpenForm, window, TypeOK
<1>5. forms' \in [Forms -> FormType] /\ calls' \in Seq(Call)
  <2> DEFINE why == checks[k].why
  <2>1. CASE why \in Forms
    <3> DEFINE c == [type |-> "import", form |-> why, label |-> said,
                     holds |-> forms[why].holds, answer |-> "none"]
    <3>1. forms' = [forms EXCEPT ![why].step = "called"] /\ calls' = Append(calls, c)
      BY <2>1 DEF Resume
    <3>2. c \in Call
      BY <2>1, <1>1 DEF Call, CallType, FormType
    <3>3. calls' \in Seq(Call)
      BY <3>1, <3>2, LongerSeq DEF Known
    <3>4. forms' \in [Forms -> FormType]
      BY <2>1, <3>1, <1>1 DEF FormType
    <3>5. QED
      BY <3>3, <3>4
  <2>2. CASE why \notin Forms
    BY <2>2, <1>1 DEF Resume, Known
  <2>3. QED
    BY <2>1, <2>2
<1>6. QED
  BY <1>1, <1>2, <1>3, <1>4, <1>5

-----------------------------------------------------------------------------
(* Types.                                                                  *)

Typed == TypeOK /\ Known

LEMMA Copies ==
  /\ NoCopy \in CopyType /\ Copy \subseteq CopyType
  /\ \A a \in Files, b \in Files \cup {None} : [label |-> a, holds |-> b] \in CopyType
  /\ \A c \in CopyType : c # NoCopy => c.label \in Files
<1>1. NoCopy \in CopyType
  BY DEF NoCopy, CopyType
<1>2. Copy \subseteq CopyType
  BY UpdatesAssumption DEF Copy, CopyType
<1>3. \A a \in Files, b \in Files \cup {None} : [label |-> a, holds |-> b] \in CopyType
  BY UpdatesAssumption DEF CopyType
<1>4. \A c \in CopyType : c # NoCopy => c.label \in Files
  BY DEF CopyType
<1>5. QED
  BY <1>1, <1>2, <1>3, <1>4

LEMMA TypedInit == Init => Typed
<1>1. << >> \in Seq(CallType) /\ << >> \in Seq(Call)
  OBVIOUS
<1>2. SUFFICES ASSUME Init PROVE Typed
  OBVIOUS
<1>3. /\ checks \in [Checks -> CheckType] /\ forms \in [Forms -> FormType]
      /\ \A k \in Checks : checks[k].step = "idle"
  BY <1>2 DEF Init, NoCheck, Check, CheckType, Whys, NoForm, FormType
<1>4. stored \in CopyType /\ published \in Served
  BY <1>2, Copies DEF Init
<1>5. TypeOK
  BY <1>1, <1>2, <1>3, <1>4 DEF Init, TypeOK, CheckType, FormType, Whys
<1>6. Known
  BY <1>1, <1>2, <1>3 DEF Init, Known
<1>7. QED
  BY <1>5, <1>6 DEF Typed

\* Calls that are fit are of the type.
LEMMA CallsAreTyped == calls' \in Seq(Call) => calls' \in Seq(CallType)
  BY DEF Call

LEMMA TypedNext == Typed /\ [Next]_vars => Typed'
<1> SUFFICES ASSUME Typed, [Next]_vars PROVE Typed'
  OBVIOUS
<1> USE UpdatesAssumption, CallsAreTyped DEF Typed
<1>1. checks \in [Checks -> CheckType] /\ forms \in [Forms -> FormType]
  BY DEF TypeOK, CheckType, FormType, Whys
<1>2. NoCheck \in CheckType /\ NoForm \in FormType
  BY DEF NoCheck, Check, CheckType, Whys, NoForm, FormType
<1>3. CASE Publish
  BY <1>3 DEF Publish, TypeOK, Known, tab, view, window
<1>4. CASE Reload
  <2>1. << >> \in Seq(Call)
    OBVIOUS
  <2>2. QED
    BY <1>4, <2>1 DEF Reload, TypeOK, Known, NoCheck, Check, NoForm
<1>5. CASE Boot
  <2>1. PICK step \in {"later", "asked"} : StartCheck("itself", step)
    BY <1>5 DEF Boot
  <2>2. checks' \in [Checks -> CheckType]
        /\ \A k \in Checks : checks'[k] = checks[k] \/ checks'[k] = Check("itself", step)
    BY <2>1, Started DEF Whys
  <2>3. ready' \in BOOLEAN /\ label' \in Files \cup {None} /\ (ready' => label' \in Files)
    <3>1. stored # NoCopy => stored.label \in Files
      BY Copies DEF TypeOK
    <3>2. CASE stored # NoCopy /\ ready' = TRUE /\ label' = stored.label
      BY <3>1, <3>2
    <3>3. CASE UNCHANGED <<ready, label>>
      BY <3>3 DEF TypeOK, Known
    <3>4. QED
      BY <1>5, <3>2, <3>3 DEF Boot
  <2>4. QED
    BY <1>5, <2>2, <2>3 DEF Boot, TypeOK, Known, window, Check, CheckType, Whys
<1>6. CASE AskAgain
  <2>1. checks' \in [Checks -> CheckType]
        /\ \A k \in Checks : checks'[k] = checks[k] \/ checks'[k] = Check("itself", "asked")
    BY <1>6, Started DEF AskAgain, Whys
  <2>2. QED
    BY <1>6, <2>1 DEF AskAgain, TypeOK, Known, view, window, Check, CheckType, Whys
<1>7. ASSUME NEW k \in Checks, AskNow(k) PROVE Typed'
  <2>1. checks' \in [Checks -> CheckType]
    BY <1>1, <1>7 DEF AskNow, CheckType
  <2>2. QED
    BY <1>1, <1>7, <2>1 DEF AskNow, TypeOK, Known, view, window, CheckType, Whys
<1>8. ASSUME NEW k \in Checks, Tell(k) PROVE Typed'
  <2>1. published \in Files \cup {None}
    BY DEF TypeOK
  <2>2. checks' \in [Checks -> CheckType]
    BY <1>1, <1>8, <2>1 DEF Tell, CheckType
  <2>3. QED
    BY <1>1, <1>8, <2>1, <2>2 DEF Tell, TypeOK, Known, view, window, CheckType, Whys
<1>9. ASSUME NEW k \in Checks, Hear(k) PROVE Typed'
  <2>1. checks[k].says \in Files \cup {None}
    BY <1>1, <1>9 DEF Hear, Known, CheckType
  <2>2. /\ checks' \in [Checks -> CheckType]
        /\ \A j \in Checks : checks'[j] = checks[j] \/ checks'[j] = NoCheck
        /\ forms' \in [Forms -> FormType] /\ calls' \in Seq(Call)
        /\ dialog' \in BOOLEAN /\ locked' \in BOOLEAN
    BY <1>9, <2>1, Resumed DEF Hear
  <2>3. QED
    BY <1>9, <2>1, <2>2 DEF Hear, Resume, TypeOK, Known, NoCheck, Check, CheckType, FormType, Whys
<1>10. ASSUME NEW k \in Checks, Miss(k) PROVE Typed'
  <2>1. /\ checks' \in [Checks -> CheckType]
        /\ \A j \in Checks : checks'[j] = checks[j] \/ checks'[j] = NoCheck
        /\ forms' \in [Forms -> FormType] /\ calls' \in Seq(Call)
        /\ dialog' \in BOOLEAN /\ locked' \in BOOLEAN
    BY <1>10, Resumed DEF Miss
  <2>2. QED
    BY <1>10, <2>1 DEF Miss, Resume, view, TypeOK, Known, NoCheck, Check, CheckType, FormType, Whys
<1>11. ASSUME NEW f \in Forms, HandOut(f) PROVE Typed'
  <2>1. forms' \in [Forms -> FormType]
    BY <1>1, <1>11 DEF HandOut, TypeOK, FormType
  <2>2. QED
    BY <1>11, <2>1 DEF HandOut, TypeOK, Known, view, window, FormType
<1>12. ASSUME NEW f \in Forms, FailDownload(f) PROVE Typed'
  <2>1. forms' \in [Forms -> FormType]
    BY <1>1, <1>2, <1>12 DEF FailDownload, Refuse
  <2>2. QED
    BY <1>12, <2>1 DEF FailDownload, Refuse, TypeOK, Known, view, FormType
<1>13. ASSUME NEW f \in Forms, Label(f) PROVE Typed'
  <2>1. forms' \in [Forms -> FormType]
    BY <1>1, <1>13 DEF Label, CallImport, FormType
  <2>2. CASE remote # Unknown /\ CallImport(f, remote) /\ UNCHANGED checks
    <3> DEFINE c == [type |-> "import", form |-> f, label |-> remote,
                     holds |-> forms[f].holds, answer |-> "none"]
    <3>1. c \in Call
      BY <1>1, <2>2 DEF Call, CallType, FormType, TypeOK
    <3>2. calls' \in Seq(Call)
      BY <2>2, <3>1, LongerSeq DEF CallImport, Known
    <3>3. QED
      BY <1>13, <2>1, <2>2, <3>2 DEF Label, TypeOK, Known, view, window, FormType
  <2>3. CASE StartCheck(f, "asked") /\ UNCHANGED calls
    <3>1. checks' \in [Checks -> CheckType]
          /\ \A k \in Checks : checks'[k] = checks[k] \/ checks'[k] = Check(f, "asked")
      BY <2>3, Started DEF Whys
    <3>2. QED
      BY <1>13, <2>1, <2>3, <3>1
         DEF Label, TypeOK, Known, view, window, FormType, Check, CheckType, Whys
  <2>4. QED
    BY <1>13, <2>2, <2>3 DEF Label
<1>14. CASE Break
  <2>1. PICK i \in DOMAIN calls : calls' = [calls EXCEPT ![i].answer = "failed"]
    BY <1>14 DEF Break
  <2>2. calls[i] \in Call
    BY DEF Known
  <2>3. [calls[i] EXCEPT !.answer = "failed"] \in Call
    BY <2>2 DEF Call, CallType
  <2>4. calls' \in Seq(Call)
    BY <2>1, <2>3, ChangedSeq DEF Known
  <2>5. QED
    BY <1>14, <2>4 DEF Break, TypeOK, Known, view, window
<1>15. CASE Update
  <2>1. checks' \in [Checks -> CheckType]
        /\ \A k \in Checks : checks'[k] = checks[k] \/ checks'[k] = Check("update", "asked")
    BY <1>15, Started DEF Update, Whys
  <2>2. QED
    BY <1>15, <2>1 DEF Update, TypeOK, Known, view, window, Check, CheckType, Whys
<1>16. CASE Install
  BY <1>16 DEF Install, OpenForm, TypeOK, Known, view
<1>17. CASE Cancel
  BY <1>17 DEF Cancel, TypeOK, Known, view
<1>24. CASE Look
  <2>1. (stored.holds \in Empty) \in BOOLEAN
    OBVIOUS
  <2>2. empty' \in BOOLEAN
    BY <1>24, <2>1 DEF Look
  <2>3. QED
    BY <1>24, <2>2 DEF Look, TypeOK, Known, window
<1>25. CASE OpenFromPanel
  <2>1. steady' \in BOOLEAN
    BY <1>25 DEF OpenFromPanel, TypeOK
  <2>2. QED
    BY <1>25, <2>1 DEF OpenFromPanel, OpenForm, TypeOK, Known, view
<1>18. CASE Submit
  <2>1. forms' \in [Forms -> FormType]
    BY <1>1, <1>18 DEF Submit, FormType
  <2>2. QED
    BY <1>18, <2>1 DEF Submit, TypeOK, Known, view, FormType
<1>19. CASE Forget
  <2> DEFINE c == [type |-> "forget", form |-> None, label |-> None, holds |-> None,
                   answer |-> "none"]
  <2>1. c \in Call
    BY DEF Call, CallType
  <2>2. calls' \in Seq(Call)
    BY <1>19, <2>1, LongerSeq DEF Forget, Known
  <2>3. QED
    BY <1>19, <2>2 DEF Forget, TypeOK, Known, view, window
<1>20. CASE Work
  <2>1. PICK i \in DOMAIN calls :
          \/ /\ calls[i].type = "import" /\ calls[i].label \in Files
             /\ stored' = [label |-> calls[i].label, holds |-> calls[i].holds]
             /\ calls' = [calls EXCEPT ![i].answer = "ok"]
          \/ calls' = [calls EXCEPT ![i].answer = "failed"] /\ UNCHANGED stored
          \/ /\ calls[i].type = "forget" /\ stored' = NoCopy
             /\ calls' = [calls EXCEPT ![i].answer = "ok"]
    BY <1>20 DEF Work
  <2>2. calls[i] \in Call
    BY DEF Known
  <2>3. /\ [calls[i] EXCEPT !.answer = "failed"] \in Call
        /\ calls[i].type = "forget" \/ calls[i].label \in Files =>
             [calls[i] EXCEPT !.answer = "ok"] \in Call
    BY <2>2 DEF Call, CallType
  <2>4. calls' \in Seq(Call)
    BY <2>1, <2>3, ChangedSeq DEF Known
  <2>5. stored' \in CopyType
    BY <2>1, <2>2, Copies DEF TypeOK, Call, CallType
  <2>6. QED
    BY <1>20, <2>4, <2>5 DEF Work, TypeOK, Known, view, window
<1>21. CASE Receive
  <2> DEFINE c == Head(calls)
  <2>1. c \in Call /\ calls' \in Seq(Call)
    BY <1>21, TakenSeq DEF Receive, Known
  <2>2. CASE Installed(c)
    <3>1. checks' \in [Checks -> CheckType]
          /\ \A k \in Checks : checks'[k] = checks[k] \/ checks'[k] = Check("itself", "later")
      BY <2>2, Started DEF Installed, Whys
    <3>2. forms' \in [Forms -> FormType]
      BY <1>1, <1>2, <2>2 DEF Installed
    <3>3. label' \in Files
      <4>1. c.label \in Files
        BY <2>1, <2>2 DEF Installed, Call
      <4>2. QED
        BY <1>21, <2>2, <4>1 DEF Installed, Receive
    <3>4. TypeOK'
      BY <1>21, <2>1, <2>2, <3>1, <3>2, <3>3
         DEF Receive, Installed, TypeOK, CheckType, FormType, Whys
    <3>5. Known'
      BY <2>1, <3>1, <3>3 DEF Known, Check
    <3>6. QED
      BY <3>4, <3>5
  <2>3. CASE Forgotten(c)
    BY <1>21, <2>1, <2>3 DEF Receive, Forgotten, OpenForm, TypeOK, Known, window
  <2>4. CASE Failed(c)
    <3>1. forms' \in [Forms -> FormType] /\ locked' \in BOOLEAN
      BY <1>1, <1>2, <2>4 DEF Failed, Refuse, TypeOK
    <3>2. QED
      BY <1>21, <2>1, <2>4, <3>1 DEF Receive, Failed, TypeOK, Known, view, FormType
  <2>5. QED
    BY <1>21, <2>2, <2>3, <2>4 DEF Receive
<1>22. CASE UNCHANGED vars
  BY <1>22 DEF vars, tab, view, window, TypeOK, Known
<1>23. QED
  BY <1>3, <1>4, <1>5, <1>6, <1>7, <1>8, <1>9, <1>10, <1>11, <1>12, <1>13, <1>14, <1>15, <1>16,
     <1>17, <1>18, <1>19, <1>20, <1>21, <1>22, <1>24, <1>25
     DEF Next, OfCheck, OfForm, Failure

-----------------------------------------------------------------------------
(* The offer at rest.  It is made anew with every answer; what changes the *)
(* label starts a check that has not been answered yet.                    *)

LEMMA OfferNext == Typed /\ OfferAtRest /\ [Next]_vars => OfferAtRest'
<1> SUFFICES ASSUME Typed, OfferAtRest, [Next]_vars PROVE OfferAtRest'
  OBVIOUS
<1> USE UpdatesAssumption DEF Typed
<1>1. checks \in [Checks -> CheckType]
  BY DEF TypeOK, CheckType, Whys
<1>2. ASSUME NEW why \in Whys, NEW step \in {"later", "asked"}, StartCheck(why, step)
      PROVE  OfferAtRest'
  BY <1>2, Started DEF OfferAtRest
<1>3. ASSUME UNCHANGED <<ready, label, remote, offer, checks, lost>> PROVE OfferAtRest'
  BY <1>3 DEF OfferAtRest, Idle
<1>4. CASE \/ Publish \/ Look \/ OpenFromPanel \/ Cancel
            \/ Install \/ Submit \/ Forget \/ Work \/ Break
  BY <1>3, <1>4
     DEF Publish, Look, OpenFromPanel, Cancel, Install, Submit, Forget, Work, Break, tab, view
<1>5. CASE Reload
  BY <1>5 DEF Reload, OfferAtRest
<1>6. CASE Boot \/ AskAgain \/ Update
  BY <1>2, <1>6 DEF Boot, AskAgain, Update, Whys
<1>7. ASSUME NEW k \in Checks, AskNow(k) \/ Tell(k) PROVE OfferAtRest'
  <2>1. checks[k] # NoCheck /\ checks'[k] # NoCheck
    BY <1>1, <1>7 DEF AskNow, Tell, NoCheck, Check
  <2>2. Idle # Checks /\ Idle' # Checks
    BY <2>1 DEF Idle
  <2>3. QED
    BY <2>2 DEF OfferAtRest
<1>8. ASSUME NEW k \in Checks, Hear(k) PROVE OfferAtRest'
  <2>1. ready' = ready /\ label' = label /\ (ready => label # None)
    BY <1>8 DEF Hear, Resume, Known
  <2>2. remote' = checks[k].says
        /\ offer' = (ready /\ remote' \in Files /\ label # None /\ label # remote')
    BY <1>8 DEF Hear
  <2>3. QED
    BY <2>1, <2>2 DEF OfferAtRest
<1>9. ASSUME NEW k \in Checks, Miss(k) PROVE OfferAtRest'
  BY <1>9 DEF Miss, OfferAtRest
<1>10. ASSUME NEW f \in Forms, HandOut(f) \/ FailDownload(f) PROVE OfferAtRest'
  BY <1>3, <1>10 DEF HandOut, FailDownload, view
<1>11. ASSUME NEW f \in Forms, Label(f) PROVE OfferAtRest'
  BY <1>2, <1>3, <1>11 DEF Label, view, Whys
<1>12. CASE Receive
  <2> DEFINE c == Head(calls)
  <2>1. CASE Installed(c)
    BY <1>2, <2>1 DEF Installed, Whys
  <2>2. CASE Forgotten(c)
    BY <2>2 DEF Forgotten, OfferAtRest
  <2>3. CASE Failed(c)
    BY <1>3, <2>3 DEF Failed, view
  <2>4. QED
    BY <1>12, <2>1, <2>2, <2>3 DEF Receive
<1>13. CASE UNCHANGED vars
  BY <1>3, <1>13 DEF vars, tab, view
<1>14. QED
  BY <1>4, <1>5, <1>6, <1>7, <1>8, <1>9, <1>10, <1>11, <1>12, <1>13
     DEF Next, OfCheck, OfForm, Failure

-----------------------------------------------------------------------------
(* What an update in a quiet tab rests on.                                 *)

LEMMA SteadyNext == Typed /\ (steady => Steady) /\ [Next]_vars => (steady' => Steady')
<1> SUFFICES ASSUME Typed, steady => Steady, [Next]_vars, steady' PROVE Steady'
  OBVIOUS
<1> USE UpdatesAssumption DEF Typed
<1>1. checks \in [Checks -> CheckType] /\ forms \in [Forms -> FormType]
  BY DEF TypeOK, CheckType, FormType, Whys
<1>2. published # Unknown
  BY DEF TypeOK
<1>3. CASE Update
  <2>1. /\ ready /\ ~ dialog /\ Idle = Checks /\ calls = << >>
        /\ \A f \in Forms : forms[f] = NoForm
        /\ UNCHANGED <<published, ready, view, window, forms, calls>>
    BY <1>3 DEF Update
  <2>2. \A k \in Checks : checks[k] = NoCheck
    BY <2>1 DEF Idle
  <2>3. \A k \in Checks : checks'[k] = NoCheck \/ checks'[k] = Check("update", "asked")
    BY <1>3, <2>2, Started DEF Update, Whys
  <2>4. << >> \in Seq(Right)
    OBVIOUS
  <2>5. \E k \in Checks : checks'[k].why = "update"
    <3>1. PICK k \in Checks : checks'[k] = Check("update", "asked")
      BY <1>3, Started DEF Update, Whys
    <3>2. QED
      BY <3>1 DEF Check
  <2>6. QED
    BY <2>1, <2>3, <2>4, <2>5 DEF Steady, NoCheck, Check, NoForm, window
<1> SUFFICES ASSUME ~ Update PROVE Steady'
  BY <1>3
<1>4. \/ steady' = FALSE \/ steady' = steady
      \/ steady' = (steady /\ \A k \in Checks : checks[k].why # "update")
  BY DEF Next, Look, OpenFromPanel, OfCheck, OfForm, Failure, Publish, Reload, Boot, AskAgain,
         AskNow, Tell, Hear, Miss,
         HandOut, Label, FailDownload, Break, Install, Cancel, Submit, Forget, Work, Receive, vars
<1>5. Steady
  BY <1>4 DEF TypeOK
<1>26. CASE Look
  BY <1>5, <1>26 DEF Look, Steady, window
<1>27. CASE OpenFromPanel
  <2>1. remote = published
    BY <1>5, <1>27 DEF OpenFromPanel, Steady
  <2>2. QED
    BY <1>5, <1>27, <2>1 DEF OpenFromPanel, Steady, view
<1>6. CASE Publish \/ Reload \/ Forget
  BY <1>6 DEF Publish, Reload, Forget
<1>7. ASSUME NEW step \in {"later", "asked"}, StartCheck("itself", step)
      PROVE  /\ \A k \in Checks : /\ checks'[k].why \notin Forms
                                  /\ checks'[k].step = "told" => checks'[k].says = published
             /\ (\E k \in Checks : checks[k].why = "update") =>
                  \E k \in Checks : checks'[k].why = "update"
  <2>1. /\ \A k \in Checks : checks'[k] = checks[k] \/ checks'[k] = Check("itself", step)
        /\ \A k \in Checks \ Idle : checks'[k] = checks[k]
    BY <1>7, Started DEF Whys
  <2>2. Check("itself", step).why \notin Forms /\ Check("itself", step).step # "told"
    BY DEF Check
  <2>3. \A k \in Checks : checks[k].why = "update" => k \notin Idle
    BY DEF Idle, NoCheck, Check
  <2>4. QED
    BY <1>5, <2>1, <2>2, <2>3 DEF Steady
<1>8. CASE Boot
  <2>1. ready'
    BY <1>5, <1>8 DEF Boot, Steady
  <2>2. /\ \A k \in Checks : /\ checks'[k].why \notin Forms
                             /\ checks'[k].step = "told" => checks'[k].says = published
        /\ (\E k \in Checks : checks[k].why = "update") =>
             \E k \in Checks : checks'[k].why = "update"
    BY <1>7, <1>8 DEF Boot
  <2>3. QED
    BY <1>5, <1>8, <2>1, <2>2 DEF Boot, Steady, window
<1>9. CASE AskAgain
  BY <1>5, <1>7, <1>9 DEF AskAgain, Steady, view, window
<1>10. ASSUME NEW k \in Checks, AskNow(k) \/ Tell(k) PROVE Steady'
  <2>1. CASE AskNow(k)
    <3>1. \A j \in Checks : /\ checks'[j].why = checks[j].why
                            /\ checks'[j].step = "told" => checks'[j].says = published
      BY <1>1, <1>5, <2>1 DEF AskNow, Steady, CheckType
    <3>2. QED
      BY <1>5, <2>1, <3>1 DEF AskNow, Steady, view, window
  <2>2. CASE Tell(k)
    <3>1. \A j \in Checks : /\ checks'[j].why = checks[j].why
                            /\ checks'[j].step = "told" => checks'[j].says = published
      BY <1>1, <1>5, <2>2 DEF Tell, Steady, CheckType
    <3>2. QED
      BY <1>5, <2>2, <3>1 DEF Tell, Steady, view, window
  <2>3. QED
    BY <1>10, <2>1, <2>2
<1>11. ASSUME NEW k \in Checks, Hear(k) PROVE Steady'
  <2>1. checks[k].why \notin Forms /\ checks[k].says = published
    BY <1>5, <1>11 DEF Hear, Steady
  <2>2. remote' = published /\ UNCHANGED <<published, ready, forms, calls>>
    BY <1>11, <2>1 DEF Hear, Resume
  <2>3. \A j \in Checks : checks'[j] = checks[j] \/ checks'[j] = NoCheck
    BY <1>1, <1>11 DEF Hear, Resume
  <2>4. QED
    BY <1>5, <2>2, <2>3 DEF Steady, NoCheck, Check
<1>12. ASSUME NEW k \in Checks, Miss(k) PROVE Steady'
  BY <1>12 DEF Miss
<1>13. ASSUME NEW f \in Forms, HandOut(f) PROVE Steady'
  <2>1. forms[f] # NoForm
    BY <1>13 DEF HandOut, NoForm
  <2>2. remote = published
    BY <1>5, <2>1 DEF Steady
  <2>3. \A g \in Forms : /\ forms'[g].step # "checking"
                         /\ forms'[g].step \in {"handed", "called"} => forms'[g].holds = published
    BY <1>1, <1>5, <1>13 DEF HandOut, Steady
  <2>4. QED
    BY <1>5, <1>13, <2>2, <2>3 DEF HandOut, Steady, view
<1>14. ASSUME NEW f \in Forms, Refuse(f)
       PROVE  /\ \A g \in Forms : forms'[g] = NoForm \/ forms'[g] = forms[g]
              /\ \A g \in Forms : /\ forms'[g].step # "checking"
                                  /\ forms'[g].step \in {"handed", "called"} =>
                                       forms'[g].holds = published
  BY <1>1, <1>5, <1>14 DEF Refuse, Steady, NoForm
<1>15. ASSUME NEW f \in Forms, FailDownload(f) PROVE Steady'
  <2>1. Refuse(f)
    BY <1>15 DEF FailDownload
  <2>2. QED
    BY <1>5, <1>14, <1>15, <2>1 DEF FailDownload, Steady, view
<1>16. ASSUME NEW f \in Forms, Label(f) PROVE Steady'
  <2>1. forms[f].step = "handed" /\ forms[f].holds = published /\ forms[f] # NoForm
    BY <1>5, <1>16 DEF Label, Steady, NoForm
  <2>2. remote = published
    BY <1>5, <2>1 DEF Steady
  <2> DEFINE c == [type |-> "import", form |-> f, label |-> remote,
                   holds |-> forms[f].holds, answer |-> "none"]
  <2>3. CallImport(f, remote) /\ UNCHANGED checks
    BY <1>2, <1>16, <2>2 DEF Label
  <2>4. c \in Right
    BY <1>1, <1>2, <2>1, <2>2 DEF Right, Call, CallType, FormType
  <2>5. calls' \in Seq(Right)
    BY <1>5, <2>3, <2>4, LongerSeq DEF Steady, CallImport
  <2>6. \A g \in Forms : /\ forms'[g].step # "checking"
                         /\ forms'[g].step \in {"handed", "called"} => forms'[g].holds = published
    BY <1>1, <1>5, <2>1, <2>3 DEF CallImport, Steady
  <2>7. QED
    BY <1>5, <1>16, <2>2, <2>3, <2>5, <2>6 DEF Label, Steady, view
<1>17. CASE Install
  BY <1>5, <1>17 DEF Install, Steady
<1>18. CASE Cancel
  BY <1>5, <1>18 DEF Cancel, Steady, view
<1>19. CASE Submit
  <2>1. remote = published
    BY <1>5, <1>19 DEF Submit, Steady
  <2>2. \A g \in Forms : /\ forms'[g].step # "checking"
                         /\ forms'[g].step \in {"handed", "called"} => forms'[g].holds = published
    BY <1>1, <1>5, <1>19 DEF Submit, Steady
  <2>3. QED
    BY <1>5, <1>19, <2>1, <2>2 DEF Submit, Steady, view
<1>20. ASSUME NEW i \in DOMAIN calls, NEW a \in {"ok", "failed"},
              calls' = [calls EXCEPT ![i].answer = a], calls' \in Seq(Call)
       PROVE  calls' \in Seq(Right)
  <2> DEFINE x == [calls[i] EXCEPT !.answer = a]
  <2>1. calls \in Seq(Right) /\ calls[i] \in Right
    BY <1>5 DEF Steady
  <2>2. x \in Call
    <3>1. calls'[i] = x /\ i \in DOMAIN calls'
      BY <1>20, <2>1
    <3>2. QED
      BY <1>20, <3>1
  <2>3. x \in Right
    BY <2>1, <2>2 DEF Right, Call, CallType
  <2>4. QED
    BY <1>20, <2>1, <2>3, ChangedSeq
<1>21. calls' \in Seq(Call)
  BY TypedNext DEF Known
<1>22. CASE Work \/ Break
  <2>1. PICK i \in DOMAIN calls, a \in {"ok", "failed"} : calls' = [calls EXCEPT ![i].answer = a]
    BY <1>22 DEF Work, Break
  <2>2. calls' \in Seq(Right)
    BY <1>20, <1>21, <2>1
  <2>3. calls # << >>
    BY <2>1
  <2>4. QED
    BY <1>5, <1>22, <2>2, <2>3 DEF Work, Break, Steady, view, window
<1>23. CASE Receive
  <2> DEFINE c == Head(calls)
  <2>1. c \in Right /\ calls' \in Seq(Right) /\ remote = published
    BY <1>5, <1>23, TakenSeq DEF Receive, Steady
  <2>2. c.type = "import" /\ UNCHANGED <<published, remote>>
    BY <1>23, <2>1 DEF Receive, Right, Installed, Forgotten, Failed, view
  <2>3. CASE Installed(c)
    <3>1. \A g \in Forms : /\ forms'[g].step # "checking"
                           /\ forms'[g].step \in {"handed", "called"} =>
                                forms'[g].holds = published
      BY <1>1, <1>5, <2>3 DEF Installed, Steady, NoForm
    <3>2. \A k \in Checks : /\ checks'[k].why \notin Forms
                            /\ checks'[k].step = "told" => checks'[k].says = published
      BY <1>7, <2>3 DEF Installed
    <3>3. QED
      BY <2>1, <2>2, <2>3, <3>1, <3>2 DEF Installed, Steady
  <2>4. CASE Failed(c)
    <3>1. \A g \in Forms : /\ forms'[g].step # "checking"
                           /\ forms'[g].step \in {"handed", "called"} =>
                                forms'[g].holds = published
      BY <1>1, <1>5, <2>2, <2>4 DEF Failed, Refuse, Steady, NoForm
    <3>2. QED
      BY <1>5, <2>1, <2>2, <2>4, <3>1 DEF Failed, Steady
  <2>5. QED
    BY <1>23, <2>2, <2>3, <2>4 DEF Receive, Forgotten
<1>24. CASE UNCHANGED vars
  BY <1>5, <1>24 DEF vars, tab, view, window, Steady
<1>25. QED
  BY <1>6, <1>8, <1>9, <1>10, <1>11, <1>12, <1>13, <1>15, <1>16, <1>17, <1>18, <1>19, <1>22, <1>23,
     <1>24, <1>26, <1>27 DEF Next, OfCheck, OfForm, Failure

-----------------------------------------------------------------------------
\* The invariant of the tab, its types included, for any number of checks and
\* imports under way.
THEOREM UpdatesConsistent == Spec => []UpdatesInv
<1>1. Init => UpdatesInv
  BY TypedInit DEF Init, Typed, UpdatesInv, OfferAtRest
<1>2. UpdatesInv /\ [Next]_vars => UpdatesInv'
  BY TypedNext, OfferNext, SteadyNext DEF UpdatesInv, Typed
<1>3. QED
  BY <1>1, <1>2, PTL DEF Spec

\* When no check is under way and the last one did not fail, an update is offered
\* exactly if the copy is not labelled with the version last heard of, in whatever
\* order answers come and imports end (checkRemoteMeta, importCatalog).
THEOREM OfferIsRightAtRest == Spec => []OfferAtRest
<1>1. UpdatesInv => OfferAtRest
  BY DEF UpdatesInv
<1>2. QED
  BY <1>1, UpdatesConsistent, PTL

\* An update begun in a quiet tab labels its download rightly unless the file is
\* replaced meanwhile, whatever other checks are asked (importCatalog).
THEOREM UpdatesAreLabelledRight == Spec => []UpdatesLabelRight
<1>1. UpdatesInv => UpdatesLabelRight
  <2> SUFFICES ASSUME UpdatesInv, steady, NEW i \in DOMAIN calls PROVE calls[i].label = calls[i].holds
    BY DEF UpdatesLabelRight
  <2>1. calls \in Seq(Right)
    BY DEF UpdatesInv, Steady
  <2>2. QED
    BY <2>1 DEF Right
<1>2. QED
  BY <1>1, UpdatesConsistent, PTL

================================================================================
