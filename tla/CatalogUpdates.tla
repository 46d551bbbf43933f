----------------------------- MODULE CatalogUpdates -----------------------------
(***************************************************************************)
(* static/js/courses.js: how a tab learns of a new catalogue and installs  *)
(* it.  The page asks the server for the metadata of the file in place     *)
(* (checkRemoteMeta), downloads the file with a second request             *)
(* (importCatalog) and labels what it downloaded with the version the      *)
(* metadata gave.  Checks are asked by many handlers, are not awaited by   *)
(* one another and may be answered in any order.                           *)
(*                                                                         *)
(* The version is the digest of the file, so a file is its own version.    *)
(* One tab, which may be reloaded; every handler and every continuation of *)
(* an await is one step.                                                   *)
(***************************************************************************)
EXTENDS Naturals, Sequences, FiniteSets

CONSTANTS
  Files,   \* catalogue files, and their versions
  Served,  \* what the server may come to have: some of the files, None
  Empty,   \* the files without an entry
  Checks,  \* bound: checks under way at the same time
  Forms,   \* bound: imports under way at the same time
  None,    \* no file, no copy, no version
  Unknown  \* null, the metadata before the first answer

ASSUME UpdatesAssumption ==
  /\ None \notin Files /\ Unknown \notin Files \cup {None}
  /\ Served \subseteq Files \cup {None} /\ Empty \subseteq Files
  /\ Forms \cap {"none", "itself", "update"} = {}

VARIABLES
  published, \* the file the server hands out
  stored,    \* the copy in IndexedDB: its label and what it holds
  booted,    \* the worker's boot has come back
  ready,     \* state.ready and state.cached
  label,     \* state.meta.version
  remote,    \* state.remoteMeta
  offer,     \* state.updateAvailable
  empty,     \* the list says that the catalogue is empty, and offers an update
  dialog,    \* the unlock dialog is open
  locked,    \* unlockSubmit.disabled
  checks,    \* runs of checkRemoteMeta
  forms,     \* runs of importCatalog
  calls,     \* calls of the worker and their answers, in order
  lost,      \* history: a check failed since the label was last set
  steady     \* history: see UpdatesLabelRight

view   == <<label, remote, offer, empty>>
window == <<dialog, locked>>
tab    == <<booted, ready, view, window, checks, forms, calls>>
vars   == <<published, stored, tab, lost, steady>>

Copy == [label : Files, holds : Files]
NoCopy == [label |-> None, holds |-> None]

\* A check is for itself, for the update button, or for an import without a
\* version.  It is put off until a search has ended, asked, and answered.
Check(why, step) == [why |-> why, step |-> step, says |-> Unknown]
NoCheck == Check("none", "idle")

NoForm == [step |-> "idle", holds |-> None]

Idle == {k \in Checks : checks[k] = NoCheck}
StartCheck(why, step) == \E k \in Idle : checks' = [checks EXCEPT ![k] = Check(why, step)]

-----------------------------------------------------------------------------

Init ==
  /\ published \in Served
  /\ stored \in Copy \cup {NoCopy}
  /\ booted = FALSE /\ ready = FALSE
  /\ label = None /\ remote = Unknown /\ offer = FALSE /\ empty = FALSE
  /\ dialog = FALSE /\ locked = FALSE
  /\ checks = [k \in Checks |-> NoCheck]
  /\ forms = [f \in Forms |-> NoForm]
  /\ calls = << >>
  /\ lost = FALSE /\ steady = FALSE

\* Another file takes the place of the one the server has, or it goes away.
Publish ==
  /\ published' \in Served \ {published}
  /\ steady' = FALSE
  /\ UNCHANGED <<stored, tab, lost>>

\* Leaving the page or reloading it; what the worker was at is gone.
Reload ==
  /\ booted' = FALSE /\ ready' = FALSE
  /\ label' = None /\ remote' = Unknown /\ offer' = FALSE /\ empty' = FALSE
  /\ dialog' = FALSE /\ locked' = FALSE
  /\ checks' = [k \in Checks |-> NoCheck]
  /\ forms' = [f \in Forms |-> NoForm]
  /\ calls' = << >>
  /\ lost' = FALSE /\ steady' = FALSE
  /\ UNCHANGED <<published, stored>>

\* boot: the copy is opened, there is none, or it cannot be read.
Boot ==
  /\ ~ booted
  /\ booted' = TRUE
  /\ \/ /\ stored # NoCopy
        /\ ready' = TRUE /\ label' = stored.label
        /\ StartCheck("itself", "later")
     \/ /\ StartCheck("itself", "asked")
        /\ UNCHANGED <<ready, label>>
  /\ UNCHANGED <<published, stored, remote, offer, empty, window, forms, calls, lost, steady>>

-----------------------------------------------------------------------------
(* checkRemoteMeta.                                                        *)

\* A retry button, or the browser coming back online.
AskAgain ==
  /\ booted
  /\ StartCheck("itself", "asked")
  /\ UNCHANGED <<published, stored, booted, ready, view, window, forms, calls, lost, steady>>

\* The search that runSearch awaited has ended.
AskNow(k) ==
  /\ checks[k].step = "later"
  /\ checks' = [checks EXCEPT ![k].step = "asked"]
  /\ UNCHANGED <<published, stored, booted, ready, view, window, forms, calls, lost, steady>>

\* The server looks at its file.
Tell(k) ==
  /\ checks[k].step = "asked"
  /\ checks' = [checks EXCEPT ![k].step = "told", ![k].says = published]
  /\ UNCHANGED <<published, stored, booted, ready, view, window, forms, calls, lost, steady>>

\* openUnlock.
OpenForm == dialog' = TRUE /\ locked' = FALSE

\* What comes after the await of a check: `said' is its answer, or None.
Resume(k, said) ==
  LET why == checks[k].why
      opens == why = "update" \/ (said \in Files /\ ~ ready /\ ~ dialog)
  IN  /\ checks' = [checks EXCEPT ![k] = NoCheck]
      /\ IF opens THEN OpenForm ELSE UNCHANGED window
      /\ IF why \in Forms
           THEN /\ forms' = [forms EXCEPT ![why].step = "called"]
                /\ calls' = Append(calls, [type |-> "import", form |-> why, label |-> said,
                                           holds |-> forms[why].holds, answer |-> "none"])
           ELSE UNCHANGED <<forms, calls>>
      /\ UNCHANGED <<published, stored, booted, ready>>

M_HearKeepsOffer(k) ==
  /\ checks[k].step = "told"
  /\ remote' = checks[k].says
  /\ offer' = (offer \/ (/\ ready /\ checks[k].says \in Files
                         /\ label # None /\ label # checks[k].says))
  /\ Resume(k, checks[k].says)
  /\ lost' = FALSE
  /\ UNCHANGED <<label, empty, steady>>

\* The answer comes: it is taken for what the server has now.
Hear(k) ==
  /\ checks[k].step = "told"
  /\ remote' = checks[k].says
  /\ offer' = (/\ ready /\ checks[k].says \in Files
               /\ label # None /\ label # checks[k].says)
  /\ Resume(k, checks[k].says)
  /\ lost' = FALSE
  /\ UNCHANGED <<label, empty, steady>>

\* Offline, an error, or no answer.
Miss(k) ==
  /\ checks[k].step \in {"asked", "told"}
  /\ lost' = TRUE /\ steady' = FALSE
  /\ Resume(k, None)
  /\ UNCHANGED view

-----------------------------------------------------------------------------
(* The unlock dialog.  It is modal: while it is open nothing else is used. *)

\* runSearch: a search without query or filters has found nothing in the copy, or
\* some search has taken the panel away.
Look ==
  /\ ready
  /\ empty' \in {FALSE, stored.holds \in Empty}
  /\ UNCHANGED <<published, stored, booted, ready, label, remote, offer, window, checks,
                 forms, calls, lost, steady>>

M_UpdateWithoutCheck ==
  /\ ready /\ ~ dialog
  /\ remote \in Files
  /\ OpenForm
  /\ steady' = (Idle = Checks /\ calls = << >> /\ \A f \in Forms : forms[f] = NoForm)
  /\ UNCHANGED <<published, stored, booted, ready, view, checks, forms, calls, lost>>

\* The update button: a check, and then the dialog.
Update ==
  /\ ready /\ ~ dialog
  /\ remote \in Files
  /\ StartCheck("update", "asked")
  /\ steady' = (Idle = Checks /\ calls = << >> /\ \A f \in Forms : forms[f] = NoForm)
  /\ UNCHANGED <<published, stored, booted, ready, view, window, forms, calls, lost>>

\* The button of the empty list: the dialog without a check.  While the check of
\* the update button is still out, what it leads to is not that button's update.
OpenFromPanel ==
  /\ ready /\ empty /\ ~ dialog
  /\ OpenForm
  /\ steady' = (steady /\ \A k \in Checks : checks[k].why # "update")
  /\ UNCHANGED <<published, stored, booted, ready, view, checks, forms, calls, lost>>

\* The button shown while there is no copy.
Install ==
  /\ booted /\ ~ ready /\ ~ dialog
  /\ OpenForm
  /\ UNCHANGED <<published, stored, booted, ready, view, checks, forms, calls, lost, steady>>

Cancel ==
  /\ dialog /\ ~ locked /\ ready
  /\ dialog' = FALSE
  /\ UNCHANGED <<published, stored, booted, ready, view, locked, checks, forms, calls,
                 lost, steady>>

\* The form is submitted: importCatalog asks for the file.
Submit ==
  /\ dialog /\ ~ locked
  /\ locked' = TRUE
  /\ \E f \in Forms : /\ forms[f] = NoForm
                      /\ forms' = [forms EXCEPT ![f].step = "asked"]
  /\ UNCHANGED <<published, stored, booted, ready, view, dialog, checks, calls, lost, steady>>

-----------------------------------------------------------------------------
(* importCatalog.                                                          *)

\* The server hands out its file.
HandOut(f) ==
  /\ forms[f].step = "asked"
  /\ published # None
  /\ forms' = [forms EXCEPT ![f] = [step |-> "handed", holds |-> published]]
  /\ UNCHANGED <<published, stored, booted, ready, view, window, checks, calls, lost, steady>>

\* setUnlockError.
Refuse(f) ==
  /\ forms' = [forms EXCEPT ![f] = NoForm]
  /\ locked' = FALSE

\* A wrong password, no file, a broken answer, a lost connection.
FailDownload(f) ==
  /\ forms[f].step \in {"asked", "handed"}
  /\ Refuse(f)
  /\ UNCHANGED <<published, stored, booted, ready, view, dialog, checks, calls, lost, steady>>

CallImport(f, version) ==
  /\ forms' = [forms EXCEPT ![f].step = "called"]
  /\ calls' = Append(calls, [type |-> "import", form |-> f, label |-> version,
                             holds |-> forms[f].holds, answer |-> "none"])

M_LabelByOldCopy(f) ==
  /\ forms[f].step = "handed"
  /\ \/ /\ remote # Unknown
        /\ CallImport(f, IF ready THEN label ELSE remote)
        /\ UNCHANGED checks
     \/ /\ remote = Unknown
        /\ StartCheck(f, "asked")
        /\ forms' = [forms EXCEPT ![f].step = "checking"]
        /\ UNCHANGED calls
  /\ UNCHANGED <<published, stored, booted, ready, view, window, lost, steady>>

\* The file has come: it gets the version that was last heard of.
Label(f) ==
  /\ forms[f].step = "handed"
  /\ \/ /\ remote # Unknown
        /\ CallImport(f, remote)
        /\ UNCHANGED checks
     \/ /\ remote = Unknown
        /\ StartCheck(f, "asked")
        /\ forms' = [forms EXCEPT ![f].step = "checking"]
        /\ UNCHANGED calls
  /\ UNCHANGED <<published, stored, booted, ready, view, window, lost, steady>>

\* forgetCatalog, confirmed: the button of a copy in use, or of one that could not
\* be read.
Forget ==
  /\ booted /\ ~ dialog
  /\ ready \/ stored # NoCopy
  /\ \A i \in DOMAIN calls : calls[i].type # "forget"
  /\ calls' = Append(calls, [type |-> "forget", form |-> None, label |-> None,
                             holds |-> None, answer |-> "none"])
  /\ steady' = FALSE
  /\ UNCHANGED <<published, stored, booted, ready, view, window, checks, forms, lost>>

\* The worker does the first call it has not done; it takes no import without a
\* version.
Work ==
  \E i \in DOMAIN calls :
    /\ calls[i].answer = "none"
    /\ \A j \in 1..(i - 1) : calls[j].answer # "none"
    /\ LET c == calls[i]
           Answer(a) == calls' = [calls EXCEPT ![i].answer = a]
       IN \/ /\ c.type = "import" /\ c.label \in Files
             /\ stored' = [label |-> c.label, holds |-> c.holds]
             /\ Answer("ok")
          \/ /\ c.type = "import" /\ c.label \notin Files
             /\ Answer("failed")
             /\ UNCHANGED stored
          \/ /\ c.type = "forget"
             /\ stored' = NoCopy
             /\ Answer("ok")
    /\ UNCHANGED <<published, booted, ready, view, window, checks, forms, lost, steady>>

\* The database or the contents fail it.
Break ==
  /\ \E i \in DOMAIN calls :
       /\ calls[i].answer = "none"
       /\ \A j \in 1..(i - 1) : calls[j].answer # "none"
       /\ calls' = [calls EXCEPT ![i].answer = "failed"]
  /\ UNCHANGED <<published, stored, booted, ready, view, window, checks, forms, lost, steady>>

\* importCatalog goes on: the copy is in place, a search, then a check.
Installed(c) ==
  /\ c.type = "import" /\ c.answer = "ok"
  /\ ready' = TRUE /\ label' = c.label /\ offer' = FALSE /\ empty' = FALSE
  /\ dialog' = FALSE
  /\ forms' = [forms EXCEPT ![c.form] = NoForm]
  /\ StartCheck("itself", "later")
  /\ lost' = FALSE
  /\ UNCHANGED <<remote, locked>>

\* forgetCatalog goes on.
Forgotten(c) ==
  /\ c.type = "forget" /\ c.answer = "ok"
  /\ ready' = FALSE /\ label' = None /\ empty' = FALSE
  /\ IF remote \in Files THEN OpenForm ELSE UNCHANGED window
  /\ UNCHANGED <<remote, offer, checks, forms, lost>>

Failed(c) ==
  /\ c.answer = "failed"
  /\ IF c.type = "import" THEN Refuse(c.form) ELSE UNCHANGED <<forms, locked>>
  /\ UNCHANGED <<ready, view, dialog, checks, lost>>

Receive ==
  /\ calls # << >>
  /\ LET c == Head(calls) IN Installed(c) \/ Forgotten(c) \/ Failed(c)
  /\ calls' = Tail(calls)
  /\ UNCHANGED <<published, stored, booted, steady>>

-----------------------------------------------------------------------------

OfCheck == \E k \in Checks : AskNow(k) \/ Tell(k) \/ Hear(k)
OfForm  == \E f \in Forms : HandOut(f) \/ Label(f)
Failure == (\E k \in Checks : Miss(k)) \/ (\E f \in Forms : FailDownload(f)) \/ Break

Next ==
  \/ Publish \/ Reload \/ Boot
  \/ AskAgain \/ OfCheck \/ Failure
  \/ Look \/ Update \/ OpenFromPanel \/ Install \/ Cancel \/ Submit \/ Forget
  \/ OfForm \/ Work \/ Receive

\* Requests are answered or fail, awaits go on, the worker works.
Fairness ==
  /\ WF_vars(Boot) /\ WF_vars(Work \/ Break) /\ WF_vars(Receive)
  /\ \A k \in Checks : WF_vars(AskNow(k)) /\ WF_vars(Tell(k)) /\ WF_vars(Hear(k) \/ Miss(k))
  /\ \A f \in Forms : WF_vars(HandOut(f) \/ FailDownload(f)) /\ WF_vars(Label(f) \/ FailDownload(f))

Spec == Init /\ [][Next]_vars /\ Fairness

-----------------------------------------------------------------------------
(* Properties.                                                             *)

CallType ==
  [type : {"import", "forget"}, form : Forms \cup {None}, label : Files \cup {None},
   holds : Files \cup {None}, answer : {"none", "ok", "failed"}]

CopyType ==
  {c \in [label : Files \cup {None}, holds : Files \cup {None}] : c.label = None => c = NoCopy}

TypeOK ==
  /\ published \in Served
  /\ stored \in CopyType
  /\ booted \in BOOLEAN /\ ready \in BOOLEAN /\ offer \in BOOLEAN
  /\ empty \in BOOLEAN /\ dialog \in BOOLEAN /\ locked \in BOOLEAN /\ lost \in BOOLEAN /\ steady \in BOOLEAN
  /\ label \in Files \cup {None}
  /\ remote \in Files \cup {None, Unknown}
  /\ checks \in [Checks -> [why : {"none", "itself", "update"} \cup Forms,
                           step : {"idle", "later", "asked", "told"},
                           says : Files \cup {None, Unknown}]]
  /\ forms \in [Forms -> [step : {"idle", "asked", "handed", "checking", "called"},
                         holds : Files \cup {None}]]
  /\ calls \in Seq(CallType)

\* An update that is begun in a quiet tab and whose own check is answered labels
\* what it downloaded with its own version, unless the file is replaced before it
\* is through or the form is taken from the panel of an empty list while that check
\* is still out: no answer from before the button was pressed is used for it
\* (importCatalog takes state.remoteMeta, which the button's check renews).
UpdatesLabelRight ==
  steady => \A i \in DOMAIN calls : calls[i].type = "import" =>
                                        calls[i].label = calls[i].holds

\* When no check is under way and the last one did not fail, an update is offered
\* exactly if the copy's label is not the version last heard of, although answers
\* come in any order and while imports replace the copy (checkRemoteMeta,
\* importCatalog).
OfferAtRest ==
  ready /\ Idle = Checks /\ ~ lost =>
    (offer <=> remote \in Files /\ label # remote)

\* Updating comes to an end: if the server's file stays and nothing fails, a user
\* who takes every offer is offered nothing more, even where a copy was labelled
\* with the wrong version before.
OffersEnd ==
  /\ <>[][~ (Publish \/ Reload \/ Failure \/ AskAgain \/ Cancel \/ Forget)]_vars
  /\ WF_vars(offer /\ Update)
  /\ WF_vars(Submit)
  => <>[]~ (ready /\ offer)

================================================================================
