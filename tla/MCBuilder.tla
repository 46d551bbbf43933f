------------------------------- MODULE MCBuilder -------------------------------
(***************************************************************************)
(* An instance of the builder for TLC: the clusters and courses of a build *)
(* (CatalogBuild), what the courses are about (CatalogTopics), and what    *)
(* their titles become (TitleRules).  None of them looks at what another   *)
(* has made, so a behaviour is of one of them; the state that the others   *)
(* are left in satisfies whatever is said of them.                         *)
(***************************************************************************)
EXTENDS MCCatalogBuild, CatalogTopics, TitleRules

VARIABLE part

buildVars == vars

NoBuild ==
  /\ build = << >> /\ read = << >> /\ entries = << >> /\ pass = "merge"
  /\ parent = << >> /\ rank = << >> /\ todo = {} /\ group = << >> /\ next = 1
  /\ canonical = << >> /\ courses = << >> /\ catalogue = {} /\ removed = 0

NoTopics ==
  posts = << >> /\ joining = 1 /\ topical = << >> /\ topicPass = "merge" /\ counts = << >>

NoTitle == file = << >> /\ title = << >> /\ step = "given" /\ results = << >>

BuilderInit ==
  \/ part = "build" /\ Init /\ NoTopics /\ NoTitle
  \/ part = "topics" /\ TopicsInit /\ NoBuild /\ NoTitle
  \/ part = "titles" /\ TitlesInit /\ NoBuild /\ NoTopics

BuilderNext ==
  /\ UNCHANGED part
  /\ \/ part = "build" /\ Next /\ UNCHANGED <<topicVars, titleVars>>
     \/ part = "topics" /\ TopicsNext /\ UNCHANGED <<buildVars, titleVars>>
     \/ part = "titles" /\ TitlesNext /\ UNCHANGED <<buildVars, topicVars>>

BuilderSpec == BuilderInit /\ [][BuilderNext]_<<part, buildVars, topicVars, titleVars>>

-----------------------------------------------------------------------------
(* Posts and their authors.                                                *)

MCTopics == << "code", "design" >>

Of(course, speaks, author, found, service, linked) ==
  [course |-> course, canonical |-> speaks, author |-> author, found |-> found,
   service |-> service, named |-> IF speaks THEN {"course"} ELSE {}, torrent |-> service,
   linked |-> linked]

Found == {{}, {"code"}, {"design"}, {"code", "design"}}

\* One course of two posts, in either order, between three courses of one.
Posts ==
  {<< Of(1, c, a, f, s, FALSE), Of(1, ~ c, "ann", {}, FALSE, l) >> :
     c \in BOOLEAN, a \in {"ann", NoAuthor}, f \in Found, s \in BOOLEAN, l \in BOOLEAN}
Alone(course) == {Of(course, TRUE, "ann", f, FALSE, l) : f \in Found, l \in BOOLEAN}

MCInputs ==
  {<< p[1], a, b, p[2], c, Of(5, TRUE, "ann", {"code"}, FALSE, TRUE) >> :
     p \in Posts, a \in Alone(2), b \in Alone(3), c \in Alone(4)}

-----------------------------------------------------------------------------
(* Titles and rules files.                                                 *)

MCLatin == {"beta", "Beta", "klyuching", "Klyuching", "dlya", "ab", "AB"}
\* Words that are only in some addresses.
Rare == {":", "dlya:", ":beta", "AB_dlya", "ab_dlya", "dlya_AB", "dlya_ab"}
MCTitleWords ==
  MCLatin \cup {"cyr", "7", "beta_dlya", "dlya_7", "_", "http://"} \cup Rare
MCSpellings == MCTitleWords \cup {"klyuch", "c++"}
MCLower == [s \in MCSpellings |-> CASE s = "Beta" -> "beta"
                                    [] s = "Klyuching" -> "klyuching"
                                    [] s = "AB" -> "ab"
                                    [] s = "AB_dlya" -> "ab_dlya"
                                    [] s = "dlya_AB" -> "dlya_ab"
                                    [] OTHER -> s]
MCWithin == [w \in MCTitleWords |->
  {MCLower[w]} \cup (IF MCLower[w] = "klyuching" THEN {"klyuch"} ELSE {})
               \cup (IF w = "beta_dlya" THEN {"beta", "dlya"} ELSE {})
               \cup (IF w \in {"dlya_7"} \cup (Rare \ {":", ":beta"}) THEN {"dlya"} ELSE {})
               \cup (IF w = ":beta" THEN {"beta"} ELSE {})]
MCScore == [w \in MCTitleWords |-> IF w = "dlya" THEN 4 ELSE IF w = "klyuching" THEN -3 ELSE 0]
MCCyrillic == [w \in MCLatin |-> "cyr"]
MCPieces == "beta_dlya" :> << "beta", " ", "dlya" >> @@ "dlya_7" :> << "dlya", " ", "7" >>
              @@ "_" :> << " " >> @@ "AB_dlya" :> << "AB", " ", "dlya" >>
              @@ "ab_dlya" :> << "ab", " ", "dlya" >> @@ "dlya_AB" :> << "dlya", " ", "AB" >>
              @@ "dlya_ab" :> << "dlya", " ", "ab" >>

MCMarks == {" ", ".", "[", "]", "quote"}
NoTwoWords(t) == \A i \in 1..(Len(t) - 1) : t[i] \in MCMarks \/ t[i + 1] \in MCMarks
Short ==
  UNION {[1..n -> (MCTitleWords \ ({"ab", "AB"} \cup Rare)) \cup MCMarks] : n \in 1..3}

\* Colons at the ends of an address, and capitals in a part of a field.
Addresses ==
  {<< v, m, w >> : v \in {"beta", ":beta"}, m \in {".", "-", " "}, w \in {"dlya", "dlya:", "AB_dlya"}} \cup
  {<< "beta", " ", v, m, w >> : v \in {"AB_dlya", "dlya"}, m \in {"-", "backslash"},
                                w \in {"AB_dlya", "dlya_AB", "beta", ":"}}

\* Every title of up to three tokens, and longer ones with a provider and with
\* noise before it.
Noise == {<< >>, << "quote" >>, << "quote", "quote" >>, << "7", "." >>, << "quote", "7", "." >>}
Provider == {<< >>, << "[", "Beta", "]", " " >>, << "[", "klyuching", "]" >>, << "[", "quote", "]" >>}
Around == {"beta", "Klyuching", "dlya", "7", "beta_dlya", "dlya_7", "_"}
MCTitles ==
  {t \in Short : NoTwoWords(t)} \cup Addresses \cup
  {n \o p \o << v, m, w >> : n \in Noise, p \in Provider, v \in Around, w \in Around, m \in {" ", "."}}

MCRulesFiles ==
  {[ci |-> ci, exact |-> exact, inside |-> inside, tokens |-> tokens,
    phrases |-> phrases, clean |-> clean] :
     ci \in {{}, {"beta"}}, exact \in {{}, {"Beta"}}, inside \in {{}, {"klyuch"}},
     tokens \in {{}, {"beta"}, {"Klyuching"}, {"beta", "klyuching"}, {"beta", "Beta"}, {"c++"}},
     phrases \in {{}, {<< "beta", "klyuching" >>}},
     clean \in {{}, {"noise", "underscores"}}}

================================================================================
