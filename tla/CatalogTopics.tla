----------------------------- MODULE CatalogTopics -----------------------------
(***************************************************************************)
(* internal/courses/catalog.go: the categories and formats of the courses. *)
(* Every entry is classified by its text and joins its course; at the end  *)
(* the courses without links are dropped, the courses that nothing was     *)
(* known of get the topic of their author, and everything is counted.      *)
(*                                                                         *)
(* What the keywords find in an entry is given with it; authors are in     *)
(* their normal form (normalizeSearchText).  Which entries make a course   *)
(* is in CatalogClusters, how their links are merged in CatalogBuild.      *)
(***************************************************************************)
EXTENDS Integers, SequencesExt

CONSTANTS
  Topics,       \* the categories but for "other" and "service", in their order
  TitleFormats, \* the formats that a title may name
  Inputs,       \* sequences of entries that a build may be given
  NoAuthor      \* no author

TopicSet == ToSet(Topics)
CategoryOrder == Topics \o << "other", "service" >>
Formats == TitleFormats \cup {"torrent_attachment", "unspecified"}

Post ==
  [course : Nat, canonical : BOOLEAN, author : STRING \cup {NoAuthor},
   found : SUBSET TopicSet, service : BOOLEAN, named : SUBSET TitleFormats, torrent : BOOLEAN,
   linked : BOOLEAN]

ASSUME TopicsAssumption ==
  /\ IsInjective(Topics) /\ TopicSet \cap {"other", "service"} = {}
  /\ Inputs \subseteq Seq(Post)
  /\ \A input \in Inputs : \A i \in DOMAIN input :
       \* Every course has one canonical entry.
       /\ Cardinality({j \in DOMAIN input : input[j].course = input[i].course /\ input[j].canonical}) = 1

VARIABLES
  posts,     \* source.CatalogEntries, once they are clustered
  joining,   \* the first that has not joined its course
  topical,   \* catalog.Entries, by course
  topicPass, \* "merge", "propagate", "count", "done"
  counts     \* catalog.Categories and catalog.Formats

topicVars == <<posts, joining, topical, topicPass, counts>>

-----------------------------------------------------------------------------
\* classify.
Classify(e) == IF e.service THEN {"service"} ELSE IF e.found = {} THEN {"other"} ELSE e.found

\* classifyFormats.
ClassifyFormats(e) ==
  LET formats == e.named \cup (IF e.torrent THEN {"torrent_attachment"} ELSE {})
  IN  IF formats = {} THEN {"unspecified"} ELSE formats

\* The first in the order of the definitions, as orderedUnion and classify put it.
FirstOf(categories, order) ==
  order[CHOOSE i \in DOMAIN order :
          order[i] \in categories /\ \A j \in 1..(i - 1) : order[j] \notin categories]

TopicCandidate(e) ==
  [author |-> e.author, categories |-> Classify(e), primary |-> FirstOf(Classify(e), CategoryOrder),
   formats |-> ClassifyFormats(e), linked |-> e.linked]

\* mergeCatalogEntry.
MergeTopics(target, source) ==
  LET categories == target.categories \cup source.categories
  IN  [target EXCEPT !.categories = categories,
                     !.primary = FirstOf(categories, CategoryOrder),
                     !.formats = @ \cup source.formats,
                     !.linked = @ \/ source.linked]

-----------------------------------------------------------------------------
(* propagateAuthorTopics.                                                  *)

IsOther(c) == c.categories = {"other"}
HasTopic(c) == c.categories \cap TopicSet # {}
FirstTopic(c) == FirstOf(c.categories, Topics)

\* The author's courses that have a topic; with `topic' before their other ones.
Classified(cs, author) == {r \in DOMAIN cs : cs[r].author = author /\ HasTopic(cs[r])}
With(cs, author, topic) == {r \in Classified(cs, author) : FirstTopic(cs[r]) = topic}

M_MostFrequent(cs, author, topic) ==
  /\ Cardinality(Classified(cs, author)) >= 2
  /\ \A t \in TopicSet : Cardinality(With(cs, author, topic)) >= Cardinality(With(cs, author, t))

\* dominantAuthorTopic, with the threshold; a topic that is ahead of all others,
\* or of those behind it in the order and equal to none before.
Dominant(cs, author, topic) ==
  LET count(t) == Cardinality(With(cs, author, t))
      place(t) == CHOOSE i \in DOMAIN Topics : Topics[i] = t
  IN  /\ Cardinality(Classified(cs, author)) >= 2
      /\ count(topic) > 0
      /\ \A t \in TopicSet : IF place(t) < place(topic) THEN count(t) < count(topic)
                                                        ELSE count(t) <= count(topic)
      /\ count(topic) * 100 >= Cardinality(Classified(cs, author)) * 70

PropagateTopics(cs) ==
  [r \in DOMAIN cs |->
     LET c == cs[r]
         dominant == {t \in TopicSet : Dominant(cs, c.author, t)}
     IN  IF c.author # NoAuthor /\ IsOther(c) /\ dominant # {}
           THEN LET topic == CHOOSE t \in dominant : TRUE
                IN  [c EXCEPT !.categories = {topic}, !.primary = topic]
           ELSE c]

-----------------------------------------------------------------------------
(* The build.                                                              *)

CountsOf(cs) ==
  [categories |-> [k \in ToSet(CategoryOrder) |-> Cardinality({r \in DOMAIN cs : k \in cs[r].categories})],
   formats |-> [k \in Formats |-> Cardinality({r \in DOMAIN cs : k \in cs[r].formats})]]

NoCounts == CountsOf(<< >>)

TopicsInit ==
  /\ posts \in Inputs
  /\ joining = 1
  /\ topical = << >>
  /\ topicPass = "merge"
  /\ counts = NoCounts

\* An entry joins its course; the canonical one takes the course over.
Join ==
  /\ topicPass = "merge" /\ joining \in DOMAIN posts
  /\ LET e == posts[joining]
         joined == IF e.course \notin DOMAIN topical THEN TopicCandidate(e)
                   ELSE IF e.canonical THEN MergeTopics(TopicCandidate(e), topical[e.course])
                   ELSE MergeTopics(topical[e.course], TopicCandidate(e))
     IN  topical' = [r \in DOMAIN topical \cup {e.course} |->
                       IF r = e.course THEN joined ELSE topical[r]]
  /\ joining' = joining + 1
  /\ UNCHANGED <<posts, topicPass, counts>>

\* removeEntriesWithoutLinks.
Drop ==
  /\ topicPass = "merge" /\ joining \notin DOMAIN posts
  /\ topical' = Restrict(topical, {r \in DOMAIN topical : topical[r].linked})
  /\ topicPass' = "propagate"
  /\ UNCHANGED <<posts, joining, counts>>

M_PropagateAfterCounting ==
  /\ topicPass = "propagate"
  /\ topical' = PropagateTopics(topical)
  /\ counts' = CountsOf(topical)
  /\ topicPass' = "done"
  /\ UNCHANGED <<posts, joining>>

Propagate ==
  /\ topicPass = "propagate"
  /\ topical' = PropagateTopics(topical)
  /\ topicPass' = "count"
  /\ UNCHANGED <<posts, joining, counts>>

\* recomputeCatalogStatsAndFacets.
Count ==
  /\ topicPass = "count"
  /\ counts' = CountsOf(topical)
  /\ topicPass' = "done"
  /\ UNCHANGED <<posts, joining, topical>>

TopicsNext == Join \/ Drop \/ Propagate \/ Count

TopicsSpec == TopicsInit /\ [][TopicsNext]_topicVars

-----------------------------------------------------------------------------
(* Properties.                                                             *)

\* What the texts of the entries say of a course.
Said(r) == UNION {Classify(posts[i]) : i \in {i \in DOMAIN posts : posts[i].course = r}}

\* A published course has the categories its texts give it, unless they give it
\* none and at least seven in ten of its canonical author's courses with a topic,
\* two or more of them, are first of all about the one it was given
\* (propagateAuthorTopics and what it works on).
TopicsAreEarned ==
  topicPass = "done" =>
    \A r \in DOMAIN topical :
      topical[r].categories # Said(r) =>
        LET topic == topical[r].primary
            speaker(x) == CHOOSE i \in DOMAIN posts : posts[i].course = x /\ posts[i].canonical
            peers == {x \in DOMAIN topical :
                        /\ Said(x) \cap TopicSet # {}
                        /\ posts[speaker(x)].author = posts[speaker(r)].author}
            alike == {x \in peers : FirstOf(Said(x), Topics) = topic}
        IN  /\ Said(r) = {"other"}
            /\ topical[r].categories = {topic}
            /\ posts[speaker(r)].author # NoAuthor
            /\ Cardinality(peers) >= 2
            /\ 10 * Cardinality(alike) >= 7 * Cardinality(peers)

\* The counts of the published file are those of its courses, and another round
\* of topics would change nothing (the order of the last passes of the build).
CountsAreOfThePublished ==
  topicPass = "done" => /\ counts = CountsOf(topical)
                        /\ topical = PropagateTopics(topical)

================================================================================
