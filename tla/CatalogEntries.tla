--------------------------- MODULE CatalogEntries ---------------------------
(***************************************************************************)
(* What the catalogue build (internal/courses/catalog.go) reads off the    *)
(* entries of the exports: their identities, the links it trusts, and when *)
(* two entries are the same course.  No state.                             *)
(*                                                                         *)
(* A title, an author is a sequence of words, what normalizeSearchText     *)
(* leaves of it.  A link is its canonical key.                             *)
(***************************************************************************)
EXTENDS Integers, SequencesExt

CONSTANTS
    Words, Years, Keys, Labels, Messages,
    NoYear, NoLabel, NoTime, NoMessage,
    Unsafe,        \* the keys of links that inspectLink rejects
    LabelURLs,     \* label of a link -> the keys it spells out as a URL
    DisplayWords(_), \* the title rules: words of a title -> words it is shown with
    RuleApplies(_)   \* words of a title -> did a title rule change it

ASSUME EntriesAssumption == NoLabel \notin Labels /\ LabelURLs \in [Labels -> SUBSET Keys]

(* What a text tells of links: those it spells out as a URL, those whose host it
   names, and the label that it is.                                           *)
Prose == [urls: SUBSET Keys, hosts: SUBSET Keys, label: Labels \cup {NoLabel}]
Silent == [urls |-> {}, hosts |-> {}, label |-> NoLabel]
Text == {t \in [blank: BOOLEAN, says: Prose] : t.blank => t.says = Silent}

(* `bracket`: the title reads "author] rest" or "[author | rest]", the author being
   that many words; `dangling`: it ends in a year whose parenthesis is not closed.  A title that
   is not blank may still have no words.                                      *)
Title ==
    {t \in [blank: BOOLEAN, words: Seq(Words \cup Years), bracket: Nat, dangling: BOOLEAN,
            says: Prose] :
        /\ t.blank => t.words = <<>> /\ t.says = Silent
        /\ t.bracket > 0 => t.bracket < Len(t.words)}

(* A link: what the catalogue takes over of it, and what its export says of where
   it is from.  `firm`: its role is "primary", or it is of a file host or a magnet
   link; `from`: it was made of a bare domain, of something else, or that is not
   told; `places`: it stood alone, or in the title or the credit.             *)
LinkInfo == [primary: BOOLEAN, label: Labels \cup {NoLabel}]
Origin == [firm: BOOLEAN, from: {"", "domain", "other"}, places: SUBSET {"standalone", "heading"}]
LinkMap == UNION {[S -> LinkInfo] : S \in SUBSET Keys}
OriginMap == UNION {[S -> Origin] : S \in SUBSET Keys}

(* Instant 0 is that of a text that does not parse.                           *)
Time == [instant: Nat, spelling: Nat]

(* One catalog entry of an export.  `id` is ordered as its EntryID is; `author`
   is the words of the credit, `raw` the block of text it was read from.      *)
Entry ==
    {e \in [id: Nat, message: Messages \cup {NoMessage}, title: Title,
            credit: Text, author: Seq(Words \cup Years), raw: Text, year: Years \cup {NoYear},
            added: Time \cup {NoTime}, links: LinkMap, origins: OriginMap] :
        DOMAIN e.origins = DOMAIN e.links}

-----------------------------------------------------------------------------
(* Identities.                                                                *)

IdentityTitle(e) ==
    IF e.title.dangling /\ e.title.words # <<>> /\ Last(e.title.words) = e.year
    THEN Front(e.title.words) ELSE e.title.words

Identity(e) == [title |-> IdentityTitle(e), author |-> e.author, year |-> e.year]

(* The identity that an entry would have had, had its heading been split into
   author and title.                                                          *)
Repairable(e) == e.title.bracket > 0
RepairedIdentity(e) ==
    [title  |-> SubSeq(e.title.words, e.title.bracket + 1, Len(e.title.words)),
     author |-> SubSeq(e.title.words, 1, e.title.bracket),
     year   |-> e.year]

(* The identity under the title that the title rules make of it.              *)
DisplayIdentity(e) ==
    [title |-> DisplayWords(e.title.words), author |-> e.author, year |-> e.year]
Renamed(e) == RuleApplies(e.title.words)

CompatibleYears(e, f) == NoYear \in {e.year, f.year} \/ e.year = f.year

(* One title is the beginning or the end of the other, in whole words.        *)
WholeTokenTitleContains(v, w) ==
    LET short == IF Len(v) > Len(w) THEN w ELSE v
        long  == IF Len(v) > Len(w) THEN v ELSE w
    IN  /\ Len(v) # Len(w)
        /\ short # <<>>
        /\ \/ short = SubSeq(long, 1, Len(short))
           \/ short = SubSeq(long, Len(long) - Len(short) + 1, Len(long))

(* A time that does not parse counts as the zero time until the entry is looked
   at closely.                                                                *)
TimestampBefore(s, t) ==
    LET Instant(u) == IF u = NoTime THEN 0 ELSE u.instant
    IN  Instant(s) < Instant(t)

-----------------------------------------------------------------------------
(* Links.  b has the side files of the build: `dead` the tombstoned keys,
   `suppressed` the occurrences (entry, key) taken out by hand, `torrents` the
   links that the torrent directory adds for a message.                       *)

Excluded(b, e, k) == k \in Unsafe \cup b.dead \/ <<e.id, k>> \in b.suppressed

TrustedKeys(b, e) == {k \in DOMAIN e.links : ~Excluded(b, e, k)}

(* entryLinkTexts: a text or the label of any link gives the URL in full.     *)
SpelledOut(e, k) ==
    \/ k \in e.title.says.urls \cup e.raw.says.urls \cup e.credit.says.urls
    \/ \E j \in DOMAIN e.links : e.links[j].label # NoLabel /\ k \in LabelURLs[e.links[j].label]

(* bareDomainTitleOrCreditLink.                                               *)
NamedInHeading(e, k) ==
    \/ "heading" \in e.origins[k].places
    \/ /\ e.links[k].label # NoLabel
       /\ e.links[k].label \in {e.title.says.label, e.credit.says.label}
    \/ k \in e.title.says.hosts \cup e.credit.says.hosts

(* A link that is no more than a domain named in the title or the credit is a
   mere mention.                                                              *)
ActionableSourceLink(e, k) ==
    \/ e.links[k].primary \/ e.origins[k].firm
    \/ SpelledOut(e, k)
    \/ "standalone" \in e.origins[k].places
    \/ ~(e.origins[k].from = "domain" /\ NamedInHeading(e, k))

AcceptedKeys(b, e) == {k \in TrustedKeys(b, e) : ActionableSourceLink(e, k)}

(* The same link met twice: primary if one was, labelled as the first that has
   a label.                                                                   *)
MergeLinks(target, values) ==
    [k \in DOMAIN target \cup DOMAIN values |->
        IF k \notin DOMAIN target THEN values[k]
        ELSE IF k \notin DOMAIN values THEN target[k]
        ELSE [primary |-> target[k].primary \/ values[k].primary,
              label   |-> IF target[k].label = NoLabel THEN values[k].label ELSE target[k].label]]

TorrentKeys(b, e) == {k \in Keys : <<e.message, k>> \in b.torrents}

(* The links of one entry, its own first, then the torrent of its message.    *)
EntryLinks(b, e) ==
    MergeLinks([k \in AcceptedKeys(b, e) |-> e.links[k]],
               [k \in {t \in TorrentKeys(b, e) : ~Excluded(b, e, t)} |->
                    [primary |-> FALSE, label |-> NoLabel]])

-----------------------------------------------------------------------------
(* The exports merged.                                                        *)

(* The same link told of twice is from where the first account says.           *)
MergeOrigins(target, values) ==
    [k \in DOMAIN target \cup DOMAIN values |->
        IF k \notin DOMAIN target THEN values[k]
        ELSE IF k \notin DOMAIN values THEN target[k]
        ELSE [firm   |-> target[k].firm,
              from   |-> IF target[k].from = "" THEN values[k].from ELSE target[k].from,
              places |-> target[k].places \cup values[k].places]]

(* Mutant: the links of the later export take the place of the earlier ones.  *)
M_MergeSourceEntry(target, source) ==
    [target EXCEPT
        !.message = IF source.message = NoMessage THEN @ ELSE source.message,
        !.title   = IF source.title.blank THEN @ ELSE source.title,
        !.credit  = IF source.credit.blank THEN @ ELSE source.credit,
        !.author  = IF source.credit.blank THEN @ ELSE source.author,
        !.raw     = IF source.raw.blank THEN @ ELSE source.raw,
        !.year    = IF source.year = NoYear THEN @ ELSE source.year,
        !.added   = IF source.added = NoTime THEN @ ELSE source.added,
        !.links   = source.links,
        !.origins = source.origins]

(* What a later export says of an entry that is known already.                *)
MergeSourceEntry(target, source) ==
    [target EXCEPT
        !.message = IF source.message = NoMessage THEN @ ELSE source.message,
        !.title   = IF source.title.blank THEN @ ELSE source.title,
        !.credit  = IF source.credit.blank THEN @ ELSE source.credit,
        !.author  = IF source.credit.blank THEN @ ELSE source.author,
        !.raw     = IF source.raw.blank THEN @ ELSE source.raw,
        !.year    = IF source.year = NoYear THEN @ ELSE source.year,
        !.added   = IF source.added = NoTime THEN @ ELSE source.added,
        !.links   = MergeLinks(@, source.links),
        !.origins = MergeOrigins(@, source.origins)]

-----------------------------------------------------------------------------
(* When two entries are the same course: the reference that the clustering is
   measured by, in no order and without owners.                               *)

SameCourse(b, e, f) ==
    \/ Identity(e) = Identity(f)
    \/ e.title.words = f.title.words /\ TrustedKeys(b, e) \cap TrustedKeys(b, f) # {}
    \/ Repairable(e) /\ RepairedIdentity(e) = Identity(f)
    \/ Repairable(f) /\ RepairedIdentity(f) = Identity(e)
    \/ /\ TrustedKeys(b, e) \cap TrustedKeys(b, f) # {}
       /\ CompatibleYears(e, f)
       /\ WholeTokenTitleContains(e.title.words, f.title.words)
    \/ DisplayIdentity(e) = DisplayIdentity(f) /\ (Renamed(e) \/ Renamed(f))
=============================================================================
