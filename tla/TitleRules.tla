------------------------------- MODULE TitleRules -------------------------------
(***************************************************************************)
(* internal/courses/title_rules.go and title_normalization.go: the rules   *)
(* file of the builder and what it makes of a title.  LoadTitleRules takes *)
(* or refuses a file; Normalize cleans a title, marks what is protected    *)
(* and, if the title looks transliterated or a rule says so, writes every  *)
(* other Latin word in Cyrillic.                                           *)
(*                                                                         *)
(* A title is a sequence of tokens: words, and single characters between   *)
(* them, of which "quote" is the straight one.  A word is known by what    *)
(* the code reads off its letters.  HTML entities and invisible characters *)
(* are taken as decoded and dropped.                                       *)
(***************************************************************************)
EXTENDS Integers, SequencesExt

CONSTANTS
  TitleWords, \* what the tokenizer may find as one word
  Spellings, \* what may be written in a rules file, words or not
  Lower,     \* strings.ToLower, on TitleWords and Spellings
  Within,    \* Within[w]: the spellings that the lower case of w contains
  Latin,     \* words of ASCII letters and apostrophes
  Hard,      \* words with a digit or one of _ @ / :
  Net,       \* words with :// or @
  Host,      \* words of ASCII letters, digits, and underscores inside
  AfterColon, \* words of colons and then one of Host
  BeforeColon, \* words of one of Host and then colons
  Colons,    \* words of nothing but colons
  Capital,   \* words that begin with an ASCII capital
  English,   \* words with th, tion, ing or ment in them
  Loud,      \* words with a capital after the first letter, or only capitals
  Score,     \* how much a word speaks for a transliterated title
  Cyrillic,  \* the word in Cyrillic, with the same first capital
  Pieces,    \* words with underscores -> what is left without them
  Slashed,   \* words with a slash
  Coded,     \* words with a digit, or a part in capitals between underscores
  CodedHead, \* words with a part in capitals before their first underscore
  CodedTail, \* words with a part in capitals after their last underscore
  Number,    \* words of digits
  RulesFiles, Titles \* the files and the titles there may be

Space == " "
Marks == {Space, ".", "-", "[", "]", "(", ")", "quote", "backslash"}
Token == TitleWords \cup Marks

\* The five lists of a file are sets, but that a list may hold one word in two
\* cases.  A phrase is a sequence of words.
RulesFile ==
  [ci : SUBSET Spellings, exact : SUBSET Spellings, inside : SUBSET Spellings,
   tokens : SUBSET Spellings, phrases : SUBSET Seq(Spellings),
   clean : SUBSET {"noise", "underscores"}]

ASSUME LexiconAssumption ==
  /\ TitleWords \subseteq Spellings /\ TitleWords \cap Marks = {}
  /\ Lower \in [Spellings -> Spellings]
  /\ Within \in [TitleWords -> SUBSET Spellings]
  /\ Latin \cup Hard \cup Host \cup Capital \cup English \cup Loud \subseteq TitleWords
  /\ AfterColon \cup BeforeColon \cup Colons \cup Net \cup Slashed \cup Coded \subseteq Hard
  /\ CodedHead \cup CodedTail \cup Number \cup DOMAIN Pieces \subseteq Hard
  /\ Score \in [TitleWords -> Int]
  /\ Cyrillic \in [Latin -> TitleWords]
  /\ \A w \in TitleWords : Lower[w] \in TitleWords
  \* Only letters change with the case.
  /\ \A w \in TitleWords, v \in TitleWords :
       Lower[w] = Lower[v] => (w \in Hard <=> v \in Hard) /\ Within[w] = Within[v]
  /\ \A w \in Latin : Cyrillic[w] \notin Latin \cup Hard
  /\ Latin \cap Hard = {} /\ Number \cap Net = {}
  \* Each run of underscores becomes a space.
  /\ Pieces \in [DOMAIN Pieces -> Seq((TitleWords \ DOMAIN Pieces) \cup {Space})]
  /\ \A w \in DOMAIN Pieces : \E k \in DOMAIN Pieces[w] : Pieces[w][k] = Space
  /\ RulesFiles \subseteq RulesFile /\ Titles \subseteq Seq(Token)

VARIABLES
  file,  \* the rules file
  title, \* what Normalize was given
  step,  \* "given", "loaded", "refused", "once", "twice"
  results \* what it returned, first for the title and then for that

titleVars == <<file, title, step, results>>

-----------------------------------------------------------------------------
(* LoadTitleRules.                                                         *)

LowerAll(S) == {Lower[w] : w \in S}
NoneTwice(S) == \A v, w \in S : Lower[v] = Lower[w] => v = w

\* titleRuleWordIsExplicitlyProtected.
ExplicitlyProtected(f, w) ==
  \/ Lower[w] \in LowerAll(f.ci) \cup LowerAll(f.exact)
  \/ Within[w] \cap LowerAll(f.inside) # {}

M_ForceableWithoutShadow(f, w) == w \in TitleWords /\ w \notin Hard

\* What a rule may force: one word, with nothing hard in it, that no rule of the
\* file protects.
Forceable(f, w) == w \in TitleWords /\ w \notin Hard /\ ~ ExplicitlyProtected(f, w)

LowerPhrase(p) == [i \in DOMAIN p |-> Lower[p[i]]]

Accepted(f) ==
  /\ NoneTwice(f.ci) /\ NoneTwice(f.inside) /\ NoneTwice(f.tokens)
  /\ LowerAll(f.exact) \cap LowerAll(f.ci) = {}
  /\ \A w \in f.tokens : Forceable(f, w)
  /\ \A p \in f.phrases : Len(p) >= 2 /\ \A i \in DOMAIN p : Forceable(f, p[i])
  /\ \A p, q \in f.phrases : LowerPhrase(p) = LowerPhrase(q) => p = q

-----------------------------------------------------------------------------
(* Tokens of a title.                                                      *)

IsWord(t, i) == t[i] \in TitleWords

\* How deep position i of t is in brackets of a kind; a stray closing one is
\* taken for a character like any other.
Depth(t, open, close) ==
  LET d[i \in 0..Len(t)] ==
        IF i = 0 THEN 0
        ELSE IF t[i] = open THEN d[i - 1] + 1
        ELSE IF t[i] = close /\ d[i - 1] > 0 THEN d[i - 1] - 1
        ELSE d[i - 1]
  IN  d

Bracketed(t, i) == Depth(t, "[", "]")[i] > 0 \/ Depth(t, "(", ")")[i] > 0

\* The field of i: what lies between spaces.
Field(t, i) ==
  {j \in DOMAIN t : \A k \in DOMAIN t : (i <= k /\ k <= j) \/ (j <= k /\ k <= i) => t[k] # Space}

\* What strings.Trim leaves at the end of a field: colons, which a word may end
\* in too, are taken for punctuation.
Solid == (TitleWords \ Colons) \cup {".", "-", "backslash"}

\* The field without the punctuation around it.
Trimmed(t, F) ==
  {j \in F : /\ \E k \in F : k <= j /\ t[k] \in Solid
             /\ \E k \in F : j <= k /\ t[k] \in Solid}

\* A word that is a label of an address, without colons at the ends of D.
LabelAt(t, D, j) ==
  \/ t[j] \in Host
  \/ t[j] \in AfterColon /\ \A k \in D : j <= k
  \/ t[j] \in BeforeColon /\ \A k \in D : k <= j

\* looksLikeCourseTitleDomain: labels of letters, digits and hyphens, joined by
\* dots.  `words' are the words that may stand in it.
LooksLikeDomain(t, F, words) ==
  LET D == Trimmed(t, F)
      Label(j) == t[j] \in words /\ LabelAt(t, D, j)
  IN  /\ \E j \in D : t[j] = "."
      /\ \A j \in D : Label(j) \/ t[j] \in {".", "-"}
      /\ \A j \in D : t[j] = "." => j - 1 \in D /\ Label(j - 1) /\ j + 1 \in D /\ Label(j + 1)
      /\ \A j \in D : ~ Label(j) => j - 1 \in D /\ j + 1 \in D

InNetworkField(t, i) ==
  LET F == Field(t, i)
  IN  (\E j \in F : t[j] \in Net) \/ LooksLikeDomain(t, F, TitleWords \ DOMAIN Pieces)

-----------------------------------------------------------------------------
(* Normalize.                                                              *)

\* protectToken: what no rule can force, and what only looks like a name.
ByRule(f, w) ==
  \/ w \in f.exact
  \/ Lower[w] \in LowerAll(f.ci)
  \/ Within[w] \cap LowerAll(f.inside) # {}

Firm(f, t, i) == Bracketed(t, i) \/ ByRule(f, t[i]) \/ t[i] \in Hard \/ InNetworkField(t, i)
LooksLikeName(w) == (w \in Capital /\ w \in English) \/ w \in Loud
Protected(f, t, i) == Firm(f, t, i) \/ LooksLikeName(t[i])

Forced(f, w) == Lower[w] \in LowerAll(f.tokens)

\* scoreCourseTitle.
TitleScore(f, t) ==
  FoldLeft(LAMBDA sum, i : sum + (IF IsWord(t, i) /\ ~ Protected(f, t, i) /\ t[i] \in Latin
                                    THEN Score[t[i]] ELSE 0),
           0, [i \in DOMAIN t |-> i])

\* courseTitleContainsPhrase: the words of p from i on, with nothing but spaces
\* between them.
PhraseAt(f, t, p, i) ==
  \E at \in [DOMAIN p -> DOMAIN t] :
    /\ at[1] = i
    /\ \A k \in DOMAIN p : /\ IsWord(t, at[k]) /\ ~ Protected(f, t, at[k])
                           /\ Lower[t[at[k]]] = Lower[p[k]]
    /\ \A k \in DOMAIN p \ {1} :
         /\ at[k - 1] + 1 < at[k]
         /\ \A j \in (at[k - 1] + 1)..(at[k] - 1) : t[j] = Space

\* forceNormalizeWholeTitle.
ForcedTitle(f, t) ==
  \/ \E i \in DOMAIN t : IsWord(t, i) /\ Forced(f, t[i]) /\ ~ Firm(f, t, i)
  \/ \E p \in f.phrases, i \in DOMAIN t : PhraseAt(f, t, p, i)

Rewritten(f, t, i) ==
  /\ IsWord(t, i) /\ t[i] \in Latin
  /\ Protected(f, t, i) => ~ Firm(f, t, i) /\ Forced(f, t[i])

M_RewriteForcedAnywhere(f, t) ==
  IF TitleScore(f, t) >= 4 \/ ForcedTitle(f, t)
    THEN [i \in DOMAIN t |->
            IF /\ IsWord(t, i) /\ t[i] \in Latin
               /\ Protected(f, t, i) =>
                    ~ (Bracketed(t, i) \/ ByRule(f, t[i]) \/ t[i] \in Hard) /\ Forced(f, t[i])
              THEN Cyrillic[t[i]] ELSE t[i]]
    ELSE t

Rewrite(f, t) ==
  IF TitleScore(f, t) >= 4 \/ ForcedTitle(f, t)
    THEN [i \in DOMAIN t |-> IF Rewritten(f, t, i) THEN Cyrillic[t[i]] ELSE t[i]]
    ELSE t

-----------------------------------------------------------------------------
(* cleanup, which comes before anything is protected.                      *)

PairedQuotes(t) == Len(t) > 2 /\ t[1] = "quote" /\ t[Len(t)] = "quote"

\* How many of the first tokens are quotes.
LeadingQuotes(t) == CHOOSE n \in 0..Len(t) :
                      /\ \A i \in 1..n : t[i] = "quote"
                      /\ n < Len(t) => t[n + 1] # "quote"

\* Noise is quotes, then a number with a dot.
NoiseEnd(t) ==
  LET q == LeadingQuotes(t)
  IN  IF q + 2 <= Len(t) /\ t[q + 1] \in Number /\ t[q + 2] = "." THEN q + 2 ELSE q

M_StripNoiseAnywhere(t) ==
  LET n == NoiseEnd(t)
  IN  IF ~ PairedQuotes(t) /\ n > 0 /\ n < Len(t) THEN SubSeq(t, n + 1, Len(t)) ELSE t

\* stripLeadingProviderNoise: only before a provider in brackets.
StripNoise(t) ==
  LET n == NoiseEnd(t)
  IN  IF /\ ~ PairedQuotes(t)
         /\ n > 0 /\ n < Len(t) /\ t[n + 1] = "["
         /\ \E j \in (n + 3)..Len(t) : t[j] = "]" /\ \A k \in (n + 2)..(j - 1) : t[k] # "]"
        THEN SubSeq(t, n + 1, Len(t))
        ELSE t

\* Fields, as strings.Fields counts them.
Embedded(t) == \E i, j \in DOMAIN t : t[i] # Space /\ t[j] # Space /\ Field(t, i) # Field(t, j)

\* A number, or a part in capitals: a part of the field, not only of the word.
CodeAt(t, F, j) ==
  \/ t[j] \in Coded
  \/ t[j] \in CodedHead /\ \A k \in F : j <= k
  \/ t[j] \in CodedTail /\ \A k \in F : k <= j

\* preserveCourseTitleUnderscores.
KeepsUnderscores(t, i) ==
  LET F == Field(t, i)
  IN  \/ \E j \in F : t[j] \in Net \cup Slashed \cup {"backslash"}
      \/ LooksLikeDomain(t, F, TitleWords)
      \/ Embedded(t) /\ \E j \in F : CodeAt(t, F, j)

\* cleanupCourseTitleUnderscores.
SplitUnderscores(t) ==
  FlattenSeq([i \in DOMAIN t |->
    IF t[i] \in DOMAIN Pieces /\ ~ KeepsUnderscores(t, i) THEN Pieces[t[i]] ELSE << t[i] >>])

Visible(t) == \E i \in DOMAIN t : t[i] # Space

Cleanup(f, t) ==
  LET stripped == IF "noise" \in f.clean THEN StripNoise(t) ELSE t
      split == IF "underscores" \in f.clean THEN SplitUnderscores(stripped) ELSE stripped
  IN  IF Visible(split) THEN split ELSE t

Normalize(f, t) == Rewrite(f, Cleanup(f, t))

-----------------------------------------------------------------------------
(* One file and one title, normalized and normalized again.                *)

TitlesInit ==
  /\ file \in RulesFiles
  /\ title \in Titles
  /\ step = "given"
  /\ results = << >>

Load ==
  /\ step = "given"
  /\ step' = IF Accepted(file) THEN "loaded" ELSE "refused"
  /\ UNCHANGED <<file, title, results>>

NormalizeOnce ==
  /\ step = "loaded"
  /\ step' = "once"
  /\ results' = << Normalize(file, title) >>
  /\ UNCHANGED <<file, title>>

NormalizeAgain ==
  /\ step = "once"
  /\ step' = "twice"
  /\ results' = Append(results, Normalize(file, results[1]))
  /\ UNCHANGED <<file, title>>

TitlesNext == Load \/ NormalizeOnce \/ NormalizeAgain

TitlesSpec == TitlesInit /\ [][TitlesNext]_titleVars

-----------------------------------------------------------------------------
(* Properties.                                                             *)

\* A forced word that stands free in a title, in any case of its letters, is
\* written in Cyrillic, and so is every other word that nothing protects.
WordRulesTakeEffect(t, result) ==
  \A i \in DOMAIN t :
    IsWord(t, i) /\ Forced(file, t[i]) /\ ~ Bracketed(t, i) /\ ~ InNetworkField(t, i) =>
      \A j \in DOMAIN t :
        IsWord(t, j) /\ t[j] \in Latin /\ (j = i \/ ~ Protected(file, t, j)) =>
          result[j] = Cyrillic[t[j]]

\* The same of a phrase, but for words that look like names.
PhraseRulesTakeEffect(t, result) ==
  \A p \in file.phrases, i \in 1..Len(t) :
    LET at(k) == i + 2 * (k - 1)
    IN  /\ \A k \in DOMAIN p :
             /\ at(k) \in DOMAIN t /\ IsWord(t, at(k))
             /\ Lower[t[at(k)]] = Lower[p[k]]
             /\ ~ LooksLikeName(t[at(k)])
             /\ ~ Bracketed(t, at(k)) /\ ~ InNetworkField(t, at(k))
             /\ k > 1 => t[at(k) - 1] = Space
        => \A k \in DOMAIN p : t[at(k)] \in Latin => result[at(k)] = Cyrillic[t[at(k)]]

\* A rule that was accepted is never without effect: LoadTitleRules refuses what
\* the other rules of the file would shadow, and a title that a rule forces is
\* rewritten whatever its score (forceNormalizeWholeTitle).
ForceRulesTakeEffect ==
  step = "once" =>
    /\ WordRulesTakeEffect(Cleanup(file, title), results[1])
    /\ PhraseRulesTakeEffect(Cleanup(file, title), results[1])

\* What is a name by a rule, in brackets, or part of an address is still there
\* afterwards, whatever is forced and cleaned up (Normalize).
WhatIsProtectedStays ==
  step = "once" =>
    \A w \in Latin :
      LET kept == {i \in DOMAIN title : title[i] = w /\ Firm(file, title, i)}
      IN  Cardinality(kept) <= Cardinality({j \in DOMAIN results[1] : results[1][j] = w})

\* Normalizing a title that was normalized changes nothing, but for two kinds of
\* titles: an address with underscores, that cleanup keeps and protection does not
\* know for one, and a word of nothing but underscores, that no longer counts as a
\* field when it is a space (Normalize).
IdempotentOnOthers ==
  LET kept == Cleanup(file, title)
  IN  /\ step = "twice"
      /\ \A i \in DOMAIN title : title[i] \in DOMAIN Pieces =>
           \E k \in DOMAIN Pieces[title[i]] : Pieces[title[i]][k] # Space
      /\ \A i \in DOMAIN kept : kept[i] \in DOMAIN Pieces =>
           ~ LooksLikeDomain(kept, Field(kept, i), TitleWords)
      => results[2] = results[1]

================================================================================
