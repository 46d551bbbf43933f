---------------------------- MODULE MCCatalogBuild ----------------------------
(* Three entries out of shapes that meet each criterion of the clustering, and
   one entry out of two or three accounts of it.                              *)
EXTENDS CatalogBuild, TLC

CONSTANTS k1, k2, bad

MCDisplayWords(w) == IF w = <<"c">> THEN <<"a">> ELSE w
MCRuleApplies(w) == w = <<"c">>
MCLabelURLs == "l1" :> {k2} @@ "l2" :> {}

Plain(w) == [blank |-> w = <<>>, words |-> w, bracket |-> 0, dangling |-> FALSE, says |-> Silent]
Naming(title, k) == [title EXCEPT !.says.hosts = {k}]
NoText == [blank |-> TRUE, says |-> Silent]
Saying(says) == [blank |-> FALSE, says |-> says]

Link(k, p, l) == k :> [primary |-> p, label |-> l]

Made(from, places) == [firm |-> FALSE, from |-> from, places |-> places]

Shape(title, author, year, links) ==
    [title |-> title, author |-> author, raw |-> NoText, year |-> year,
     credit |-> IF author = <<>> THEN NoText ELSE Saying(Silent),
     links |-> links, origins |-> [k \in DOMAIN links |-> Made("", {})]]

(* The link of the last but one is a mention, unless "l1" spells it out.      *)
Shapes ==
    {Shape(Plain(<<"a">>), <<>>, NoYear, Link(k1, FALSE, NoLabel)),
     Shape(Plain(<<"a">>), <<>>, "y", Link(k2, TRUE, "l1")),
     Shape([Plain(<<"a", "y">>) EXCEPT !.dangling = TRUE], <<>>, "y", Link(k1, FALSE, "l2")),
     Shape([Plain(<<"b", "a">>) EXCEPT !.bracket = 1], <<>>, NoYear, Link(k1, FALSE, NoLabel)),
     Shape(Plain(<<"a">>), <<"b">>, NoYear, Link(k1, TRUE, "l1") @@ Link(k2, FALSE, NoLabel)),
     Shape(Plain(<<"a", "b">>), <<"b">>, "z", Link(k1, FALSE, "l2")),
     [Shape(Naming(Plain(<<"c">>), k2), <<>>, NoYear,
            Link(k2, FALSE, NoLabel) @@ Link(bad, TRUE, NoLabel)) EXCEPT !.origins[k2].from = "domain"],
     Shape(Plain(<<"c">>), <<"b">>, NoYear, Link(bad, FALSE, "l1"))}

Blank == Shape(Plain(<<>>), <<>>, NoYear, Link(k1, FALSE, "l2"))

At(id, shape, time) ==
    [id |-> id, added |-> time, message |-> IF time = NoTime THEN NoMessage ELSE "m1"] @@ shape
T(i, s) == [instant |-> i, spelling |-> s]

(* The times and ids of three entries: the last comes first, one instant in one
   and in two spellings, an entry exported twice, with and without news.      *)
Stamps == {<< <<1, T(2, 1)>>, <<2, T(3, 1)>>, <<3, T(1, 1)>> >>,
           << <<3, T(1, 1)>>, <<2, T(1, 2)>>, <<1, T(1, 1)>> >>,
           << <<1, T(2, 1)>>, <<2, T(1, 1)>>, <<1, NoTime>> >>,
           << <<1, T(1, 1)>>, <<2, T(2, 1)>>, <<2, T(3, 1)>> >>}

Entries(shapes) ==
    {[i \in 1..3 |-> At(stamp[i][1], ss[i], stamp[i][2])] : ss \in [1..3 -> shapes], stamp \in Stamps}

InOneExport(es) == <<es>>
InTwoExports(es) == <<SubSeq(es, 1, 2), SubSeq(es, 3, 3)>>

BuildOf(exports, dead, suppressed, torrents) ==
    [exports |-> exports, dead |-> dead, suppressed |-> suppressed, torrents |-> torrents]

SideFiles == {<<{}, {}, {}>>, <<{k1}, {}, {}>>, <<{}, {<<1, k1>>}, {<<"m1", k1>>}>>}

-----------------------------------------------------------------------------
(* Accounts of one entry: what makes its link a mention comes with the first or
   with a later one, and so does what undoes it.                              *)

Origins == {Made(from, places) : from \in {"", "domain"}, places \in SUBSET {"standalone", "heading"}}

First ==
    {[At(1, Shape(Plain(<<"a">>), <<>>, NoYear, Link(k1, FALSE, label)), T(2, 1))
        EXCEPT !.raw = raw, !.origins[k1] = origin] :
      label \in {NoLabel, "l2"}, raw \in {NoText, Saying([Silent EXCEPT !.urls = {k1}])},
      origin \in Origins \cup {[Made("domain", {"heading"}) EXCEPT !.firm = TRUE]}}

Headings == {Plain(<<>>), Plain(<<"a">>), Naming(Plain(<<"a">>), k1),
             [Plain(<<"a">>) EXCEPT !.says.label = "l2"]}
Linked2 == {<< <<>>, <<>> >>,
            <<Link(k1, FALSE, NoLabel), k1 :> Made("domain", {})>>,
            <<Link(k1, FALSE, "l2"), k1 :> Made("other", {"heading"})>>,
            <<Link(k1, TRUE, NoLabel), k1 :> Made("", {})>>,
            <<Link(k2, FALSE, "l1"), k2 :> Made("", {})>>}

Second ==
    {[id |-> 1, message |-> news[1], title |-> title, credit |-> credit, author |-> <<>>,
      raw |-> raw, year |-> NoYear, added |-> news[2], links |-> linked[1], origins |-> linked[2]] :
      news \in {<<NoMessage, NoTime>>, <<"m2", T(1, 1)>>}, title \in Headings,
      credit \in {NoText, Saying([Silent EXCEPT !.hosts = {k1}])},
      raw \in {NoText, Saying(Silent)}, linked \in Linked2}

Third == At(1, Shape(Plain(<<"a">>), <<"b">>, NoYear, <<>>), T(1, 1))

Accounted ==
    {<< <<a>>, <<b>> >> : a \in First, b \in Second \cup {[Third EXCEPT !.added = T(0, 1)]}} \cup
    {<< <<a>>, <<b>>, <<Third>> >> : a \in First, b \in {x \in Second : x.message = "m2"}}

MCBuilds ==
    {BuildOf(InTwoExports(es), f[1], f[2], f[3]) : es \in Entries(Shapes), f \in SideFiles}
    \cup
    {BuildOf(InOneExport(es), f[1], f[2], f[3]) :
        es \in Entries({Blank} \cup {s \in Shapes : s.year # NoYear}), f \in SideFiles}
    \cup
    {BuildOf(exports, {}, {}, {<<"m1", k2>>}) : exports \in Accounted}
=============================================================================
