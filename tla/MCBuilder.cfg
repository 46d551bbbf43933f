\* Three entries of a build, or up to three accounts of one; a course of two posts among four others; titles of
\* up to nine tokens under every small rules file.
SPECIFICATION BuilderSpec
CONSTANTS
    k1 = k1
    k2 = k2
    bad = bad
    NoYear = NoYear
    NoLabel = NoLabel
    NoTime = NoTime
    NoMessage = NoMessage
    Words = {"a", "b", "c"}
    Years = {"y", "z"}
    Labels = {"l1", "l2"}
    Keys = {k1, k2, bad}
    Messages = {"m1", "m2"}
    LabelURLs <- MCLabelURLs
    Unsafe = {bad}
    DisplayWords <- MCDisplayWords
    RuleApplies <- MCRuleApplies
    Builds <- MCBuilds
    Topics <- MCTopics
    TitleFormats = {"course"}
    Inputs <- MCInputs
    NoAuthor = NoAuthor
    TitleWords <- MCTitleWords
    Spellings <- MCSpellings
    Lower <- MCLower
    Within <- MCWithin
    Latin <- MCLatin
    Hard = {"7", "beta_dlya", "dlya_7", "_", "http://", ":", "dlya:", ":beta", "AB_dlya", "ab_dlya",
            "dlya_AB", "dlya_ab"}
    Net = {"http://"}
    Host = {"beta", "Beta", "klyuching", "Klyuching", "dlya", "7", "beta_dlya", "dlya_7", "ab", "AB", "AB_dlya", "ab_dlya",
            "dlya_AB", "dlya_ab"}
    AfterColon = {":beta"}
    BeforeColon = {"dlya:"}
    Colons = {":"}
    Capital = {"Beta", "Klyuching", "AB", "AB_dlya"}
    English = {"klyuching", "Klyuching"}
    Loud = {"AB", "AB_dlya", "dlya_AB"}
    Score <- MCScore
    Cyrillic <- MCCyrillic
    Pieces <- MCPieces
    Slashed = {"http://"}
    Coded = {"7", "dlya_7"}
    CodedHead = {"AB_dlya"}
    CodedTail = {"dlya_AB"}
    Number = {"7"}
    RulesFiles <- MCRulesFiles
    Titles <- MCTitles
INVARIANTS
    ClustersAreComponents
    CoursesAreWhole
    CoursesAreDistinct
    NothingLostNothingDead
    TopicsAreEarned
    CountsAreOfThePublished
    ForceRulesTakeEffect
    WhatIsProtectedStays
    IdempotentOnOthers
CHECK_DEADLOCK FALSE
