------------------------------- MODULE SeoPage -------------------------------
(***************************************************************************)
(* What surf says of one page and of a list of audited pages: the issues   *)
(* and the score (analyze_doc.go), the fixes (fixes.go), the fix plan      *)
(* (plan.go) and the comparison of two audits (diff.go).                   *)
(***************************************************************************)
EXTENDS SeoHtml, FiniteSets, FiniteSetsExt

CONSTANTS
  ExampleLimit,  \* pages named per item of the plan (5)
  TopLimit,      \* gains and regressions listed by a diff (10)
  ClearedLimit   \* cleared fixes listed by a diff (15)

\* A URL: url.Parse's fields, the path as its segments and a trailing slash.
Url(scheme, host, path, slash) ==
  [scheme |-> scheme, host |-> host, path |-> path, slash |-> slash]

Check(cond, issue, penalty) ==
  IF cond THEN <<[issue |-> issue, penalty |-> penalty]>> ELSE <<>>

TitleCheck(len) ==
  Check(len = 0, "title missing", 15) \o Check(len \in 1..29, "title too short", 10)
    \o Check(len > 60, "title too long", 10)

DescriptionCheck(len) ==
  Check(len = 0, "description missing", 15)
    \o Check(len \in 1..119, "description too short", 5)
    \o Check(len > 160, "description too long", 5)

TitleLength(doc) ==
  LET titles == FindElements(doc, "title")
  IN IF titles = <<>> THEN 0 ELSE TrimmedLen(TextContent(titles[1]))

H1Count(doc) ==
  Len(SelectSeq(FindElements(doc, "h1"), LAMBDA h : TrimmedLen(TextContent(h)) > 0))

HeadingCheck(n) ==
  Check(n = 0, "no h1", 15) \o Check(n > 1, "several h1", 10)

\* A page without <body> is not asked for its words.
BodyCheck(doc) ==
  LET bodies == FindElements(doc, "body")
  IN Check(bodies # <<>> /\ TextContent(bodies[1]).words < 300, "few words", 5)

Issues(doc) ==
  TitleCheck(TitleLength(doc))
    \o DescriptionCheck(FindMetaByName(doc, "description"))
    \o Check(FindMetaByName(doc, "viewport") = 0, "no viewport", 10)
    \o Check(~FindMetaByProperty(doc, "og:"), "no open graph", 5)
    \o Check(FindMetaByName(doc, "twitter:card") = 0, "no twitter card", 3)
    \o HeadingCheck(H1Count(doc))
    \o Check(ImagesWithoutAlt(doc) # <<>>, "no alt", 5)
    \o BodyCheck(doc)

Total(s) == FoldLeft(LAMBDA sum, x : sum + x, 0, s)

\* Mutant: a page with many issues loses no more than 40 points.
ScoreCapped(issues) == Max({60, 100 - Total([i \in DOMAIN issues |-> issues[i].penalty])})

Score(issues) == Max({0, 100 - Total([i \in DOMAIN issues |-> issues[i].penalty])})

Fix(id, priority, impact) == [id |-> id, priority |-> priority, impact |-> impact]

\* fixForIssue's rules: a fix and the issues whose text it matches.
Rules == <<
  <<Fix("title-missing", "high", 15), {"title missing"}>>,
  <<Fix("title-length", "medium", 10), {"title too short", "title too long"}>>,
  <<Fix("meta-missing", "high", 15), {"description missing"}>>,
  <<Fix("meta-length", "medium", 5), {"description too short", "description too long"}>>,
  <<Fix("h1-missing", "high", 15), {"no h1"}>>,
  <<Fix("h1-multiple", "medium", 10), {"several h1"}>>,
  <<Fix("viewport", "high", 10), {"no viewport"}>>,
  <<Fix("image-alt", "medium", 5), {"no alt"}>>,
  <<Fix("word-count", "low", 5), {"few words"}>>,
  <<Fix("open-graph", "low", 5), {"no open graph"}>>,
  <<Fix("twitter-card", "low", 3), {"no twitter card"}>> >>

\* The fix of the first rule that matches, if one does.
FixForIssue(issue) ==
  LET hits == SelectSeq(Rules, LAMBDA r : issue \in r[2])
  IN IF hits = <<>> THEN <<>> ELSE <<hits[1][1]>>

\* A trailing slash and an empty path make no difference.
CanonicalMatches(page, canonical) ==
  /\ page.host = canonical.host
  /\ page.path = canonical.path
  /\ page.scheme = canonical.scheme

CanonicalFix(doc, url) ==
  LET href == FindLinkByRel(doc, "canonical")
  IN CASE href = Elsewhere -> <<Fix("canonical-missing", "high", 10)>>
       [] href # Elsewhere /\ ~CanonicalMatches(url, href.url) ->
            <<Fix("canonical-mismatch", "high", 10)>>
       [] OTHER -> <<>>

BuildFixes(issues, doc, url) ==
  FlattenSeq([i \in DOMAIN issues |-> FixForIssue(issues[i].issue)])
    \o CanonicalFix(doc, url)

\* An AuditRecord without and with an error.
AnalyzeDocument(doc, url) ==
  LET issues == Issues(doc)
  IN [url |-> url, error |-> FALSE, score |-> Score(issues),
      fixes |-> BuildFixes(issues, doc, url)]
ErrorRecord(url) == [url |-> url, error |-> TRUE, score |-> 0, fixes |-> <<>>]

TotalFixImpact(fixes) == Total([i \in DOMAIN fixes |-> fixes[i].impact])

FixIDs(r) == {r.fixes[i].id : i \in DOMAIN r.fixes}

-----------------------------------------------------------------------------
(* The fix plan *)

Audited(records) == SelectSeq(records, LAMBDA r : ~r.error)

PriorityRank(p) == IF p = "high" THEN 0 ELSE IF p = "medium" THEN 1 ELSE 2

\* Mutant: the impact of one page comes before the number of pages.
ImpactFirst(a, b) ==
  \/ PriorityRank(a.priority) < PriorityRank(b.priority)
  \/ /\ PriorityRank(a.priority) = PriorityRank(b.priority)
     /\ a.impact > b.impact

Sooner(a, b) ==
  \/ PriorityRank(a.priority) < PriorityRank(b.priority)
  \/ /\ PriorityRank(a.priority) = PriorityRank(b.priority)
     /\ \/ a.count > b.count
        \/ a.count = b.count /\ a.impact > b.impact

\* The pages that need a fix, one entry per occurrence.
PagesWith(records, id) ==
  FlattenSeq([i \in DOMAIN Audited(records) |->
    LET r == Audited(records)[i]
    IN [j \in DOMAIN SelectSeq(r.fixes, LAMBDA f : f.id = id) |-> r.url]])

PlanItem(records, f) ==
  LET pages == PagesWith(records, f.id)
  IN [id |-> f.id, priority |-> f.priority, impact |-> f.impact, count |-> Len(pages),
      urls |-> SubSeq(pages, 1, Min({ExampleLimit, Len(pages)}))]

\* Items that tie come in any order, of which this takes one.
BuildFixPlan(records) ==
  LET rs == Audited(records)
      fixes == UNION {{rs[i].fixes[j] : j \in DOMAIN rs[i].fixes} : i \in DOMAIN rs}
  IN SortSeq(FoldSet(LAMBDA f, s : Append(s, PlanItem(records, f)), <<>>, fixes), Sooner)

SiteAverage(records) ==
  LET rs == Audited(records)
  IN IF rs = <<>> THEN 0 ELSE Total([i \in DOMAIN rs |-> rs[i].score]) \div Len(rs)

-----------------------------------------------------------------------------
(* The comparison of two audits *)

\* mapByURL: the last record of a URL.
URLs(records) == {records[i].url : i \in DOMAIN records}
RecordOf(records, u) ==
  records[Max({i \in DOMAIN records : records[i].url = u})]

Comparable(before, after) ==
  {u \in URLs(before) \cap URLs(after) :
     ~RecordOf(before, u).error /\ ~RecordOf(after, u).error}

Deltas(before, after) ==
  {[url |-> u, delta |-> RecordOf(after, u).score - RecordOf(before, u).score] :
     u \in Comparable(before, after)}

Exchange(d, i, j) ==
  IF d[j].delta > d[i].delta THEN [d EXCEPT ![i] = d[j], ![j] = d[i]] ELSE d

\* Mutant: the inner loop stops before the last entry.
SortButLast(d) ==
  FoldLeft(LAMBDA e, i :
             FoldLeft(LAMBDA f, j : Exchange(f, i, j), e,
                      [k \in 1..(Len(d) - i - 1) |-> i + k]),
           d, [i \in 1..(Len(d) - 1) |-> i])

SortDeltas(d) ==
  FoldLeft(LAMBDA e, i :
             FoldLeft(LAMBDA f, j : Exchange(f, i, j), e,
                      [k \in 1..(Len(d) - i) |-> i + k]),
           d, [i \in 1..Len(d) |-> i])

TopDeltas(d, gains) ==
  LET picked == IF gains THEN SelectSeq(d, LAMBDA x : x.delta > 0)
                ELSE SelectSeq(Reverse(d), LAMBDA x : x.delta < 0)
  IN SubSeq(picked, 1, Min({TopLimit, Len(picked)}))

Cleared(before, after, u) == FixIDs(RecordOf(before, u)) \ FixIDs(RecordOf(after, u))

\* The fixes of one page come in any order, of which this takes one.
ClearedFixes(before, after, pages) ==
  LET OfPage(u) == [i \in 1..Cardinality(Cleared(before, after, u)) |->
                      <<u, SetToSeq(Cleared(before, after, u))[i]>>]
      all == FlattenSeq([i \in DOMAIN pages |-> OfPage(pages[i])])
  IN [lines |-> SubSeq(all, 1, Min({ClearedLimit, Len(all)})),
      more |-> Max({0, Len(all) - ClearedLimit})]

\* What PrintDiff prints, when it ranges over the map of the second audit in
\* one order and over the pages of the first in another.
PrintDiff(before, after, order, pages) ==
  LET d == SortDeltas(order)
  IN [compared |-> Len(d),
      improved |-> Len(SelectSeq(d, LAMBDA x : x.delta > 0)),
      regressed |-> Len(SelectSeq(d, LAMBDA x : x.delta < 0)),
      gains |-> TopDeltas(d, TRUE), losses |-> TopDeltas(d, FALSE),
      cleared |-> ClearedFixes(before, after, pages)]
=============================================================================
