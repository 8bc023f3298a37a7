------------------------------ MODULE SeoAudit -------------------------------
(***************************************************************************)
(* The seotool program of surf.  "audit": crawl a site, write a record per *)
(* page, make the fix plan; once more after the site was changed, and the  *)
(* diff of both.  "batch": the pods of an indexed job analyze their shards *)
(* of a list of URLs.  "analyze": one page.                                *)
(***************************************************************************)
EXTENDS SeoPage

CONSTANTS
  Jobs,      \* the commands that are run
  Base,      \* the URL the crawl starts at
  Pages,     \* URLs that answer
  Docs,      \* documents the pages of a site have
  AllDocs,   \* documents for "analyze"
  MaxDepth,  \* --depth
  Changes,   \* bound: the sets of pages that are replaced between two audits
  Lines,     \* lines of the URL file: URLs, blank ones and comments
  Pods,      \* number of pods
  Configs    \* how the pods are told their shards

VARIABLES
  job,
  site,    \* the document at each URL, or Gone for a page with another status
  pc,      \* where an audit is: start, crawl, write, done, failed, dead
  round,   \* first or second audit
  stack,   \* the calls of crawl: the anchors each has left, and their depth
  urls,    \* SitemapGenerator.urls; visited has the same elements
  file,    \* the records of both audits
  plan,    \* the plan file
  report,  \* the output of diff, or of analyze
  config,  \* of a batch
  shard,   \* the output file of each pod
  runs,    \* how often a pod was started
  alive,   \* the pods that run
  expanded \* history: the URLs whose anchors were followed, with their depth

vars == <<job, site, pc, round, stack, urls, file, plan, report, config, shard,
          runs, alive, expanded>>
auditVars == <<site, pc, round, stack, urls, file, plan, expanded>>
batchVars == <<config, shard, runs, alive>>

Gone == <<[kind |-> "status"]>>
None == [none |-> TRUE]

\* resolveURL: a path is taken to be on the base's host.
Resolvable(href) == href.kind \in {"abs", "path"}
ResolveURL(href) ==
  IF href.kind = "abs" THEN href.url
  ELSE Url(Base.scheme, Base.host, href.path, href.slash)

\* Mutant: the depth is checked one level late.
FollowDeeper(url, depth) ==
  url.host = Base.host /\ depth <= MaxDepth + 1 /\ ~Contains(urls, url)

\* crawl follows a link to the base's host, to the depth asked for, once.
ToFollow(url, depth) ==
  /\ url.host = Base.host
  /\ depth <= MaxDepth
  /\ ~Contains(urls, url)

Doc(url) == IF url \in Pages THEN site[url] ELSE Gone

\* An error page has no anchors; crawl does not look at the status.
Body(url) == IF Doc(url) = Gone THEN <<>> ELSE Doc(url)

Links(url) ==
  LET hrefs == FindAllAnchors(Parse(Body(url)).root)
      known == SelectSeq(hrefs, Resolvable)
  IN [i \in DOMAIN known |-> ResolveURL(known[i])]

StartState ==
  /\ job \in Jobs
  /\ pc = "start" /\ round = 1
  /\ stack = <<>> /\ urls = <<>> /\ expanded = {}
  /\ file = <<<<>>, <<>>>> /\ plan = <<>>

Init ==
  /\ StartState
  /\ site \in IF job = "audit" THEN [Pages -> Docs]
              ELSE IF job = "batch" THEN {[u \in Pages |-> d] : d \in Docs}
              ELSE {[u \in {Base} |-> d] : d \in AllDocs}
  /\ report = None
  /\ config \in IF job = "batch" THEN Configs ELSE {None}
  /\ shard = [p \in 0..(Pods - 1) |-> <<>>]
  /\ runs = [p \in 0..(Pods - 1) |-> 0]
  /\ alive = [p \in 0..(Pods - 1) |-> FALSE]

-----------------------------------------------------------------------------
(* The crawl *)

\* A call of crawl for a new URL: what the fetch and the parser give.  rest is
\* the stack of its callers, failed where an error leaves the program.
Fetch(url, depth, rest, failed) ==
  /\ urls' = Append(urls, url)
  /\ \/ pc' = failed /\ stack' = rest /\ UNCHANGED expanded       \* no answer
     \/ LET r == Parse(Body(url)).result
        IN CASE r = "ok" -> /\ pc' = "crawl"
                            /\ stack' = Append(rest, [links |-> Links(url), depth |-> depth])
                            /\ expanded' = expanded \cup {<<url, depth>>}
             [] r = "error" -> pc' = failed /\ stack' = rest /\ UNCHANGED expanded
             [] r = "panic" -> pc' = "dead" /\ stack' = <<>> /\ UNCHANGED expanded
  /\ UNCHANGED <<job, site, round, file, plan, report, batchVars>>

\* An error at the base ends the audit.
CrawlBase ==
  /\ job = "audit" /\ pc = "start"
  /\ Fetch(Base, 0, <<>>, "failed")

Top == Last(stack)
Shorter == Append(Front(stack), [Top EXCEPT !.links = Tail(@)])

\* The next anchor of the innermost call; errors below it are ignored.
CrawlLink ==
  /\ pc = "crawl" /\ stack # <<>> /\ Top.links # <<>>
  /\ ToFollow(Head(Top.links), Top.depth + 1)
  /\ Fetch(Head(Top.links), Top.depth + 1, Shorter, "crawl")

SkipLink ==
  /\ pc = "crawl" /\ stack # <<>> /\ Top.links # <<>>
  /\ ~ToFollow(Head(Top.links), Top.depth + 1)
  /\ stack' = Shorter
  /\ UNCHANGED <<job, site, pc, round, urls, file, plan, expanded, report, batchVars>>

CrawlReturn ==
  /\ pc = "crawl" /\ stack # <<>> /\ Top.links = <<>>
  /\ stack' = Front(stack)
  /\ pc' = IF stack' = <<>> THEN "write" ELSE pc
  /\ UNCHANGED <<job, site, round, urls, file, plan, expanded, report, batchVars>>

-----------------------------------------------------------------------------
(* The records *)

\* Analyzer.Analyze, when the page answers.
Analysis(url) ==
  IF Doc(url) = Gone \/ Parse(Doc(url)).result # "ok" THEN ErrorRecord(url)
  ELSE AnalyzeDocument(Parse(Doc(url)).root, url)

Outcomes(url) == {ErrorRecord(url), Analysis(url)}

\* One turn of RunAudit's loop; the output file is created before the first.
WriteRecord ==
  /\ pc = "write" /\ Len(file[round]) < Len(urls)
  /\ LET url == urls[Len(file[round]) + 1]
     IN \/ /\ \E r \in Outcomes(url) : file' = [file EXCEPT ![round] = Append(@, r)]
           /\ UNCHANGED pc
        \/ Parse(Body(url)).result = "panic" /\ pc' = "dead" /\ UNCHANGED file
  /\ UNCHANGED <<job, site, round, stack, urls, plan, expanded, report, batchVars>>

WritePlan ==
  /\ pc = "write" /\ Len(file[round]) = Len(urls)
  /\ plan' = BuildFixPlan(file[round])
  /\ pc' = "done"
  /\ UNCHANGED <<job, site, round, stack, urls, file, expanded, report, batchVars>>

\* Some pages are replaced.  Then the second audit starts.
Reaudit ==
  /\ job = "audit" /\ pc = "done" /\ round = 1
  /\ \E S \in Changes, d \in Docs :
       site' = [u \in Pages |-> IF u \in S THEN d ELSE site[u]]
  /\ round' = 2 /\ pc' = "start"
  /\ stack' = <<>> /\ urls' = <<>> /\ expanded' = {}
  /\ UNCHANGED <<job, file, plan, report, batchVars>>

\* A map is ranged over in any order.
Orders(S) == {order \in SetToAllKPermutations(S) : Len(order) = Cardinality(S)}
Diff ==
  /\ pc = "done" /\ round = 2 /\ report = None
  /\ \E order \in Orders(Deltas(file[1], file[2])), pages \in Orders(Comparable(file[1], file[2])) :
       report' = PrintDiff(file[1], file[2], order, pages)
  /\ UNCHANGED <<job, auditVars, batchVars>>

AnalyzePage ==
  /\ job = "analyze" /\ report = None /\ pc # "dead"
  /\ IF Parse(Body(Base)).result = "panic" THEN pc' = "dead" /\ UNCHANGED report
     ELSE report' = Analysis(Base) /\ UNCHANGED pc
  /\ UNCHANGED <<job, site, round, stack, urls, file, plan, expanded, batchVars>>

-----------------------------------------------------------------------------
(* The batch job *)

LoadURLList(lines) == SelectSeq(lines, LAMBDA l : l \in Pages)

\* ParseBatchShard: both variables are set and are a shard.
ValidShard(env) == env # None /\ env.total > 0 /\ env.idx \in 0..(env.total - 1)

\* Every total-th URL, counting from 0.
ShardURLs(list, idx, total) ==
  IF total <= 1 THEN list
  ELSE LET mine == {i \in DOMAIN list : (i - 1) % total = idx}
       IN [k \in 1..Cardinality(mine) |->
             list[CHOOSE i \in mine : Cardinality({j \in mine : j < i}) = k - 1]]

\* Mutant: the flags come before the environment.
FlagsFirst(p) ==
  LET list == LoadURLList(Lines)
  IN IF config[p].flag.total > 1 THEN ShardURLs(list, config[p].flag.idx, config[p].flag.total)
     ELSE IF ValidShard(config[p].env)
     THEN ShardURLs(list, config[p].env.idx, config[p].env.total)
     ELSE list

ShardOf(p) ==
  LET list == LoadURLList(Lines)
  IN IF ValidShard(config[p].env)
     THEN ShardURLs(list, config[p].env.idx, config[p].env.total)
     ELSE ShardURLs(list, config[p].flag.idx, config[p].flag.total)

\* A pod starts with an empty file system; its Job replaces it once.
PodStart(p) ==
  /\ job = "batch" /\ runs[p] < 2
  /\ runs[p] = 0 \/ Len(shard[p]) < Len(ShardOf(p))        \* new, or died on its way
  /\ runs' = [runs EXCEPT ![p] = @ + 1]
  /\ alive' = [alive EXCEPT ![p] = TRUE]
  /\ shard' = [shard EXCEPT ![p] = <<>>]
  /\ UNCHANGED <<job, auditVars, report, config>>

\* As WriteRecord.
PodRecord(p) ==
  /\ job = "batch" /\ alive[p] /\ Len(shard[p]) < Len(ShardOf(p))
  /\ LET url == ShardOf(p)[Len(shard[p]) + 1]
     IN \/ /\ \E r \in Outcomes(url) : shard' = [shard EXCEPT ![p] = Append(@, r)]
           /\ UNCHANGED alive
        \/ Parse(Body(url)).result = "panic" /\ alive' = [alive EXCEPT ![p] = FALSE] /\ UNCHANGED shard
  /\ UNCHANGED <<job, auditVars, report, config, runs>>

Next ==
  \/ CrawlBase \/ CrawlLink \/ SkipLink \/ CrawlReturn
  \/ WriteRecord \/ WritePlan \/ Reaudit \/ Diff \/ AnalyzePage
  \/ \E p \in 0..(Pods - 1) : PodStart(p) \/ PodRecord(p)

Spec == Init /\ [][Next]_vars

-----------------------------------------------------------------------------
(* Properties *)

\* A crawl that came to its end has every page that is linked from a page it
\* followed at less than the depth asked for, has nothing else, and has nothing
\* twice: the recursion, its depth and its visited map fit together (crawl).
CrawlIsClosed ==
  pc = "done" =>
    LET Linked(x) == Range(Links(x[1]))
        inner == {x \in expanded : x[2] < MaxDepth}
    IN /\ Range(urls) = {Base} \cup
            {u \in UNION {Linked(x) : x \in inner} : u.host = Base.host}
       /\ IsInjective(urls)

\* The plan of an audit that came to its end has each fix of each record once,
\* counts the pages that need it, and has an item that is more urgent, or as
\* urgent and needed by more pages, before any other (BuildFixPlan).
PlanIsComplete ==
  pc = "done" /\ job = "audit" =>
    LET rs == Audited(file[round])
    IN /\ {plan[k].id : k \in DOMAIN plan} = UNION {FixIDs(rs[i]) : i \in DOMAIN rs}
       /\ \A k \in DOMAIN plan :
            /\ plan[k].count = Cardinality({i \in DOMAIN rs : plan[k].id \in FixIDs(rs[i])})
            /\ \A m \in DOMAIN plan :
                 /\ plan[k].id = plan[m].id => k = m
                 /\ k < m => \/ PriorityRank(plan[k].priority) < PriorityRank(plan[m].priority)
                             \/ /\ plan[k].priority = plan[m].priority
                                /\ plan[k].count >= plan[m].count

\* The score of a page is what it lacks: 100 less the impact of its fixes, those
\* of the canonical link aside, which cost no points.  The two tables of
\* analyze_doc.go and fixes.go are kept apart by hand.
ScoreIsExplained ==
  job = "analyze" /\ report # None /\ ~report.error =>
    report.score + TotalFixImpact(SelectSeq(report.fixes,
      LAMBDA f : f.id \notin {"canonical-missing", "canonical-mismatch"})) = 100

\* The diff of two audits compares the pages both have; those that gain most
\* are the ones it names, best first, and those that lose most, worst first; it
\* counts every fix that was cleared and, unless its list is cut, explains every
\* gain by one of them (PrintDiff, sortDeltas, printClearedFixes).
DiffIsFaithful ==
  job = "audit" /\ report # None =>
    LET deltas == Deltas(file[1], file[2])
        up == {d \in deltas : d.delta > 0}
        down == {d \in deltas : d.delta < 0}
        Ordered(s, Before(_, _)) == \A i, j \in DOMAIN s : i < j => Before(s[i], s[j])
    IN /\ report.compared = Cardinality(deltas)
       /\ report.improved = Cardinality(up) /\ report.regressed = Cardinality(down)
       /\ Range(report.gains) \subseteq up /\ Range(report.losses) \subseteq down
       /\ \A d \in up \ Range(report.gains) : \A g \in Range(report.gains) : g.delta >= d.delta
       /\ \A d \in down \ Range(report.losses) : \A l \in Range(report.losses) : l.delta <= d.delta
       /\ Ordered(report.gains, LAMBDA a, b : a # b /\ a.delta >= b.delta)
       /\ Ordered(report.losses, LAMBDA a, b : a # b /\ a.delta <= b.delta)
       /\ Len(report.gains) = Min({TopLimit, Cardinality(up)})
       /\ Len(report.losses) = Min({TopLimit, Cardinality(down)})
       /\ Len(report.cleared.lines) + report.cleared.more =
            Cardinality(UNION {{u} \X Cleared(file[1], file[2], u) : u \in {d.url : d \in deltas}})
       /\ report.cleared.more > 0 \/
            \A g \in up : \E i \in DOMAIN report.cleared.lines : report.cleared.lines[i][1] = g.url

\* When all pods are through, every line of the URL file that is a URL has its
\* record in one of their files, as often as it is listed (RunBatch, ShardURLs).
BatchCoversList ==
  (job = "batch" /\ \A p \in 0..(Pods - 1) : runs[p] > 0 /\ Len(shard[p]) >= Len(ShardOf(p))) =>
    \A u \in Pages :
      Cardinality({i \in DOMAIN Lines : Lines[i] = u}) =
        Cardinality({<<p, i>> \in (0..(Pods - 1)) \X (1..Len(Lines)) :
                       i <= Len(shard[p]) /\ shard[p][i].url = u})

RECURSIVE Openers(_), Render(_)
\* The texts and opening tags of a tree, in order, and the tree as a document.
Openers(n) ==
  CASE n.type = "text" -> <<Words(n.text.len, n.text.words, n.text.sp)>>
    [] n.type = "element" /\ n.closer -> <<>>
    [] OTHER -> <<Open(n.tag, n.attr)>>
                  \o FlattenSeq([i \in DOMAIN n.kids |-> Openers(n.kids[i])])
Render(n) ==
  IF n.type = "text" THEN Openers(n)
  ELSE <<Open(n.tag, n.attr)>>
         \o FlattenSeq([i \in DOMAIN n.kids |-> Render(n.kids[i])])
         \o (IF n.tag \in VoidElements THEN <<>> ELSE <<Close(n.tag)>>)

RECURSIVE Balanced(_, _, _)
Balanced(s, i, open) ==
  IF i > Len(s) THEN open = <<>>
  ELSE CASE s[i].kind = "open" /\ s[i].tag \notin VoidElements ->
              Balanced(s, i + 1, Append(open, s[i].tag))
         [] s[i].kind = "close" ->
              open # <<>> /\ Last(open) = s[i].tag /\ Balanced(s, i + 1, Front(open))
         [] OTHER -> Balanced(s, i + 1, open)

\* A closing tag behind whitespace that follows an opening tag or a comment.
Astray(s) ==
  \E i \in DOMAIN s : /\ i > 2 /\ s[i].kind = "close" /\ s[i - 1] = Space
                      /\ \/ s[i - 2].kind = "open" /\ s[i - 2].tag \notin VoidElements
                         \/ s[i - 2].kind = "comment"

\* The tree of a document has its texts and its tags in their order, however
\* wrongly it is nested; and if it is nested well, so that a closing tag, in
\* lower case, ends what was opened last, it has them at their place, unless
\* the parser meets a closing tag behind whitespace (parseElement).
TreeKeepsDocument ==
  job = "analyze" =>
    LET doc == site[Base]
        Bare(s) == SelectSeq(s, LAMBDA t : t # Space /\ t.kind \in {"open", "close", "text"})
        tree == Parse(doc)
        kids == tree.root.kids
    IN (\A i \in DOMAIN doc : doc[i].kind \notin {"opencomment", "cut"}) =>
         /\ tree.result = "ok"
         /\ Bare(FlattenSeq([i \in DOMAIN kids |-> Openers(kids[i])]))
              = SelectSeq(Bare(doc), LAMBDA t : t.kind # "close")
         /\ Balanced(doc, 1, <<>>) /\ ~Astray(doc) =>
              Bare(FlattenSeq([i \in DOMAIN kids |-> Render(kids[i])])) = Bare(doc)
=============================================================================
