----------------------------- MODULE MovieFinder -----------------------------
(* One run of the movie finder (movie/internal/app, agent, scraper): the    *)
(* agents search Reddit one after the other or all at once, through clients *)
(* that are shared by the agents with the same proxy, fill up with picks,   *)
(* and the movies then get their plots.  A goroutine appears in requests    *)
(* from the moment it is to make a request; between two requests its agent  *)
(* takes one step per loop condition it reads.                              *)
EXTENDS MovieSources

CONSTANTS Inputs,       \* what a run may be started with: cfg, docket and the flags and variables read
          Site,         \* a function: the page found at each address
          Workers,      \* the -workers flag
          Failures      \* how many requests may fail: bounds the model, not the code

ASSUME FinderAssumption == Workers \in Nat \ {0} /\ Failures \in Nat

(* What a run is started with, and the pages of the site.  unread: the      *)
(* configuration, a docket that was named, or JOB_COMPLETION_INDEX cannot   *)
(* be read.  The first part of an address tells what kind of page is there. *)
Input == [cfg : Config, docket : Docket, movieProxy : ProxyUrl, movieProxies : Seq(ProxyUrl), flag : ProxyUrl,
          env : ProxyEnv, id : Text, index : Int, sequential : BOOLEAN, offline : BOOLEAN, test : BOOLEAN,
          unread : BOOLEAN]
ASSUME InputAssumption == Inputs \subseteq Input
ASSUME SiteAssumption ==
  \A at \in DOMAIN Site : /\ at[1] = "subs" => Site[at] \in Seq(Text)
                          /\ at[1] \in {"all", "hot", "sub"} => Site[at] \in Seq(RedditThread)
                          /\ at[1] = "thread" => Site[at] \in Seq(Comment)
                          /\ at[1] = "article" => Site[at] \in Seq(Paragraph)

(* The page at an address: one with nothing in it where the site has none.  *)
PageAt(at) == IF at \in DOMAIN Site THEN Site[at]
              ELSE IF at[1] = "find" THEN [title |-> <<>>, disambiguation |-> FALSE] ELSE <<>>

VARIABLES input,        \* the settings of this run, its configuration loaded
          phase,        \* "agents", "plots", "done", "failed"
          agent,        \* the state of each agent's goroutine
          requests,     \* [who, job, at]: the goroutines that want, or wait for, a page
          blocked,      \* the clients of the pool, each with its RedditBlocked flag
          stopped,      \* the agents whose search was cancelled after a block
          expired,      \* the deadline of the run has passed
          failures,     \* the requests that failed so far
          sent          \* for each agent, the Reddit requests it made (history)
vars == <<input, phase, agent, requests, blocked, stopped, expired, failures, sent>>

(* The configuration the run works on: all its agents, or the one that was  *)
(* asked for by its name or its index.                                      *)
Loaded(in) == LoadConfig(in.cfg, in.movieProxy, in.movieProxies)
FilterByIndex(cfg, n) == [cfg EXCEPT !.agents = IF n < Len(@) THEN <<@[n + 1]>> ELSE <<>>]
FilterById(cfg, id) == LET same == {n \in DOMAIN cfg.agents : cfg.agents[n].id = id}
                       IN  [cfg EXCEPT !.agents = IF same = {} THEN <<>> ELSE <<@[Min(same)]>>]
SelectAgents(in) == IF in.id # "" THEN FilterById(Loaded(in), in.id)
                    ELSE IF in.index >= 0 THEN FilterByIndex(Loaded(in), in.index) ELSE Loaded(in)
Cfg == input.cfg
Agents == DOMAIN Cfg.agents
Ag(a) == Cfg.agents[a]
Crawls(a) == Ag(a).discover = "on"
Proxy(a) == Resolve(Ag(a), a - 1, Cfg, input.docket, input.flag, input.env)
Client(a) == Proxy(a).url
Idle == [pc |-> "idle", i |-> 1, then |-> "", found |-> <<>>, out |-> <<>>, frontier |-> <<>>,
         visited |-> {}, threads |-> <<>>, pending |-> <<>>, cur |-> <<>>, movies |-> <<>>, error |-> FALSE]

----------------------------------------------------------------------------
(* The bookkeeping of a crawl.  s is the state of one agent.                *)
EnqueueKnown(s, name, a) ==     \* counts the queue alone; used by a mutant
  LET sub == NormalizeSub(name)
  IN  IF sub = "" \/ sub \in s.visited \cup Range(s.frontier) \/ Len(s.frontier) >= Ag(a).maxSubs
      THEN s ELSE [s EXCEPT !.frontier = Append(@, sub)]
EnqueueSub(s, name, a) ==
  LET sub == NormalizeSub(name)
  IN  IF sub = "" \/ sub \in s.visited \cup Range(s.frontier)
         \/ Cardinality(s.visited) + Len(s.frontier) >= Ag(a).maxSubs
      THEN s ELSE [s EXCEPT !.frontier = Append(@, sub)]
EnqueueAll(s, names, a) == FoldLeft(LAMBDA t, n : EnqueueSub(t, n, a), s, names)
AddThread(s, th, a) ==
  IF th.id \in {t.id : t \in Range(s.threads)} \/ Len(s.threads) >= Ag(a).maxThreads THEN s
  ELSE [EnqueueSub([s EXCEPT !.threads = Append(@, th)], th.sub, a) EXCEPT !.pending = Append(@, th)]
AddThreads(s, ths, a) == FoldLeft(LAMBDA t, th : AddThread(t, th, a), s, ths)
AddFound(s, movies, th, a) ==
  [s EXCEPT !.found = DistinctMovies(@ \o [k \in DOMAIN movies |->
     [title |-> movies[k].title, year |-> movies[k].year, source |-> <<th.sub, th.title>>, plot |-> ""]], Ag(a).limit)]
Terms(a) == Ag(a).queries \o [k \in DOMAIN Ag(a).queries |-> Append(Ag(a).queries[k], "movies")]
Drain(s, then) == [s EXCEPT !.pc = "drain", !.then = then]
Next1(s) == [s EXCEPT !.i = @ + 1]

(* A page, a refusal ("blocked") or a failure ("err") comes back to the     *)
(* agent's goroutine that asked for it.                                     *)
AfterDiscover(s, job, o, page, a) ==
  CASE job[1] = "subs" -> IF o # "page" THEN Next1(s)
                          ELSE Next1([s EXCEPT !.out = DiscoverSubs(@, page, job[2], Ag(a).maxSubs)])
    [] job[1] = "all"  -> IF o = "blocked" THEN Drain(s, "gather")
                          ELSE Next1(IF o = "page" THEN AddThreads(s, SearchGlobal(page), a) ELSE s)
    [] job[1] = "hot"  -> IF o = "blocked" THEN Drain(s, "gather")
                          ELSE [(IF o = "page" THEN AddThreads(s, HotThreads(page), a) ELSE s) EXCEPT !.pc = "sub", !.i = 1]
    [] job[1] = "sub"  -> IF o = "blocked" THEN Drain(s, "loop")
                          ELSE Next1(IF o = "page" THEN AddThreads(s, SearchSub(job[2], page), a) ELSE s)
    [] job[1] = "thread" -> IF o # "page" THEN s
                            ELSE LET got == ThreadLearn(page, Ag(a).limit * 2)
                                 IN  AddFound(EnqueueAll(s, got.learned, a), got.movies, s.cur, a)

(* The goroutines of the fixed search share the agent's lists; what arrives *)
(* after the limit was reached is dropped.                                  *)
AfterFixed(s, job, o, page, a) ==
  CASE s.pc = "searching" ->
         LET th == SearchSub(job[2], page)
         IN  IF o # "page" \/ th = <<>> \/ (th # <<>> /\ Head(th).id \in {t.id : t \in Range(s.threads)}) THEN s
             ELSE [s EXCEPT !.threads = @ \o th]
    [] s.pc = "reading" ->
         LET t == IF o # "page" THEN s ELSE AddFound(s, ThreadLearn(page, Ag(a).limit * 2).movies, job[3], a)
         IN  IF Len(t.found) >= Ag(a).limit THEN [t EXCEPT !.pc = "gather"] ELSE t
    [] OTHER -> s

----------------------------------------------------------------------------
(* Client.Get: the deadline is read, a slot of the client is taken, the     *)
(* request is sent.                                                         *)
Ask(a, job, at) == [who |-> a, job |-> job, at |-> at]
Fly(c) == {r \in requests : r.at = "fly" /\ Client(r.who) = c}
Reddit(job) == job[1] # "wiki"
Cancelled(r) == expired \/ (r.job[1] = "search" /\ r.who \in stopped)

Init ==
  /\ input \in {[in EXCEPT !.cfg = SelectAgents(in)] : in \in Inputs}
  /\ phase = IF input.unread \/ Cfg.agents = <<>> THEN "failed" ELSE "agents"
  /\ agent = [a \in Agents |-> Idle]
  /\ requests = {} /\ blocked = << >> /\ stopped = {}
  /\ expired = FALSE /\ failures = 0 /\ sent = [a \in Agents |-> 0]

(* -test-proxies: every entry is valid and every request through it worked. *)
TestProxies ==
  /\ phase = "agents" /\ input.test
  /\ LET t == TestEntries(input.docket, input.flag, input.env) IN
     \E bad \in SUBSET (IF t.ok THEN Range(t.urls) ELSE {}) :
        phase' = IF t.ok /\ bad = {} THEN "done" ELSE "failed"
  /\ UNCHANGED <<input, agent, requests, blocked, stopped, expired, failures, sent>>

MayStart(a) == input.sequential => ~expired /\ \A b \in 1..(a - 1) : agent[b].pc = "ready" /\ ~agent[b].error
Offline(a) == SubSeq(Ag(a).picks, 1, IF Len(Ag(a).picks) < Ag(a).limit THEN Len(Ag(a).picks) ELSE Ag(a).limit)
FromPick(p, source) == [title |-> p.title, year |-> p.year, source |-> source, plot |-> p.plot]

(* runOneAgent up to the first request.  A flagged client searches nothing. *)
Start(a) ==
  /\ phase = "agents" /\ ~input.test /\ agent[a].pc = "idle" /\ MayStart(a)
  /\ LET bar == expired \/ (Client(a) \in DOMAIN blocked /\ blocked[Client(a)])
         tasks == {Ask(a, <<"search", p[1], p[2]>>, "new") : p \in Range(Ag(a).subs) \X Range(Ag(a).queries)}
         online == Proxy(a).ok /\ ~input.offline
     IN  /\ agent' = [agent EXCEPT ![a] =
              IF ~Proxy(a).ok THEN [@ EXCEPT !.pc = "ready", !.error = TRUE]
              ELSE IF input.offline
                THEN [@ EXCEPT !.pc = "ready", !.movies = [k \in DOMAIN Offline(a) |-> FromPick(Offline(a)[k], "curated")]]
              ELSE IF bar THEN [@ EXCEPT !.pc = "gather"]
              ELSE IF Crawls(a) THEN EnqueueAll([@ EXCEPT !.pc = "subs"], Ag(a).subs, a)
              ELSE [@ EXCEPT !.pc = IF tasks = {} THEN "gather" ELSE "searching"]]
         /\ blocked' = IF online /\ Client(a) \notin DOMAIN blocked
                       THEN (Client(a) :> FALSE) @@ blocked ELSE blocked
         /\ requests' = IF online /\ ~bar /\ ~Crawls(a) THEN requests \cup tasks ELSE requests
         /\ UNCHANGED <<input, phase, stopped, expired, failures, sent>>

(* The next step of a crawl: a request, or the next part of the crawl.      *)
Enough(a) == Len(agent[a].found) >= Ag(a).limit \/ expired
Crawl(a) ==
  LET s == agent[a]
      ask(job, t) == /\ requests' = requests \cup {Ask(a, job, "wait")}
                     /\ agent' = [agent EXCEPT ![a] = t]
      goto(t) == agent' = [agent EXCEPT ![a] = t] /\ UNCHANGED requests
      none(list) == expired \/ s.i > Len(list)
      q == Ag(a).queries
  IN  /\ Crawls(a) /\ \A r \in requests : r.who # a
      /\ \/ /\ s.pc = "subs"
            /\ IF none(Terms(a)) \/ Len(s.out) >= Ag(a).maxSubs
               THEN goto([EnqueueAll(s, s.out, a) EXCEPT !.pc = "all", !.i = 1])
               ELSE ask(<<"subs", Terms(a)[s.i]>>, s)
         \/ /\ s.pc = "all"
            /\ IF none(q) THEN goto(Drain(s, "loop")) ELSE ask(<<"all", q[s.i]>>, s)
         \/ /\ s.pc = "drain"
            /\ IF s.pending = <<>> \/ Enough(a) THEN goto([s EXCEPT !.pc = s.then])
               ELSE ask(<<"thread", Head(s.pending).id>>,
                        [s EXCEPT !.cur = Head(s.pending), !.pending = Tail(@)])
         \/ /\ s.pc = "loop"
            /\ IF s.frontier = <<>> \/ Enough(a) THEN goto(Drain(s, "gather"))
               ELSE LET sub == Head(s.frontier) t == [s EXCEPT !.frontier = Tail(@), !.cur = sub]
                    IN  IF sub \in s.visited THEN goto(t)
                        ELSE ask(<<"hot", sub>>, [t EXCEPT !.visited = @ \cup {sub}])
         \/ /\ s.pc = "sub"
            /\ IF none(q) \/ Len(s.threads) >= Ag(a).maxThreads THEN goto(Drain(s, "loop"))
               ELSE ask(<<"sub", s.cur, q[s.i]>>, s)
      /\ UNCHANGED <<input, phase, blocked, stopped, expired, failures, sent>>

(* The fixed search has every answer: the threads it found are read at once.*)
ReadThreads(a) ==
  LET s == agent[a] go == s.threads # <<>> /\ ~expired IN
  /\ s.pc = "searching" /\ \A r \in requests : r.who # a
  /\ agent' = [agent EXCEPT ![a].pc = IF go THEN "reading" ELSE "gather"]
  /\ requests' = IF go THEN requests \cup {Ask(a, <<"thread", s.threads[k].id, s.threads[k]>>, "new") : k \in DOMAIN s.threads}
                 ELSE requests
  /\ UNCHANGED <<input, phase, blocked, stopped, expired, failures, sent>>
FilledUp(a) == Len(agent[a].found) >= Ag(a).limit      \* waits for the limit; used by a mutant
Answered(a) == \A r \in requests : r.who # a
AllRead(a) ==
  /\ agent[a].pc = "reading" /\ Answered(a)
  /\ agent' = [agent EXCEPT ![a].pc = "gather"]
  /\ UNCHANGED <<input, phase, requests, blocked, stopped, expired, failures, sent>>

(* agent.Run keeps what was found, then fills up with its picks.  Once the  *)
(* deadline has passed either loop may stop at any of its turns.            *)
Cuts(list) == IF expired THEN 0..Len(list) ELSE {Len(list)}
Gather(a) ==
  /\ agent[a].pc = "gather"
  /\ \E n \in Cuts(agent[a].found) :
       agent' = [agent EXCEPT ![a] = [@ EXCEPT !.pc = "picks", !.movies = DistinctMovies(SubSeq(agent[a].found, 1, n), Ag(a).limit)]]
  /\ UNCHANGED <<input, phase, requests, blocked, stopped, expired, failures, sent>>
Fallback(a) ==
  /\ agent[a].pc = "picks"
  /\ LET picks == [k \in DOMAIN Ag(a).picks |-> FromPick(Ag(a).picks[k], "curated fallback")] IN
     \E n \in Cuts(picks) :
       agent' = [agent EXCEPT ![a] = [@ EXCEPT !.pc = "ready",
                   !.movies = DistinctMovies(agent[a].movies \o SubSeq(picks, 1, n), Ag(a).limit)]]
  /\ UNCHANGED <<input, phase, requests, blocked, stopped, expired, failures, sent>>

----------------------------------------------------------------------------
(* enrichPlots: a movie without a plot takes that of its pick, and the      *)
(* others get a goroutine each, unless the deadline stops the loop.         *)
PickOf(a, m) == LET same == {p \in Range(Ag(a).picks) : KeyOf(p) = KeyOf(m)}
                    plots == Only(Ag(a).picks, {p \in same : p.plot # ""})
                    wikis == Only(Ag(a).picks, {p \in same : p.wiki # <<>>})
                IN  [plot |-> IF plots = <<>> THEN "" ELSE plots[Len(plots)].plot,
                     wiki |-> IF wikis = <<>> THEN <<>> ELSE wikis[Len(wikis)].wiki]
Unenriched(a) == agent[a].movies          \* forgets the picks; used by a mutant
Enriched(a) == [k \in DOMAIN agent[a].movies |->
                  LET m == agent[a].movies[k] IN IF m.plot = "" THEN [m EXCEPT !.plot = PickOf(a, m).plot] ELSE m]
PlotJobs == UNION {{Ask(a, <<"wiki", k, "cand", 1, <<>>>>, "new") :
                      k \in {n \in DOMAIN agent[a].movies : Enriched(a)[n].plot = ""}} : a \in Agents}

(* The agents are over.  An address that is no proxy fails the whole run;   *)
(* otherwise the movies get their plots.                                    *)
AgentsDone ==
  /\ phase = "agents" /\ ~input.test
  /\ \/ \A a \in Agents : agent[a].pc = "ready"
     \/ input.sequential /\ \A a \in Agents : agent[a].pc = "ready" \/ (agent[a].pc = "idle" /\ ~MayStart(a))
  /\ IF \E a \in Agents : agent[a].error THEN phase' = "failed" /\ UNCHANGED <<agent, requests>>
     ELSE IF input.offline THEN phase' = "done" /\ UNCHANGED <<agent, requests>>
     ELSE /\ phase' = "plots"
          /\ agent' = [a \in Agents |-> [agent[a] EXCEPT !.movies = Enriched(a)]]
          /\ \E js \in IF expired THEN SUBSET PlotJobs ELSE {PlotJobs} : requests' = requests \cup js
  /\ UNCHANGED <<input, blocked, stopped, expired, failures, sent>>

PlotsDone ==
  /\ phase = "plots" /\ \A r \in requests : Reddit(r.job)
  /\ phase' = "done"
  /\ UNCHANGED <<input, agent, requests, blocked, stopped, expired, failures, sent>>

(* One film's search for its plot: the likely articles, then the search     *)
(* page, whose article is fetched once to see whether it holds a plot and   *)
(* once more to take it.  The result is the next job or the plot.           *)
Film(r) == agent[r.who].movies[r.job[2]]
Address(r) ==
  LET m == Film(r) cand == WikiCandidates(m.title, m.year, PickOf(r.who, m).wiki)
  IN  CASE r.job[1] = "search" -> <<"sub", r.job[2], r.job[3]>>
        [] r.job[1] = "thread" -> <<"thread", r.job[2]>>
        [] r.job[1] = "wiki" -> CASE r.job[3] = "cand" -> <<"article", cand[r.job[4]]>>
                                  [] r.job[3] = "term" -> <<"find", WikiTerms(m.title, m.year)[r.job[4]]>>
                                  [] OTHER -> <<"article", r.job[5]>>
        [] OTHER -> r.job
PlotStep(r, o, page) ==
  LET m == Film(r)  step == r.job[3]  i == r.job[4]
      plot == IF o = "page" /\ step # "term" THEN WikiPagePlot(page, m.year) ELSE ""
      job(st, n, p) == [job |-> <<"wiki", r.job[2], st, n, p>>]
      term(n) == IF n > Len(WikiTerms(m.title, m.year)) THEN [plot |-> "unavailable"] ELSE job("term", n, <<>>)
  IN  CASE step = "cand" -> IF plot # "" THEN [plot |-> plot]
                            ELSE IF i < Len(WikiCandidates(m.title, m.year, PickOf(r.who, m).wiki))
                                 THEN job("cand", i + 1, <<>>) ELSE term(1)
        [] step = "term" -> IF o = "page" /\ SearchFound(page) # <<>>
                            THEN job("check", i, SearchFound(page)) ELSE term(i + 1)
        [] step = "check" -> IF plot # "" THEN job("again", i, r.job[5]) ELSE term(i + 1)
        [] step = "again" -> [plot |-> IF plot # "" THEN plot ELSE "unavailable"]

----------------------------------------------------------------------------
(* The goroutine of a request reads the deadline before it asks for a slot. *)
Begin(r) ==
  /\ r \in requests /\ r.at = "new" /\ ~Cancelled(r)
  /\ requests' = (requests \ {r}) \cup {[r EXCEPT !.at = "wait"]}
  /\ UNCHANGED <<input, phase, agent, blocked, stopped, expired, failures, sent>>
TakeSlot(r) ==
  /\ r \in requests /\ r.at = "wait" /\ Cardinality(Fly(Client(r.who))) < Workers
  /\ requests' = (requests \ {r}) \cup {[r EXCEPT !.at = "fly"]}
  /\ sent' = IF Reddit(r.job) THEN [sent EXCEPT ![r.who] = @ + 1] ELSE sent
  /\ UNCHANGED <<input, phase, agent, blocked, stopped, expired, failures>>

(* The answer of a request, after which its slot is free.  A request whose  *)
(* context is over fails; so may the reading of its page ("err"), since Get *)
(* ends the context of the request when it returns.  A refusal is           *)
(* remembered by the searches, not by the search for subreddits nor by the  *)
(* reading of a thread.                                                     *)
Answer(r, o) ==
  LET a == r.who
      flags == o = "blocked" /\ r.job[1] \in {"search", "all", "hot", "sub"}
      p == PlotStep(r, o, PageAt(Address(r)))
  IN  /\ r \in requests /\ (r.at = "fly" \/ (r.at = "new" /\ Cancelled(r)))
      /\ o \in IF Cancelled(r) THEN {"err"} ELSE IF failures = Failures THEN {"page"}
               ELSE IF Reddit(r.job) THEN {"page", "err", "blocked"} ELSE {"page", "err", "late"}
      /\ failures' = IF o = "page" \/ Cancelled(r) THEN failures ELSE failures + 1
      /\ blocked' = IF flags THEN [blocked EXCEPT ![Client(a)] = TRUE] ELSE blocked
      /\ stopped' = IF flags /\ r.job[1] = "search" THEN stopped \cup {a} ELSE stopped
      /\ IF Reddit(r.job)
         THEN /\ requests' = requests \ {r}
              /\ agent' = [agent EXCEPT ![a] = IF Crawls(a) THEN AfterDiscover(@, r.job, o, PageAt(Address(r)), a)
                                               ELSE AfterFixed(@, r.job, o, PageAt(Address(r)), a)]
         ELSE IF Cancelled(r) \/ o = "late" \/ "plot" \in DOMAIN p
         THEN /\ requests' = requests \ {r}
              /\ agent' = [agent EXCEPT ![a].movies[r.job[2]].plot =
                             IF Cancelled(r) \/ o = "late" THEN "unavailable" ELSE p.plot]
         ELSE /\ requests' = (requests \ {r}) \cup {Ask(a, p.job, "wait")}
              /\ UNCHANGED agent
      /\ UNCHANGED <<input, phase, expired, sent>>

(* The deadline passes.                                                     *)
Expire ==
  /\ ~expired /\ phase \in {"agents", "plots"} /\ expired' = TRUE
  /\ UNCHANGED <<input, phase, agent, requests, blocked, stopped, failures, sent>>

AgentStep == \E a \in Agents : Start(a) \/ Crawl(a) \/ ReadThreads(a) \/ AllRead(a) \/ Gather(a) \/ Fallback(a)
RequestStep == \E r \in requests : Begin(r) \/ TakeSlot(r) \/ \E o \in {"page", "err", "blocked", "late"} : Answer(r, o)
Working == phase \in {"agents", "plots"}
Next == \/ TestProxies \/ AgentsDone \/ PlotsDone \/ Expire
        \/ Working /\ (AgentStep \/ RequestStep)

(* The goroutines run, and every request ends within its five seconds: the  *)
(* program does not rest while any of its steps is possible.                *)
Spec == Init /\ [][Next]_vars /\ WF_vars(Next)

----------------------------------------------------------------------------
(* An agent reports no movie twice and no more than its limit, whatever the *)
(* threads repeat, whichever order the goroutines answered in, and whatever *)
(* its picks repeat of what was found (agent.Run, scrapeReddit).  Offline it *)
(* reports its picks as they are listed.                                    *)
KeysDiffer(movies) == \A j, k \in DOMAIN movies : j # k => KeyOf(movies[j]) # KeyOf(movies[k])
NoMovieTwice ==
  \A a \in Agents : /\ Len(agent[a].movies) <= Ag(a).limit
                    /\ (input.offline => KeysDiffer(Ag(a).picks)) => KeysDiffer(agent[a].movies)

(* A run that was not cut off by its deadline reports a full list wherever  *)
(* the picks can fill it, and a plot for every movie: one its picks give,   *)
(* when any of them with its key has one.  Offline these are the plots of   *)
(* its picks, as they are listed (runAllAgents, enrichPlots).               *)
Given(a, m) == {p.plot : p \in {p \in Range(Ag(a).picks) : KeyOf(p) = KeyOf(m) /\ p.plot # ""}}
FullReport ==
  phase = "done" /\ ~expired /\ ~input.test =>
    \A a \in Agents :
      LET got == agent[a].movies IN
      /\ agent[a].pc = "ready"
      /\ Len(got) < Ag(a).limit => Keys(Ag(a).picks) \subseteq Keys(got)
      /\ \A k \in DOMAIN got :
           IF input.offline THEN got[k].plot = Ag(a).picks[k].plot
           ELSE got[k].plot # "" /\ (Given(a, got[k]) # {} => got[k].plot \in Given(a, got[k]))

(* However the pages link to each other, a crawl asks for each subreddit    *)
(* once, stays within its limits, and sends no more requests than these     *)
(* allow (scrapeRedditDiscover).                                            *)
CrawlIsBounded ==
  \A a \in Agents :
    LET s == agent[a] q == Len(Ag(a).queries) IN
    /\ Cardinality(s.visited) + Len(s.frontier) <= Ag(a).maxSubs
    /\ \A m, n \in DOMAIN s.threads : Crawls(a) /\ m # n => s.threads[m].id # s.threads[n].id
    /\ Crawls(a) => sent[a] <= 3 * q + Ag(a).maxThreads + Ag(a).maxSubs * (1 + q)
    /\ ~Crawls(a) => sent[a] <= 2 * q * Len(Ag(a).subs)

(* The run ends, whatever fails.                                            *)
RunEnds == <>(phase \in {"done", "failed"})
=============================================================================
