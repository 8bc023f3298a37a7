---------------------------- MODULE MCMovieFinder ----------------------------
(* A crawling agent and one with a fixed search, on a site of three         *)
(* subreddits whose threads mention each other's films and subreddits.      *)
EXTENDS MovieFinder

MCCanonical == "Movies" :> "movies"
MCBlockedSubs == {"pics"}
MCCuedNames == {"movies", "film"}
MCCuedTerms == {}

Drama == <<"drama">>
Horror == <<"horror">>
Thread(id, title, sub) == [id |-> id, title |-> title, sub |-> sub]
T1 == Thread("t1", "list", "movies")
T2 == Thread("t2", "series", "movies")
T3 == Thread("t3", "list", "film")
Says(score, subs, dated, bold, line) ==
  [gone |-> FALSE, subs |-> subs, score |-> score, dated |-> dated, bold |-> bold, line |-> line]
Dated(t, y) == <<[title |-> t, year |-> y]>>
Para(text, years) == [text |-> text, film |-> TRUE, years |-> years]
Found(title) == [title |-> title, disambiguation |-> FALSE]
Titles == {<<"Heat", 1995, "film">>, <<"Heat", "film">>, <<"Heat">>, <<"Ran", "film">>, <<"Ran">>,
           <<"Ran (1985)">>, <<"Saw", 2004, "film">>, <<"Saw", "film">>, <<"Saw">>}

Listings ==
  {<<<<"subs", <<"drama">>>>, <<"film", "pics">>>>, <<<<"subs", <<"drama", "movies">>>>, <<"film", "movies">>>>,
   <<<<"all", Drama>>, <<T2, T1>>>>, <<<<"hot", "movies">>, <<T2, T1, T3>>>>,
   <<<<"hot", "film">>, <<[T3 EXCEPT !.title = "talk"]>>>>, <<<<"sub", "movies", Drama>>, <<T1>>>>,
   <<<<"sub", "film", Drama>>, <<[T3 EXCEPT !.sub = ""]>>>>, <<<<"sub", "Movies", Horror>>, <<T2, T1>>>>,
   <<<<"sub", "film", Horror>>, <<T3>>>>, <<<<"hot", "noir">>, <<>>>>, <<<<"sub", "noir", Drama>>, <<T3>>>>}
Threads ==
  {<<<<"thread", "t1">>, <<Says(9, <<"film", "Movies">>, Dated("Heat", 1995), <<>>, <<>>),
                           Says(2, <<"pics">>, Dated("Saw", 2004), <<>>, <<>>)>>>>,
   <<<<"thread", "t3">>, <<Says(5, <<"noir">>, Dated("Heat", 1995), <<"Heat", "Ran">>, <<>>),
                           Says(5, <<>>, <<>>, <<>>, Dated("Ran", 0))>>>>}
Article(t) == CASE t = <<"Heat", 1995, "film">> -> <<[Para("coords", {}) EXCEPT !.film = FALSE], Para("heat", {1995})>>
                [] t = <<"Ran (1985)">> -> <<Para("ran", {1985})>>
                [] OTHER -> <<>>
Pages == Listings \cup Threads \cup {<<<<"article", t>>, Article(t)>> : t \in Titles}
         \cup {<<<<"find", t>>, IF t = <<"Ran", "film">> THEN Found(<<"Ran (1985)">>) ELSE Found(<<>>)>> : t \in Titles}
MCSite == [a \in {p[1] : p \in Pages} |-> (CHOOSE p \in Pages : p[1] = a)[2]]

Curated(t, y, plot, wiki) == [title |-> t, year |-> y, plot |-> plot, wiki |-> wiki]
Url(h) == [scheme |-> "http", host |-> h, sample |-> FALSE]
A(id, q, subs, crawls, limit, picks) ==
  [id |-> id, queries |-> <<q>>, subs |-> subs, discover |-> crawls, limit |-> limit, maxSubs |-> 2, maxThreads |-> 2,
   picks |-> picks, proxy |-> NoUrl]
Crawler == A("drama", Drama, <<"Movies">>, "", 2, <<Curated("Heat", 1995, "a heist", <<>>), Curated("Saw", 2004, "", <<>>)>>)
Fixed == A("horror", Horror, <<"Movies", "film">>, "off", 2, <<Curated("Ran", 0, "", <<"Ran">>), Curated("Saw", 2004, "a trap", <<>>)>>)
Cfgs == [proxy |-> NoUrl, proxies |-> <<>>, agents |-> <<Crawler, Fixed>>]
Entry(id, u, on) == [id |-> id, url |-> u, enabled |-> on]
NoDocket == [default |-> "", proxies |-> <<>>]
TwoProxies == [default |-> "", proxies |-> <<Entry("a", Url("a"), TRUE), Entry("x", Url("x"), FALSE), Entry("b", Url("b"), TRUE)>>]
OneProxy == [TwoProxies EXCEPT !.default = "b"]
NoEnv == [finder |-> NoUrl, https |-> NoUrl, http |-> NoUrl]
Run(c, d, sequential, offline, index, test) ==
  [id |-> "", movieProxy |-> NoUrl, movieProxies |-> <<>>, cfg |-> c, docket |-> d, flag |-> NoUrl, env |-> NoEnv, sequential |-> sequential, offline |-> offline,
   index |-> index, test |-> test, unread |-> FALSE]
BadProxy == [Cfgs EXCEPT !.agents[2].proxy = [Url("") EXCEPT !.scheme = "ftp"]]
Few == [Cfgs EXCEPT !.agents[1].limit = 1, !.agents[2].limit = 1]
Twice == [Cfgs EXCEPT !.agents[2].picks =      \* two picks of one film: the first without a plot
            <<Curated("Ran", 0, "", <<"Ran">>), Curated("Saw", 2004, "", <<>>), Curated("Saw", 2004, "a trap", <<>>)>>]
Plain == [Cfgs EXCEPT !.agents[2] = [A("plain", Horror, <<>>, "off", 0, Fixed.picks) EXCEPT !.maxSubs = 0]]
MCInputs ==
  {Run(Few, NoDocket, FALSE, FALSE, -1, FALSE), Run(Few, OneProxy, TRUE, FALSE, -1, FALSE),
   Run(Cfgs, NoDocket, FALSE, FALSE, 0, FALSE), Run(Twice, TwoProxies, FALSE, FALSE, 1, FALSE),
   Run(Cfgs, TwoProxies, FALSE, TRUE, -1, FALSE), Run(BadProxy, NoDocket, TRUE, FALSE, -1, FALSE),
   Run(Cfgs, NoDocket, FALSE, FALSE, 2, FALSE), [Run(Few, NoDocket, FALSE, FALSE, -1, FALSE) EXCEPT !.id = "west"],
   [Run(Plain, NoDocket, FALSE, TRUE, -1, FALSE) EXCEPT !.id = "plain", !.movieProxy = Url("a"), !.movieProxies = <<NoUrl, Url("b")>>],
   [Run(Cfgs, TwoProxies, FALSE, TRUE, -1, FALSE) EXCEPT !.unread = TRUE],
   [Run(Cfgs, NoDocket, FALSE, FALSE, -1, TRUE) EXCEPT !.env.https = Url("a")],
   Run(Cfgs, TwoProxies, FALSE, FALSE, -1, TRUE), Run(Cfgs, NoDocket, FALSE, FALSE, -1, TRUE)}
=============================================================================
