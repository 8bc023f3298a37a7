---------------------------- MODULE MovieSources ----------------------------
(* What the movie finder makes of the pages it fetches and of its proxy     *)
(* settings (movie/internal/scraper, movie/internal/proxy).  A page is what *)
(* the regular expressions of the source find in it: a listing is a         *)
(* sequence of threads, a thread page a sequence of comments, an article a  *)
(* sequence of paragraphs.  Everything here is a pure function.             *)
EXTENDS Integers, Sequences, FiniteSets, SequencesExt

CONSTANTS Canonical,     \* a function: the lower case name of a subreddit written otherwise
          BlockedSubs,   \* the names blockedSubreddits lists
          CuedNames,     \* the names of subreddits that hold a cue for films
          CuedTerms      \* the search terms that do

(* Texts.  The literals are in STRING already, and proofs find them here.   *)
Text == STRING \cup {"", "unavailable", "MovieSuggestions", "movies"}
ASSUME CanonicalAssumption == \A name \in DOMAIN Canonical : Canonical[name] \in Text

(* The elements of s that are in S, in their order.                         *)
Only(s, S) == FoldLeft(LAMBDA out, x : IF x \in S THEN Append(out, x) ELSE out, <<>>, s)

----------------------------------------------------------------------------
(* Movies.  Two mentions are the same movie when their keys are equal: a    *)
(* title without a year is not the same title with one.                     *)
MovieKey(title, year) == IF year > 0 THEN <<title, year>> ELSE <<title>>
KeyOf(m) == MovieKey(m.title, m.year)
Keys(movies) == {KeyOf(movies[k]) : k \in DOMAIN movies}

(* A list that is only cut, with its repetitions. Used by a mutant.         *)
FirstMovies(ms, limit) == SubSeq(ms, 1, IF Len(ms) < limit THEN Len(ms) ELSE limit)

(* ms without a second movie of the same key, cut after limit movies.       *)
DistinctMovies(ms, limit) ==
  FoldLeft(LAMBDA out, m : IF Len(out) >= limit \/ KeyOf(m) \in Keys(out) THEN out ELSE Append(out, m), <<>>, ms)

(* A comment is what the expressions find in it: the dated title it begins  *)
(* with, the bold ones, and what its first line yields when neither of the  *)
(* two is in that line.  A bold title is taken without its year.            *)
Mention == [title : Text, year : Int]
Comment == [gone : BOOLEAN, subs : Seq(Text), score : Int,
            dated : Seq(Mention), bold : Seq(Text), line : Seq(Mention)]
ParseMoviesFromComment(c) ==
  LET all == c.dated \o [k \in DOMAIN c.bold |-> [title |-> c.bold[k], year |-> 0]] \o c.line
  IN  DistinctMovies(all, Len(all))

----------------------------------------------------------------------------
(* Reddit.                                                                  *)
RedditThread == [id : Text, title : Text, sub : Text]
NormalizeSub(name) ==
  LET n == IF name \in DOMAIN Canonical THEN Canonical[name] ELSE name
  IN  IF n \in BlockedSubs THEN "" ELSE n
LooksLikeMovieSub(name, term) == name \in CuedNames \/ term \in CuedTerms
Series(th) == th.title = "series"
RecommendationTitle(th) == th.title = "list"

(* The threads of a listing: the titled links, or when no title was found   *)
(* every link to a thread; each thread once.                                *)
ParseThreads(listing) ==
  LET titled == Only(listing, {t \in Range(listing) : t.title # ""})
  IN  FoldLeft(LAMBDA out, t : IF t.id \in {u.id : u \in Range(out)} THEN out
                               ELSE Append(out, [t EXCEPT !.sub = NormalizeSub(@)]),
               <<>>, IF titled # <<>> THEN titled ELSE listing)

(* The subreddits that links or words name, each once.                      *)
ParseSubreddits(names) ==
  FoldLeft(LAMBDA out, n : IF NormalizeSub(n) \in Range(out) \cup {""} THEN out ELSE Append(out, NormalizeSub(n)),
           <<>>, names)

(* The first thread of a search that is not about a series and has a title. *)
SearchSub(sub, listing) ==
  LET all == ParseThreads(listing)
      ok  == Only(all, {t \in Range(all) : ~Series(t) /\ t.title # ""})
  IN  IF ok = <<>> THEN <<>> ELSE <<[Head(ok) EXCEPT !.sub = IF @ = "" THEN NormalizeSub(sub) ELSE @]>>
SearchGlobal(listing) ==
  LET all == ParseThreads(listing) IN Only(all, {t \in Range(all) : ~Series(t)})
HotThreads(listing) ==
  LET all == ParseThreads(listing) IN Only(all, {t \in Range(all) : ~Series(t) /\ RecommendationTitle(t)})

(* The subreddits a search for term adds to those found so far.             *)
DiscoverSubs(out, names, term, limit) ==
  FoldLeft(LAMBDA acc, sub : IF Len(acc) >= limit \/ sub \in Range(acc) \/ ~LooksLikeMovieSub(sub, term)
                             THEN acc ELSE Append(acc, sub), out, ParseSubreddits(names))

(* What a thread page teaches: the subreddits mentioned in its comments, and*)
(* the movies of those with a score of at least 3, up to limit.             *)
ThreadLearn(comments, limit) ==
  FoldLeft(LAMBDA acc, c :
             IF c.gone \/ Len(acc.movies) >= limit THEN acc
             ELSE [learned |-> ParseSubreddits(acc.learned \o c.subs),
                   movies  |-> IF c.score < 3 THEN acc.movies
                               ELSE DistinctMovies(acc.movies \o ParseMoviesFromComment(c), limit)],
           [learned |-> <<>>, movies |-> <<>>], comments)

----------------------------------------------------------------------------
(* Wikipedia.                                                               *)
Paragraph == [text : Text, film : BOOLEAN, years : SUBSET Int]
LooksLikeFilmPlot(p, year) == p.film /\ (year > 0 => year \in p.years)
WikiPagePlot(paras, year) ==
  LET ok == Only(paras, {p \in Range(paras) : p.text # "" /\ LooksLikeFilmPlot(p, year)})
  IN  IF ok = <<>> THEN "" ELSE Head(ok).text
WikiTerms(title, year) ==
  (IF year > 0 THEN <<<<title, year, "film">>>> ELSE <<>>) \o <<<<title, "film">>, <<title>>>>
WikiCandidates(title, year, override) ==      \* each once
  IF override = <<>> THEN WikiTerms(title, year)
  ELSE <<override>> \o SelectSeq(WikiTerms(title, year), LAMBDA page : page # override)

(* The article a search led to, unless it only lists articles.              *)
SearchFound(page) == IF page.title = <<>> \/ page.disambiguation THEN <<>> ELSE page.title

----------------------------------------------------------------------------
(* Proxies.  A sample is an address of the shipped docket that only shows   *)
(* the form; NoUrl is the empty text.                                       *)
ProxyUrl == [scheme : Text, host : Text, sample : BOOLEAN]
ProxyEnv == [finder : ProxyUrl, https : ProxyUrl, http : ProxyUrl]      \* MOVIE_FINDER_PROXY and the usual two
Docket == [default : Text, proxies : Seq([id : Text, url : ProxyUrl, enabled : BOOLEAN])]
NoUrl == [scheme |-> "", host |-> "", sample |-> FALSE]
IsPlaceholderURL(u) == u = NoUrl \/ u.sample
ValidURL(u) == u.scheme \in {"http", "https", "socks5"} /\ u.host # ""

EnabledProxies(docket) ==
  LET on == SelectSeq(docket.proxies, LAMBDA e : e.enabled /\ ~IsPlaceholderURL(e.url))
  IN  [k \in DOMAIN on |-> on[k].url]
PickFromPool(urls, i) == IF urls = <<>> THEN NoUrl ELSE urls[(i % Len(urls)) + 1]
PickFromDocket(docket, i) ==
  LET fixed == SelectSeq(docket.proxies, LAMBDA e : docket.default # "" /\ e.id = docket.default
                                                    /\ e.enabled /\ ~IsPlaceholderURL(e.url))
  IN  IF fixed # <<>> THEN Head(fixed).url ELSE PickFromPool(EnabledProxies(docket), i)

(* The proxy of the agent at place i (from 0): the first of the candidates  *)
(* that is set, or an error when that one is not a proxy address.           *)
Resolve(a, i, cfg, docket, flag, env) ==
  LET set == SelectSeq(<<a.proxy, PickFromDocket(docket, i), PickFromPool(cfg.proxies, i), cfg.proxy, flag,
                         env.finder, env.https, env.http>>, LAMBDA u : u # NoUrl)
  IN  IF set = <<>> THEN [ok |-> TRUE, url |-> NoUrl]
      ELSE [ok |-> ValidURL(Head(set)), url |-> Head(set)]

(* What -test-proxies tries, which reads MOVIE_FINDER_PROXY alone: an error *)
(* before the first request, or the list of the urls.                       *)
TestEntries(docket, flag, env) ==
  LET first == IF flag # NoUrl THEN <<flag>> ELSE IF env.finder # NoUrl THEN <<env.finder>> ELSE <<>>
      on    == SelectSeq(docket.proxies, LAMBDA e : e.enabled)
      urls  == first \o [k \in DOMAIN on |-> on[k].url]
  IN  [ok |-> urls # <<>> /\ \A k \in DOMAIN urls : ValidURL(urls[k]) /\ (k > Len(first) => ~IsPlaceholderURL(urls[k])),
       urls |-> urls]

----------------------------------------------------------------------------
(* The settings.  What an agent leaves out has a default, and the           *)
(* environment sets one proxy and adds others.                              *)
Query == Seq(Text)
Pick == [title : Text, year : Int, plot : Text, wiki : Seq(Text)]
Agent == [id : Text, queries : Seq(Query), subs : Seq(Text), discover : {"", "on", "off"}, limit : Int, maxSubs : Int,
          maxThreads : Int, picks : Seq(Pick), proxy : ProxyUrl]
Config == [agents : Seq(Agent), proxy : ProxyUrl, proxies : Seq(ProxyUrl)]
Default(n, d) == IF n <= 0 THEN d ELSE n
LoadAgent(a) ==
  [a EXCEPT !.limit = Default(@, 3), !.maxSubs = Default(@, 20), !.maxThreads = Default(@, 25),
            !.discover = IF @ = "" THEN "on" ELSE @,
            !.subs = IF @ = <<>> THEN <<"MovieSuggestions", "movies">> ELSE @]
ApplyEnv(cfg, proxy, proxies) ==
  [cfg EXCEPT !.proxy = IF proxy = NoUrl THEN @ ELSE proxy,
              !.proxies = @ \o SelectSeq(proxies, LAMBDA u : u # NoUrl)]
LoadConfig(cfg, proxy, proxies) ==
  ApplyEnv([cfg EXCEPT !.agents = [k \in DOMAIN @ |-> LoadAgent(@[k])]], proxy, proxies)
============================================================================
