----------------------------- MODULE MCSeoAudit ------------------------------
(* Instances of SeoAudit for TLC. *)
EXTENDS SeoAudit

On(path, slash) == Url("https", "site", path, slash)
Home == On(<<>>, TRUE)
A == On(<<"a">>, FALSE)
B == On(<<"b">>, FALSE)
ThreePages == {Home, A, B}
SomePages == {{A}, {Home, B}, ThreePages}

\* Pieces of a page: a text of a length and of words.
Text(len, words) == Words(len, words, FALSE)
Wrap(tag, inner) == <<Open(tag, NoAttr)>> \o inner \o <<Close(tag)>>
Meta(name, len) == <<Open("meta", [NoAttr EXCEPT !.name = name, !.content = len])>>
OG == <<Open("meta", [NoAttr EXCEPT !.property = "og:", !.content = 10])>>
Anchor(href) == <<Open("a", [NoAttr EXCEPT !.href = href]), Text(4, 1), Close("a")>>
To(url) == Anchor([kind |-> "abs", url |-> url])
ToPath(path) == Anchor([kind |-> "path", path |-> path, slash |-> FALSE])
Canonical(url) ==
  <<Open("link", [NoAttr EXCEPT !.rel = "canonical", !.href = [kind |-> "abs", url |-> url]])>>
Img(alt) == <<Open("img", [NoAttr EXCEPT !.alt = alt])>>

Good(links) ==
  Wrap("head", Wrap("title", <<Text(40, 6)>>) \o Meta("viewport", 20) \o OG)
    \o Wrap("body", Wrap("h1", <<Text(20, 3)>>) \o links \o <<Text(2000, 400)>>)
Poor(links) == Wrap("body", links \o <<Comment>>)

\* Pages of a site: with links in circles, to a page that is Gone, out of
\* the site and nowhere; one with whitespace between its tags; one that
\* ends within a closing tag and one that ends within a comment.
SiteDocs == {
  <<Doctype>> \o Good(To(A) \o ToPath(<<"b">>)),
  Poor(To(Home) \o ToPath(<<"c">>) \o To(Url("https", "elsewhere", <<>>, TRUE))),
  Wrap("title", <<Text(25, 4)>>) \o Poor(Wrap("b", <<Space>>) \o Anchor(Elsewhere) \o To(A) \o To(B)),
  <<Open("body", NoAttr), Open("b", NoAttr), CutClose("b")>>,
  <<Text(5, 1), OpenComment>>}

\* Every combination of what the analysis distinguishes.
Title(n) == IF n = 0 THEN <<>> ELSE Wrap("title", <<Words(n, 5, TRUE)>>)
Optional(present, piece) == IF present THEN piece ELSE <<>>
FeatureDocs ==
  {Wrap("head", Title(t) \o (IF d = 0 THEN <<>> ELSE Meta("description", d))
                \o Optional(v, Meta("viewport", 20)) \o Optional(o, OG)
                \o Optional(o, Meta("twitter:card", 7)) \o c)
     \o Wrap("body", FlattenSeq([k \in 1..h |-> Wrap("h1", <<Text(9, 2)>>)])
                \o Img(i) \o Wrap("script", <<Text(900, 300)>>) \o <<Text(50 * w, w)>>) :
     t \in {0, 20, 31, 61, 90}, d \in {0, 119, 120, 161}, v \in BOOLEAN, o \in BOOLEAN,
     c \in {<<>>, Canonical(Home), Canonical(A)}, h \in 0..2, i \in {0, 5}, w \in {299, 300}}

\* Every short document over two tags, one whose name begins the other's; the
\* shorter ones also with whitespace, a comment and a closing tag in capitals.
Letters == {Open("b", NoAttr), Close("b"), Open("body", NoAttr), Close("body"), Text(3, 1)}
MoreLetters == Letters \cup {Space, Comment, Close("B")}
ShortDocs ==
  {d \in UNION {[1..n -> MoreLetters] : n \in 0..4} \cup [1..5 -> Letters] :
     \A i \in 2..Len(d) : d[i].kind # "text" \/ d[i - 1].kind # "text"}

ManyDocs == FeatureDocs \cup ShortDocs \cup
  {Wrap("b", <<Text(3, 1), Comment, Text(3, 1)>>) \o Img(0),
   <<Open("body", NoAttr), Comment, Text(3, 1), OpenComment>>}

UrlFile == <<Home, Comment, A, B, A>>

\* As the Job of deploy/k8s says, by hand, with a variable that is not set, and none.
ByEnv(p, n) == [env |-> [idx |-> p, total |-> n], flag |-> [idx |-> -1, total |-> 1]]
ByFlag(p, n) == [env |-> None, flag |-> [idx |-> p, total |-> n]]
PodConfigs ==
  {[p \in 0..1 |-> ByEnv(p, 2)], [p \in 0..1 |-> ByFlag(p, 2)],
   [p \in 0..1 |-> [ByEnv(p, 2) EXCEPT !.flag = [idx |-> 0, total |-> 3]]]}
=============================================================================
