------------------------------- MODULE SeoHtml -------------------------------
(***************************************************************************)
(* The HTML parser and the tree queries of surf (pkg/seo/html.go).         *)
(*                                                                         *)
(* A document is a sequence of tokens, a text is its length, its number of *)
(* words and whether it ends with a space.  It goes on to the next tag, so *)
(* no two are neighbours; that one starts with a space is left out, since  *)
(* the parser skips it wherever a query reads it.  An opening tag has its  *)
(* name in lower case, as the parser makes it, a closing tag as written.   *)
(* A position is the index of a token; Len(s) + 1 is the end of the input  *)
(* and Len(s) + 2 one byte past it, where skipUntil leaves a parser that   *)
(* met a closing tag without '>'.                                          *)
(***************************************************************************)
EXTENDS Integers, Sequences, SequencesExt

Elsewhere == [kind |-> "other"]            \* "", "#top", "mailto:...", "page.html"

\* The attributes that some query reads, as they are when they are missing.
NoAttr == [name |-> "", property |-> "", rel |-> "", content |-> 0, alt |-> 0,
           href |-> Elsewhere]

\* Tokens.
Open(tag, attr) == [kind |-> "open", tag |-> tag, attr |-> attr]
Close(tag) == [kind |-> "close", tag |-> tag]
CutClose(tag) == [kind |-> "cut", tag |-> tag]      \* "</tag" and no '>' after it
Words(len, words, sp) == [kind |-> "text", len |-> len, words |-> words, sp |-> sp]
Space == Words(1, 0, TRUE)                          \* whitespace and nothing else
Comment == [kind |-> "comment"]
OpenComment == [kind |-> "opencomment"]             \* "<!--" and no "-->" after it
Doctype == [kind |-> "doctype"]

\* Nodes of the tree.
Element(tag, attr, kids) ==
  [type |-> "element", tag |-> tag, attr |-> attr, kids |-> kids, closer |-> FALSE]
Closer(tag) == [Element(tag, NoAttr, <<>>) EXCEPT !.closer = TRUE]
TextNode(t) == [type |-> "text", text |-> [len |-> t.len, words |-> t.words, sp |-> t.sp]]

VoidElements == {"img", "link", "meta"}

\* "</" + tag is a prefix of "</" + other: a <b> that is not closed ends at </body>.
Begins(tag, other) == other = tag \/ <<tag, other>> = <<"b", "body">>

IsCloser(s, p) == p <= Len(s) /\ s[p].kind \in {"close", "cut"}
ClosedAt(s, p, tag) == IsCloser(s, p) /\ Begins(tag, s[p].tag)

\* The position behind a closing tag.
PastCloser(s, p) == IF s[p].kind = "cut" THEN Len(s) + 2 ELSE p + 1

Parsed(node, pos) == [node |-> node, pos |-> pos, panic |-> FALSE]
Panicked == [node |-> Closer(""), pos |-> 0, panic |-> TRUE]

\* Mutant: the closing tag of an element is left for its parent.
SkipNothing(s, p, node) == Parsed(node, p)

\* p.match slices the input at its position, which must not be past the end.
SkipClosing(s, p, node) ==
  IF p > Len(s) + 1 THEN Panicked
  ELSE Parsed(node, IF IsCloser(s, p) THEN PastCloser(s, p) ELSE p)

RECURSIVE ParseElement(_, _), ParseKids(_, _, _, _)

SkipWhitespace(s, p) == IF p <= Len(s) /\ s[p] = Space THEN p + 1 ELSE p

\* parseElement's loop over the children of a tag, up to its end.  A closing
\* tag that is met behind whitespace is taken for a child, which ends the loop.
ParseKids(s, p, t, kids) ==
  LET q == SkipWhitespace(s, p)
  IN IF p > Len(s) \/ ClosedAt(s, p, t.tag)
     THEN SkipClosing(s, p, Element(t.tag, t.attr, kids))
     ELSE CASE q > Len(s) -> ParseKids(s, q, t, kids)
            [] q <= Len(s) /\ s[q].kind = "comment" -> ParseKids(s, q + 1, t, kids)
            [] q <= Len(s) /\ s[q].kind = "opencomment" -> ParseKids(s, Len(s) + 1, t, kids)
            [] q <= Len(s) /\ s[q].kind = "text" -> ParseKids(s, q + 1, t, Append(kids, TextNode(s[q])))
            [] OTHER ->
                 LET child == ParseElement(s, q)
                 IN CASE child.panic -> Panicked
                      [] child.node.closer ->
                           SkipClosing(s, child.pos, Element(t.tag, t.attr, kids))
                      [] OTHER -> ParseKids(s, SkipWhitespace(s, child.pos), t, Append(kids, child.node))

ParseElement(s, p) ==
  CASE IsCloser(s, p) -> Parsed(Closer(s[p].tag), PastCloser(s, p))
    [] s[p].tag \in VoidElements -> Parsed(Element(s[p].tag, s[p].attr, <<>>), p + 1)
    [] OTHER -> ParseKids(s, p + 1, s[p], <<>>)

Failed(how) == [result |-> how, root |-> Element("root", NoAttr, <<>>)]

RECURSIVE ParseTop(_, _, _)
ParseTop(s, p, kids) ==
  IF p > Len(s) THEN [result |-> "ok", root |-> Element("root", NoAttr, kids)]
  ELSE CASE s[p].kind = "doctype" -> ParseTop(s, SkipWhitespace(s, p + 1), kids)
         [] s[p].kind = "comment" -> ParseTop(s, p + 1, kids)
         [] s[p].kind = "opencomment" -> Failed("error")
         [] s[p].kind = "text" -> ParseTop(s, p + 1, Append(kids, TextNode(s[p])))
         [] OTHER -> LET e == ParseElement(s, p)
                     IN IF e.panic THEN Failed("panic")
                        ELSE ParseTop(s, SkipWhitespace(s, e.pos), Append(kids, e.node))

Parse(s) == ParseTop(s, SkipWhitespace(s, 1), <<>>)

-----------------------------------------------------------------------------
(* Queries *)

RECURSIVE Nodes(_)
\* The elements at and below a node, in the order in which the queries meet them.
Nodes(n) ==
  IF n.type = "text" THEN <<>>
  ELSE <<n>> \o FlattenSeq([i \in DOMAIN n.kids |-> Nodes(n.kids[i])])

FindElements(n, tag) == SelectSeq(Nodes(n), LAMBDA e : e.tag = tag)

\* The content of the first <meta name=...> that is not empty, as its length.
FindMetaByName(n, name) ==
  LET hits == SelectSeq(FindElements(n, "meta"),
                        LAMBDA e : e.attr.name = name /\ e.attr.content > 0)
  IN IF hits = <<>> THEN 0 ELSE hits[1].attr.content

FindMetaByProperty(n, prop) ==
  \E i \in DOMAIN FindElements(n, "meta") : FindElements(n, "meta")[i].attr.property = prop

FindLinkByRel(n, rel) ==
  LET hits == SelectSeq(FindElements(n, "link"),
                        LAMBDA e : e.attr.rel = rel /\ e.attr.href # Elsewhere)
  IN IF hits = <<>> THEN Elsewhere ELSE hits[1].attr.href

FindAllAnchors(n) ==
  LET as == FindElements(n, "a") IN [i \in DOMAIN as |-> as[i].attr.href]

ImagesWithoutAlt(n) == SelectSeq(FindElements(n, "img"), LAMBDA e : e.attr.alt = 0)

NoText == [len |-> 0, words |-> 0, sp |-> FALSE]
Hidden == {"script", "style"}

\* Two parts of a text, with a space between them or not: without one the last
\* word of the first and the first word of the second are one word.
Joined(a, b, space) ==
  IF a.len = 0 THEN b
  ELSE [len |-> a.len + b.len + (IF space THEN 1 ELSE 0),
        words |-> a.words + b.words - (IF space \/ a.sp THEN 0 ELSE 1),
        sp |-> b.sp]

RECURSIVE TextContent(_), TextOfKids(_, _, _, _)
TextOfKids(kids, i, text, afterElement) ==
  IF i > Len(kids) THEN text
  ELSE LET c == kids[i]
           part == TextContent(c)
           isElement == c.type = "element"
       IN IF part.len = 0 THEN TextOfKids(kids, i + 1, text, afterElement)
          ELSE TextOfKids(kids, i + 1,
                 Joined(text, part, ~text.sp /\ (afterElement \/ isElement)), isElement)

TextContent(n) ==
  IF n.type = "text" THEN n.text
  ELSE IF n.tag \in Hidden THEN NoText
  ELSE TextOfKids(n.kids, 1, NoText, FALSE)

\* strings.TrimSpace, of a text that starts with no space.
TrimmedLen(t) == IF t.sp THEN t.len - 1 ELSE t.len
=============================================================================
