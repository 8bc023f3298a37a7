------------------------------ MODULE MCNetwork ------------------------------
(* Small instances for TLC of the programs of Network.                      *)
EXTENDS Network

(* The proxy: a tunnel, and plain requests with the right and, where they   *)
(* count first, the wrong credentials. The setting with credentials also    *)
(* allows running without any: they are asked for all the same.             *)
FourRequests == {"tunnel", "plain", "again", "health"}
KindOf == [r \in FourRequests |-> IF r = "tunnel" THEN "connect" ELSE IF r = "health" THEN "health" ELSE "plain"]
OneAddress == [r \in FourRequests |-> 1]
Pair(auth, proxyAuth) == [auth |-> auth, proxyAuth |-> proxyAuth]
Passwords == [r \in FourRequests |-> Pair(IF r = "again" THEN <<"u", "no">> ELSE <<"", "">>, <<"u", "p">>)]
HeadersOf == [r \in FourRequests |-> IF r = "again" THEN {"Te", "curl"} ELSE {"User-Agent", "Proxy-Authorization", "Host"}]
Setting(local, user, pass, insecure) ==
  [local |-> local, addr |-> TRUE, user |-> user, pass |-> pass, insecure |-> insecure]
FourSettings == {Setting(FALSE, "u", "p", TRUE), Setting(FALSE, "u", "", TRUE), Setting(TRUE, "", "", FALSE),
                 Setting(FALSE, "", "", FALSE)}

(* The orchestrator: three tasks, two of which ask for the same id.         *)
ThreePosts == 1..3
TwoIds == <<"a", "b", "a">>

(* hotwire: two requests, of three routes one with a URL that cannot be     *)
(* parsed; a backend that served one request before, one that served none.  *)
Config(name, jitter, earlier) ==
  [name |-> name, control |-> "", addr |-> "", latency |-> 0, jitter |-> jitter, every |-> 0, earlier |-> earlier]
ThreeRoutes == <<[id |-> "m", url |-> TRUE], [id |-> "o", url |-> TRUE], [id |-> "x", url |-> FALSE]>>
TwoUpdates == <<[m |-> 2, o |-> 3], [m |-> 0, x |-> 1]>>
TwoConfigs == {Config("m", 1, <<0>>), Config("", 0, <<>>)}

(* The VPN: two clients; the second may send from an address of its LAN,    *)
(* and have another key or no key.                                          *)
C1 == <<10, 0, 0, 2>>
C2 == <<10, 0, 0, 255>>
Lan == <<192, 168, 1, 9>>
Block(ip, ones) == [ip |-> ip, ones |-> ones]
P4(src, dst) == [v |-> 4, src |-> src, dst |-> dst]
KeyText(text, hex) == [text |-> text, hex |-> hex]
Blocks == [n \in 0..2 |-> CASE n = 0 -> Block(<<10, 0, 0, 1>>, 24) [] n = 1 -> Block(C1, 24) [] n = 2 -> Block(C2, 32)]
KeyFiles == {[n \in 0..2 |-> IF n = 2 THEN KeyText("AB", "ab") ELSE KeyText("ab", "ab")],
             [n \in 0..2 |-> IF n = 2 THEN KeyText("other", "") ELSE KeyText("word", "")]}
Packets == [n \in 0..2 |-> CASE n = 0 -> {P4(Lan, C1), P4(C1, Lan), [v |-> 6]} [] n = 1 -> {P4(C1, C2)} [] n = 2 -> {P4(Lan, C1)}]
Strangers == {[version |-> 1, key |-> <<"raw", "cd">>, plain |-> [type |-> "hello", body |-> C1]]}

(* simplijobs: two postings, and two commands of six kinds.  A posting is   *)
(* dated at the start, which may be long ago when it appears, or later than *)
(* all that happens; the first may be dated again.                          *)
Posting(id, company, places) == [id |-> id, source |-> "newgrad", company |-> company, places |-> places]
First == Posting(1, "a", {"nyc", "remote"})
Second == Posting(2, "b", {"remote"})
TwoListings == {First, Second}
SomeRedatings == {<<First, 0, 1>>, <<First, 1, 2>>, <<Second, 0, 1>>, <<Second, 0, 3>>}
CheckFor(all, company, place, limit, source) ==
  [op |-> "check", source |-> source, all |-> all, company |-> company, place |-> place, limit |-> limit]
SixCommands == {CheckFor(FALSE, "", "", 0, "newgrad"), CheckFor(TRUE, "a", "", 0, "newgrad"),
                CheckFor(FALSE, "", "remote", 1, "newgrad"), CheckFor(FALSE, "", "", 0, "other"),
                [op |-> "status"], [op |-> "reset"]}

(* redban: three processes, the last of which takes more than the burst.    *)
Needs == <<2, 2, 4>>
ArgsOf == <<"none", "dashes", "command">>

(* ipv1: a name that is used, bound again and is a number; an unset and a   *)
(* wrong name; a source that is too long for a packet.                      *)
Do(op, addr, ep, src, text) == [op |-> op, addr |-> addr, ep |-> ep, src |-> src, text |-> text]
FiveScripts ==
  {<<Do("listen", <<"1">>, "x", <<>>, <<>>), Do("register", <<"2">>, "x", <<>>, <<>>), Do("send", <<"2">>, "", <<"b">>, <<"hi">>)>>,
   <<Do("register", <<"1">>, "y", <<>>, <<>>), Do("allocate", <<>>, "y", <<>>, <<>>), Do("allocate", <<>>, "x", <<>>, <<>>)>>,
   <<Do("listen", <<"1">>, "x", <<>>, <<>>), Do("send", <<"1">>, "", <<"b">>, <<"hi">>), Do("listen", <<"b">>, "x", <<>>, <<>>)>>,
   <<Do("allocate", <<>>, "", <<>>, <<>>), Do("register", <<"_">>, "y", <<>>, <<>>), Do("allocate", <<>>, "x", <<>>, <<>>)>>,
   <<Do("register", <<"1">>, "x", <<>>, <<>>), Do("send", <<"1">>, "", <<"a", "b", "c">>, <<"hi">>)>>}
FourStrays == {<<"v1">>, <<"v2", 1, "1", 1, "b">>, <<"v1", 9, "1">>, <<"v1", 1, "b", 1, "_">>}
=============================================================================
