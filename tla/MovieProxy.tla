----------------------------- MODULE MovieProxy -----------------------------
(* The forward proxy of the movie finder (movie/internal/proxy/server): the *)
(* settings, the rate limiter, the dispatch of a request, CONNECT tunnels   *)
(* with their two copying goroutines, plain requests, and the shutdown.     *)
(* Time advances in ticks; a tick refills Rate units and a request costs    *)
(* Cost units, so that tokens may be fractions.                             *)
EXTENDS Integers, Sequences, FiniteSets

CONSTANTS Requests,    \* the requests that may come: a set of names
          Kind,        \* of each request: "health", "connect" or "plain"
          Ip,          \* of each request, the address it comes from
          Creds,       \* of each request, [auth, proxyAuth]: the pairs its headers carry
          Headers,     \* of each plain request, the names of its headers
          Settings,    \* the settings the program may be started with
          Rate, Cost, Burst,
          MaxTime, MaxChunks   \* bounds: ticks, and chunks per direction of a tunnel

VARIABLES cfg,         \* the settings, checked by Validate
          server,      \* "running", "draining", "exited", "refused"
          late,        \* the ten seconds of the shutdown are over
          now, buckets,\* the clock, and the token bucket of each address seen
          req,         \* the state of each request
          wire,        \* for each tunnel its two directions
          passed,      \* the requests the limiter let through, with their times (history)
          upstream     \* what each plain request sent on: a set of header names, or NotSent
vars == <<cfg, server, late, now, buckets, req, wire, passed, upstream>>

NoPair == <<"", "">>
NotSent == {"not sent"}

----------------------------------------------------------------------------
(* The settings.  Empty credentials are allowed only together, and only     *)
(* where an open proxy is.                                                  *)
LocalConfig(s) == [s EXCEPT !.insecure = TRUE]
Loaded(s) == IF s.local THEN LocalConfig(s) ELSE s
AuthRequired(s) == s.user # "" /\ s.pass # ""
Validate(s) == s.addr /\ ((s.user = "") <=> (s.pass = "")) /\ (AuthRequired(s) \/ s.insecure)

(* The credentials of a request: those of Authorization when it has any,    *)
(* else those of Proxy-Authorization.                                       *)
ProxyBasicAuth(r) == IF Creds[r].auth # NoPair THEN Creds[r].auth ELSE Creds[r].proxyAuth
Authenticated(r) == ProxyBasicAuth(r) # NoPair /\ ProxyBasicAuth(r) = <<cfg.user, cfg.pass>>

(* The token bucket of an address after it was refilled.                    *)
Filled(ip) ==
  IF ip \notin DOMAIN buckets THEN Burst * Cost
  ELSE LET n == buckets[ip].tokens + (now - buckets[ip].last) * Rate
       IN  IF n > Burst * Cost THEN Burst * Cost ELSE n
Allowed(ip) == Filled(ip) >= Cost
Allow(ip) ==
  buckets' = [i \in DOMAIN buckets \cup {ip} |->
                IF i = ip THEN [tokens |-> Filled(ip) - (IF Allowed(ip) THEN Cost ELSE 0), last |-> now]
                ELSE buckets[i]]

----------------------------------------------------------------------------
(* Plain requests: the headers that concern one connection stay behind, and *)
(* the request is made to look like a browser's.                            *)
HopByHop == {"Proxy-Connection", "Proxy-Authenticate", "Proxy-Authorization", "Connection", "Keep-Alive",
             "Te", "Trailer", "Transfer-Encoding", "Upgrade"}
Forwarded(hs) ==
  LET kept == hs \ (HopByHop \cup {"X-Forwarded-For", "Via", "curl"})
  IN  kept \cup {IF "User-Agent" \in kept /\ "curl" \notin hs THEN "User-Agent" ELSE "browser",
                 "Accept-Language", "Accept-Encoding"}

(* The two directions of a tunnel: what was sent into it, what is on its    *)
(* way, what came out, whether the sender ended it, whether its goroutine   *)
(* has returned.                                                            *)
Quiet == [sent |-> <<>>, way |-> <<>>, got |-> <<>>, ended |-> FALSE, done |-> FALSE]
Tunnel(early) == [up |-> [Quiet EXCEPT !.sent = early, !.way = early], down |-> Quiet, reset |-> FALSE]

----------------------------------------------------------------------------
Init ==
  /\ cfg \in {Loaded(s) : s \in Settings}
  /\ server = IF Validate(cfg) THEN "running" ELSE "refused"
  /\ late = FALSE /\ now = 0 /\ buckets = [i \in {} |-> 0]
  /\ req = [r \in Requests |-> "new"] /\ wire = [r \in {} |-> 0]
  /\ passed = <<>> /\ upstream = [r \in Requests |-> NotSent]

Tick == /\ now < MaxTime /\ server \in {"running", "draining"} /\ now' = now + 1
        /\ UNCHANGED <<cfg, server, late, buckets, req, wire, passed, upstream>>

(* dispatch: the health check passes by the limiter; a request over the     *)
(* limit is refused before its credentials are looked at.                   *)
Health(r) ==
  /\ server = "running" /\ req[r] = "new" /\ Kind[r] = "health" /\ req' = [req EXCEPT ![r] = "answered"]
  /\ UNCHANGED <<cfg, server, late, now, buckets, wire, passed, upstream>>
Dispatch(r) ==
  /\ server = "running" /\ req[r] = "new" /\ Kind[r] # "health"
  /\ Allow(Ip[r])
  /\ passed' = IF Allowed(Ip[r]) THEN Append(passed, [ip |-> Ip[r], at |-> now]) ELSE passed
  /\ req' = [req EXCEPT ![r] = IF ~Allowed(Ip[r]) THEN "limited"
                               ELSE IF AuthRequired(cfg) /\ ~Authenticated(r) THEN "denied"
                               ELSE IF Kind[r] = "connect" THEN "dialing" ELSE "forwarding"]
  /\ UNCHANGED <<cfg, server, late, now, wire, upstream>>

(* handleTunnel: the target is dialled, the client told, the connection     *)
(* taken over with what the client sent early.                              *)
Dial(r) ==
  /\ req[r] = "dialing" /\ server \in {"running", "draining"}
  /\ \/ req' = [req EXCEPT ![r] = "failed"] /\ UNCHANGED wire
     \/ \E early \in {<<>>, <<1>>} :
          /\ req' = [req EXCEPT ![r] = "tunnel"]
          /\ wire' = [q \in DOMAIN wire \cup {r} |-> IF q = r THEN Tunnel(early) ELSE wire[q]]
  /\ UNCHANGED <<cfg, server, late, now, buckets, passed, upstream>>

Alive(r) == req[r] = "tunnel" /\ server \in {"running", "draining"}
Quietly == UNCHANGED <<cfg, server, late, now, buckets, passed, upstream>>

(* A peer sends a chunk, or ends its direction.                             *)
PeerSends(r, d) ==
  /\ Alive(r) /\ ~wire[r][d].ended /\ ~wire[r].reset /\ Len(wire[r][d].sent) < MaxChunks
  /\ LET c == Len(wire[r][d].sent) + 1 IN
     wire' = [wire EXCEPT ![r][d].sent = Append(@, c), ![r][d].way = Append(@, c)]
  /\ UNCHANGED req /\ Quietly
PeerEnds(r, d) ==
  /\ Alive(r) /\ ~wire[r][d].ended /\ wire' = [wire EXCEPT ![r][d].ended = TRUE]
  /\ UNCHANGED req /\ Quietly
(* A connection breaks: what is on its way is lost and nothing more moves.  *)
Reset(r) ==
  /\ Alive(r) /\ ~wire[r].reset /\ wire' = [wire EXCEPT ![r].reset = TRUE]
  /\ UNCHANGED req /\ Quietly

(* One turn of io.Copy, and its end: the other side is told by CloseWrite.  *)
Copy(r, d) ==
  /\ Alive(r) /\ ~wire[r].reset /\ ~wire[r][d].done /\ wire[r][d].way # <<>>
  /\ wire' = [wire EXCEPT ![r][d].got = Append(@, Head(wire[r][d].way)), ![r][d].way = Tail(@)]
  /\ UNCHANGED req /\ Quietly
CopyEnds(r, d) ==
  /\ Alive(r) /\ ~wire[r][d].done
  /\ wire[r].reset \/ (wire[r][d].ended /\ wire[r][d].way = <<>>)
  /\ wire' = [wire EXCEPT ![r][d].done = TRUE]
  /\ UNCHANGED req /\ Quietly

(* wg.Wait: both goroutines returned, and the connections are closed.       *)
OneDone(r) == wire[r].up.done \/ wire[r].down.done      \* used by a mutant
BothDone(r) == wire[r].up.done /\ wire[r].down.done
CloseTunnel(r) ==
  /\ Alive(r) /\ BothDone(r) /\ req' = [req EXCEPT ![r] = "closed"]
  /\ UNCHANGED wire /\ Quietly

(* handleHTTP: the request goes on with its new headers, and the answer     *)
(* comes back or the upstream fails.                                        *)
Send(r) ==
  /\ req[r] = "forwarding" /\ upstream[r] = NotSent /\ server \in {"running", "draining"}
  /\ upstream' = [upstream EXCEPT ![r] = Forwarded(Headers[r])]
  /\ UNCHANGED <<cfg, server, late, now, buckets, req, wire, passed>>
Reply(r) ==
  /\ req[r] = "forwarding" /\ upstream[r] # NotSent /\ server \in {"running", "draining"}
  /\ req' = [req EXCEPT ![r] = "answered"] \/ req' = [req EXCEPT ![r] = "failed"]
  /\ UNCHANGED wire /\ Quietly

(* A signal: the server accepts nothing more and waits for the requests it  *)
(* is serving.  It does not know of the tunnels, whose connections were     *)
(* taken from it.  Then the program exits, and everything open is cut.      *)
Serving == {r \in Requests : req[r] \in {"dialing", "forwarding"}}
Signal == /\ server = "running" /\ server' = "draining"
          /\ UNCHANGED <<cfg, late, now, buckets, req, wire, passed, upstream>>
TenSeconds == /\ server = "draining" /\ ~late /\ late' = TRUE
              /\ UNCHANGED <<cfg, server, now, buckets, req, wire, passed, upstream>>
Drained == Serving = {} \/ late
Exit == /\ server = "draining" /\ Drained
        /\ server' = "exited"
        /\ req' = [r \in Requests |-> IF req[r] \in {"dialing", "forwarding", "tunnel"} THEN "cut" ELSE req[r]]
        /\ UNCHANGED <<cfg, late, now, buckets, wire, passed, upstream>>

Next == \/ Tick \/ Signal \/ TenSeconds \/ Exit
        \/ \E r \in Requests : \/ Health(r) \/ Dispatch(r) \/ Dial(r) \/ Send(r) \/ Reply(r)
                               \/ Reset(r) \/ CloseTunnel(r)
                               \/ \E d \in {"up", "down"} : PeerSends(r, d) \/ PeerEnds(r, d) \/ Copy(r, d) \/ CopyEnds(r, d)

----------------------------------------------------------------------------
(* In every stretch of time an address gets no more requests through than   *)
(* the burst and the refill of that stretch allow (rateLimiter.Allow).      *)
RateBound ==
  \A i, j \in DOMAIN passed : i < j /\ passed[i].ip = passed[j].ip =>
    Cardinality({k \in i..j : passed[k].ip = passed[i].ip}) * Cost
      <= Burst * Cost + Rate * (passed[j].at - passed[i].at)

(* Each direction of a tunnel delivers what was sent into it, in order; and *)
(* when the tunnel is closed and no connection broke, everything was, also  *)
(* when the other direction ended long before (handleTunnel).               *)
TunnelKeepsBytes ==
  \A r \in DOMAIN wire : \A d \in {"up", "down"} :
    LET w == wire[r][d] IN
    /\ w.got \o w.way = w.sent
    /\ req[r] = "closed" /\ ~wire[r].reset => w.got = w.sent

(* A request the proxy was serving when the signal came gets its answer     *)
(* within the ten seconds, and what goes upstream was let through by the    *)
(* limiter and by the credentials; a proxy that has none was opened on      *)
(* purpose (Run, dispatch, Validate).                                       *)
ServedToTheEnd ==
  /\ server = "exited" /\ ~late => \A r \in Requests : req[r] = "cut" => r \in DOMAIN wire
  /\ \A r \in Requests : upstream[r] # NotSent \/ r \in DOMAIN wire =>
       /\ \E k \in DOMAIN passed : passed[k].ip = Ip[r]
       /\ IF AuthRequired(cfg) THEN ProxyBasicAuth(r) = <<cfg.user, cfg.pass>> ELSE cfg.insecure
       /\ upstream[r] \intersect HopByHop = {}
=============================================================================
