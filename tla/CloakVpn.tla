------------------------------ MODULE CloakVpn ------------------------------
(* cloak's VPN (vpn.go, frame.go): clients with a tunnel address each, and  *)
(* a hub that learns from every packet and hello which UDP address a tunnel *)
(* address was last heard at.  Datagrams are sealed with a shared key; they *)
(* may be lost, come late, and come twice.                                  *)
EXTENDS Integers, Sequences, FiniteSets, Ipv4

CONSTANTS Clients,     \* the devices, numbered
          Cidrs,       \* of each client and of the hub (0), [ip, ones]: its -addr
          KeyTexts,    \* what the nodes' -key may be: functions to [text, hex], where hex is
                       \* "" or the bytes that 64 hexadecimal digits stand for
          Out,         \* of each, the packets its tunnel device may be given: [v, src, dst]
          Foreign,     \* datagrams of other programs
          MaxPort, MaxSent, MaxNet   \* bounds: the UDP addresses and the packets in all, the datagrams at once

VARIABLES keys,        \* the -key of each
          node,        \* "off" or "up", of each client and of the hub
          port,        \* the UDP address a client's socket is seen at; 0 for none
          nextPort,    \* addresses are not given out twice
          byIP, last,  \* the hub's table, and the address heard last; 0 for none
          net,         \* the datagrams on their way: [to, from, bytes, known]; 0 is the hub's address
          route,       \* the gateway of each one's routes
          got,         \* the last packet written to a client's tunnel device: {} or {[c, pkt, known]} (history)
          uses,        \* the UDP addresses each tunnel address was sent from (history)
          sent         \* packets sent so far
vars == <<keys, node, port, nextPort, byIP, last, net, route, got, uses, sent>>

Nodes == Clients \cup {0}
NoKey == <<"none">>
NoGateway == <<>>

----------------------------------------------------------------------------
(* The key: hexadecimal digits are taken as they are, anything else hashed. *)
ParseKey(t) == IF t.text = "" THEN NoKey ELSE IF t.hex # "" THEN <<"raw", t.hex>> ELSE <<"sha256", t.text>>
KeyOf(n) == ParseKey(keys[n])

(* A frame has a version and is sealed; a message has a type and a body.    *)
Seal(n, m) == [version |-> 1, key |-> KeyOf(n), plain |-> m]
Hello(ip) == [type |-> "hello", body |-> ip]
Packet(pkt) == [type |-> "packet", body |-> pkt]
NoMessage == [type |-> "none"]
Empty == [v |-> 0]
Open(n, b) ==         \* and decodeMsg
  IF b.version # 1 \/ b.key # KeyOf(n) THEN NoMessage ELSE b.plain
Ipv4Packet(pkt) == pkt.v = 4

Init ==
  /\ keys \in KeyTexts /\ node = [n \in Nodes |-> "off"] /\ port = [c \in Clients |-> 0] /\ nextPort = 1
  /\ byIP = [i \in {} |-> 0] /\ last = 0 /\ net = {} /\ route = [n \in Nodes |-> NoGateway]
  /\ got = {} /\ uses = {} /\ sent = 0

(* A datagram from a client or the hub.  "known" tells, of one of the hub,  *)
(* whether it had heard of the destination.                                 *)
Datagram(to, from, bytes, known) == [to |-> to, from |-> from, bytes |-> bytes, known |-> known]
ToHub(c, m) == Datagram(0, port[c], Seal(c, m), FALSE)

----------------------------------------------------------------------------
(* openTun, and the socket: the key is parsed first.  When the device, its  *)
(* address or a route fails the program ends, as if it had not been started.*)
(* A client begins with a hello.                                            *)
OpenTun(n) ==
  /\ node[n] = "off"
  /\ KeyOf(n) # NoKey /\ (n = 0 \/ nextPort <= MaxPort)
  /\ node' = [node EXCEPT ![n] = "up"] /\ route' = [route EXCEPT ![n] = SubnetGateway(Cidrs[n])]
  /\ IF n = 0 THEN UNCHANGED <<port, nextPort, net, uses>>
     ELSE /\ port' = [port EXCEPT ![n] = nextPort] /\ nextPort' = nextPort + 1
          /\ uses' = uses \cup {<<Cidrs[n].ip, nextPort>>}
          /\ net' = net \cup {Datagram(0, nextPort, Seal(n, Hello(Cidrs[n].ip)), FALSE)}
  /\ UNCHANGED <<keys, byIP, last, got, sent>>

(* The ticker's hello, at any time.                                         *)
SendHello(c) ==
  /\ node[c] = "up" /\ net' = net \cup {ToHub(c, Hello(Cidrs[c].ip))} /\ net' # net
  /\ uses' = uses \cup {<<Cidrs[c].ip, port[c]>>}
  /\ UNCHANGED <<keys, node, port, nextPort, byIP, last, route, got, sent>>

(* The client's tunToUDP: everything the device gives is sent.              *)
ClientSends(c) ==
  /\ node[c] = "up" /\ sent < MaxSent /\ sent' = sent + 1
  /\ \E pkt \in Out[c] :
       /\ net' = net \cup {ToHub(c, Packet(pkt))}
       /\ uses' = IF Ipv4Packet(pkt) THEN uses \cup {<<pkt.src, port[c]>>} ELSE uses
  /\ UNCHANGED <<keys, node, port, nextPort, byIP, last, route, got>>

(* A send or a read that fails ends the client, which may be started again; *)
(* the hub passes over the errors of its sends.                             *)
ClientEnds(c) ==
  /\ node[c] = "up" /\ node' = [node EXCEPT ![c] = "off"] /\ port' = [port EXCEPT ![c] = 0]
  /\ route' = [route EXCEPT ![c] = NoGateway]
  /\ UNCHANGED <<keys, nextPort, byIP, last, net, got, uses, sent>>

(* A network on the way gives a client's socket another address.            *)
Moves(c) ==
  /\ node[c] = "up" /\ nextPort <= MaxPort
  /\ port' = [port EXCEPT ![c] = nextPort] /\ nextPort' = nextPort + 1
  /\ UNCHANGED <<keys, node, byIP, last, net, route, got, uses, sent>>

----------------------------------------------------------------------------
(* The hub's udpToTun: what does not open is passed over; a hello and an    *)
(* IPv4 packet teach where an address is.  The packet goes to the hub's     *)
(* device, which may give it back (a route between clients).                *)
Remember(ip, from) ==
  /\ byIP' = [i \in DOMAIN byIP \cup {ip} |-> IF i = ip THEN from ELSE byIP[i]]
  /\ last' = from
SpokenFor(m) == IF m.type = "hello" THEN {m.body} \cap Address
                ELSE IF m.type = "packet" /\ Ipv4Packet(m.body) THEN {m.body.src} ELSE {}
HubReceives ==
  /\ node[0] = "up"
  /\ \E d \in net : d.to = 0 /\
       LET ips == SpokenFor(Open(0, d.bytes)) IN
       \/ ips = {} /\ UNCHANGED <<byIP, last>>
       \/ \E ip \in ips : Remember(ip, d.from)
  /\ UNCHANGED <<keys, node, port, nextPort, net, route, got, uses, sent>>

(* The hub's tunToUDP: a packet goes to where its destination was heard, or *)
(* else to whoever was heard last; before the first one it is dropped.      *)
LookupLast(ip) == last            \* used by a mutant
Lookup(ip) == IF ip \in DOMAIN byIP THEN byIP[ip] ELSE last
HubSends ==
  /\ node[0] = "up" /\ sent < MaxSent /\ sent' = sent + 1
  /\ \E pkt \in Out[0] :
       net' = IF ~Ipv4Packet(pkt) \/ Lookup(pkt.dst) = 0 THEN net
              ELSE net \cup {Datagram(Lookup(pkt.dst), 0, Seal(0, Packet(pkt)), pkt.dst \in DOMAIN byIP)}
  /\ UNCHANGED <<keys, node, port, nextPort, byIP, last, route, got, uses>>

(* The client's udpToTun: what is not from the hub, or is no packet, is     *)
(* passed over.                                                             *)
ClientReceives(c) ==
  /\ node[c] = "up"
  /\ \E d \in net : d.to = port[c] /\
       LET m == Open(c, d.bytes) IN
       got' = IF d.from = 0 /\ m.type = "packet" /\ m.body # Empty
              THEN {[c |-> c, pkt |-> m.body, known |-> d.known]} ELSE got
  /\ UNCHANGED <<keys, node, port, nextPort, byIP, last, net, route, uses, sent>>

(* The hub's device or socket fails, or it is stopped: its table is gone.   *)
HubEnds ==
  /\ node[0] = "up" /\ node' = [node EXCEPT ![0] = "off"]
  /\ byIP' = [i \in {} |-> 0] /\ last' = 0 /\ route' = [route EXCEPT ![0] = NoGateway]
  /\ UNCHANGED <<keys, port, nextPort, net, got, uses, sent>>

Lose == \E d \in net : net' = net \ {d}
        /\ UNCHANGED <<keys, node, port, nextPort, byIP, last, route, got, uses, sent>>
Stray == /\ sent < MaxSent /\ sent' = sent + 1
         /\ \E b \in Foreign : \E to \in 0..MaxPort : net' = net \cup {Datagram(to, -1, b, FALSE)}
         /\ UNCHANGED <<keys, node, port, nextPort, byIP, last, route, got, uses>>

Step == \/ HubReceives \/ HubSends \/ HubEnds \/ Lose \/ Stray
        \/ \E n \in Nodes : OpenTun(n)
        \/ \E c \in Clients : \/ SendHello(c) \/ ClientSends(c) \/ ClientEnds(c) \/ Moves(c)
                              \/ ClientReceives(c)
Next == Step /\ Cardinality(net') <= MaxNet
Spec == Init /\ [][Next]_vars

----------------------------------------------------------------------------
(* A packet for an address that the hub has heard of comes out only at a    *)
(* client that spoke for that address, whatever moved, ended, was late or   *)
(* came twice; and it went through whole, from a hub with the same key      *)
(* (remember, lookup, open).  What the hub sends for an address it has not  *)
(* heard of may come out anywhere.                                          *)
Spoke(c, ip) == ip = Cidrs[c].ip \/ \E pkt \in Out[c] : pkt.src = ip
RightClient ==
  \A g \in got : /\ g.known => Spoke(g.c, g.pkt.dst)
                 /\ g.pkt \in Out[0] /\ KeyOf(g.c) = KeyOf(0)

(* The hub's table holds only addresses that a client had while it spoke    *)
(* for that tunnel address (remember).                                      *)
TableIsHeard == \A ip \in DOMAIN byIP : <<ip, byIP[ip]>> \in uses

(* The routes lead to an address of the tunnel's own network, unless that   *)
(* is a single host (subnetGateway).                                        *)
GatewayInside ==
  \A n \in Nodes : route[n] # NoGateway =>
    route[n] \in Address /\ (InNetwork(Cidrs[n], route[n]) <=> Cidrs[n].ones # 32)
=============================================================================
