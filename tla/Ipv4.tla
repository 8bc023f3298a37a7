-------------------------------- MODULE Ipv4 --------------------------------
(* IPv4 addresses as cloak and plate compute with them: four bytes, each of *)
(* which wraps at 256.                                                      *)
EXTENDS Integers, Sequences, FiniteSets, SequencesExt

Byte == 0..255
Address == [1..4 -> Byte]
Cidr(ip, ones) == [ip |-> ip, ones |-> ones]

(* The bits of byte i that a prefix leaves to the hosts, as a power of two. *)
HostPart(ones, i) == LET left == 8 * i - ones IN 2 ^ (IF left < 0 THEN 0 ELSE IF left > 8 THEN 8 ELSE left)
NetworkOf(c) == [i \in 1..4 |-> c.ip[i] - (c.ip[i] % HostPart(c.ones, i))]      \* net.ParseCIDR
LastIP(c) == [i \in 1..4 |-> NetworkOf(c)[i] + HostPart(c.ones, i) - 1]

(* The next address: a byte that wraps to 0 carries into the one before it. *)
IncIP(ip) ==
  [i \in 1..4 |-> IF \A j \in (i + 1)..4 : ip[j] = 255 THEN (ip[i] + 1) % 256 ELSE ip[i]]

(* plate's expandCIDR: a walk from the first address of the network to its  *)
(* last one; up to /30 the two ends are passed over.                        *)
SkipEnds(c) == c.ones <= 30
Walk(c) ==
  FoldLeft(LAMBDA out, k : IF Last(out) = LastIP(c) THEN out ELSE Append(out, IncIP(Last(out))),
           <<NetworkOf(c)>>, [k \in 1..(2 ^ (32 - c.ones) - 1) |-> k])
ExpandCIDR(c) ==
  IF c.ones = 32 THEN <<c.ip>>
  ELSE IF SkipEnds(c) THEN SubSeq(Walk(c), 2, Len(Walk(c)) - 1) ELSE Walk(c)

(* parsePoolSpec: the parts of the text one after the other, each address   *)
(* once; a part that is no address, or no host at all, refuses the whole.   *)
Part(kind, ip, ones) == [kind |-> kind, ip |-> ip, ones |-> ones]
PartIPs(p) ==
  CASE p.kind = "cidr" -> ExpandCIDR(Cidr(p.ip, p.ones))
    [] p.kind = "host" -> <<p.ip>>
    [] OTHER -> <<>>           \* a blank part
AppendNew(out, ip) == IF Contains(out, ip) THEN out ELSE Append(out, ip)
ParsePoolSpec(spec) ==
  IF \E i \in DOMAIN spec : spec[i].kind \in {"malformed", "ipv6 cidr"} THEN <<>>
  ELSE FoldLeft(AppendNew, <<>>, FlattenSeq([i \in DOMAIN spec |-> PartIPs(spec[i])]))

(* cloak's subnetGateway: the address after the network's.                  *)
SubnetGateway(c) == IncIP(NetworkOf(c))
InNetwork(c, ip) == NetworkOf(Cidr(ip, c.ones)) = NetworkOf(c)

(* What a pool should be, said without the walk: of a part the addresses    *)
(* that share its prefix, up to /30 without the lowest and the highest one. *)
HostsOf(p) ==
  CASE p.kind = "host" -> {p.ip}
    [] p.kind = "cidr" ->
         LET size == HostPart(p.ones, 4)          \* for prefixes from /24
             inside == {b \in Byte : b \div size = p.ip[4] \div size}
         IN  {[p.ip EXCEPT ![4] = b] :
                b \in {x \in inside : p.ones > 30 \/ \E lo, hi \in inside : lo < x /\ x < hi}}
    [] OTHER -> {}
=============================================================================
