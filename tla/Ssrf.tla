-------------------------------- MODULE Ssrf --------------------------------
(***************************************************************************)
(* The address policy of outbound traffic (runlet-core/src/ssrf.rs): which *)
(* addresses count as internal, the check of a URL before it is used, and  *)
(* the filter that a connection applies to what the name resolves to then. *)
(* An address is the sequence of its octets, four or sixteen of them.      *)
(***************************************************************************)
EXTENDS Integers, Sequences

CONSTANTS
    Literal,   \* host of a URL -> the address it spells, for the hosts that are literals
    Lookups    \* other host -> the answers DNS may give it; {} is a failed lookup

-----------------------------------------------------------------------------

\* Ipv4Addr::is_loopback, is_private, is_link_local, is_broadcast, is_unspecified, then
\* shared address space, multicast and reserved.
IsPrivateV4(a) ==
    \/ a[1] = 127
    \/ a[1] = 10
    \/ a[1] = 172 /\ a[2] \in 16 .. 31
    \/ a[1] = 192 /\ a[2] = 168
    \/ a[1] = 169 /\ a[2] = 254
    \/ a = <<255, 255, 255, 255>>
    \/ a = <<0, 0, 0, 0>>
    \/ a[1] = 100 /\ a[2] \in 64 .. 127
    \/ a[1] >= 224

Zeros(a, from, to) == \A i \in from .. to : a[i] = 0
Embedded(a, from) == SubSeq(a, from, from + 3)

\* Ipv6Addr::to_ipv4_mapped, ::ffff:a.b.c.d.
MappedV4(a) == Zeros(a, 1, 10) /\ a[11] = 255 /\ a[12] = 255

\* The deprecated form ::a.b.c.d.
CompatibleV4(a) == Zeros(a, 1, 12)

\* 2002:a.b.c.d::, and 64:ff9b:: with the address in its last four octets.
SixToFour(a) == a[1] = 32 /\ a[2] = 2
Nat64(a) == SubSeq(a, 1, 4) = <<0, 100, 255, 155>>

IsPrivateV6(a) ==
    \/ Zeros(a, 1, 15) /\ a[16] \in {0, 1}
    \/ MappedV4(a) /\ IsPrivateV4(Embedded(a, 13))
    \/ a[1] \in {252, 253}
    \/ a[1] = 254 /\ a[2] \in 128 .. 191
    \/ a[1] = 255
    \/ CompatibleV4(a) /\ IsPrivateV4(Embedded(a, 13))
    \/ SixToFour(a) /\ IsPrivateV4(Embedded(a, 3))
    \/ Nat64(a) /\ IsPrivateV4(Embedded(a, 13))

IsPrivateIp(a) == IF Len(a) = 4 THEN IsPrivateV4(a) ELSE IsPrivateV6(a)

-----------------------------------------------------------------------------

\* What a lookup of the host may answer now.
Resolve(host) == IF host \in DOMAIN Literal THEN {{Literal[host]}} ELSE Lookups[host]

\* A URL has an IPv6 literal in brackets.  With them it is no address to host.parse and no
\* name to the lookup, which fails.
InBrackets(host) == host \in DOMAIN Literal /\ Len(Literal[host]) = 16
ResolveText(host) == IF InBrackets(host) THEN {{}} ELSE Resolve(host)

\* The check before the request: a literal, or every address found; a lookup that fails
\* passes.
BlockPrivateIp(found, allow_private) ==
    allow_private \/ \A a \in found : ~IsPrivateIp(a)

\* The resolver of the connection: the addresses it may use, none is an error.  It is not
\* asked for a host that is a literal.
ResolveFiltered(host, found, allow_private, bypass_hosts) ==
    IF host \in DOMAIN Literal \/ allow_private \/ host \in bypass_hosts THEN found
    ELSE {a \in found : ~IsPrivateIp(a)}
=============================================================================
