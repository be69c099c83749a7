--------------------------- MODULE NetworkAccess ---------------------------
(***************************************************************************)
(* The address lists of security/network_access.cpp: which client may      *)
(* connect.  An address is a number of Bits bits (32 in the code), or a    *)
(* text that inet_pton refuses (an IPv6 address, a name).  A rule is an    *)
(* address with or without "/prefix"; the prefix is the number that stoi   *)
(* makes of the text after the slash, whatever follows its digits, and a   *)
(* text of which it makes none is one out of range.                        *)
(***************************************************************************)
EXTENDS Integers, Sequences

CONSTANTS
    Bits,       \* 32
    NotIpv4     \* a text that is no IPv4 address

ASSUME NetworkAccessConstants ==
    /\ Bits \in Nat \ {0}
    /\ NotIpv4 \notin Nat

Addresses == 0..(2^Bits - 1)

Rule == [net : Addresses \cup {NotIpv4}, slash : BOOLEAN, prefix : -1..(Bits + 1)]

ParseIpv4(address) == address # NotIpv4

ParseCidr(rule) ==
    /\ ParseIpv4(rule.net)
    /\ rule.slash => rule.prefix \in 0..Bits

PrefixLen(rule) == IF rule.slash THEN rule.prefix ELSE Bits

\* x & (0xFFFFFFFF << (32 - len)): the low bits are cleared.
Masked(x, len) == x - (x % 2^(Bits - len))

\* Mutant of IpInCidr: the mask is one bit too short.
IpInWiderCidr(ip, network, len) ==
    len = 0 \/ Masked(ip, len - 1) = Masked(network, len - 1)

IpInCidr(ip, network, len) ==
    len = 0 \/ Masked(ip, len) = Masked(network, len)

IpMatchesRule(client, rule) ==
    /\ ParseIpv4(client)
    /\ ParseCidr(rule)
    /\ IpInCidr(client, rule.net, PrefixLen(rule))

MatchesAny(client, rules) == \E i \in DOMAIN rules : IpMatchesRule(client, rules[i])

\* The lists of AccessConfig.
AccessLists == [enabled : BOOLEAN,
                denied_hosts : Seq(Rule), denied_networks : Seq(Rule),
                allowed_hosts : Seq(Rule), allowed_networks : Seq(Rule)]

\* Denied first; without any allow list everybody else may come.
IsAllowed(client, access) ==
    /\ ~MatchesAny(client, access.denied_hosts)
    /\ ~MatchesAny(client, access.denied_networks)
    /\ \/ access.allowed_hosts = <<>> /\ access.allowed_networks = <<>>
       \/ MatchesAny(client, access.allowed_hosts)
       \/ MatchesAny(client, access.allowed_networks)

----------------------------------------------------------------------------
\* The same question asked bit by bit.

Bit(x, i) == (x \div 2^i) % 2

\* The addresses a rule stands for: those that share its first bits; none if the rule is
\* malformed.
Covered(rule) ==
    IF rule.net = NotIpv4 \/ (rule.slash /\ (rule.prefix < 0 \/ rule.prefix > Bits))
    THEN {}
    ELSE {a \in Addresses :
            \A i \in (Bits - PrefixLen(rule))..(Bits - 1) : Bit(a, i) = Bit(rule.net, i)}

CoveredBy(rules) == UNION {Covered(rules[i]) : i \in DOMAIN rules}

Admissible(access) ==
    (IF access.allowed_hosts \o access.allowed_networks = <<>> THEN Addresses
     ELSE CoveredBy(access.allowed_hosts \o access.allowed_networks))
    \ CoveredBy(access.denied_hosts \o access.denied_networks)
=============================================================================
