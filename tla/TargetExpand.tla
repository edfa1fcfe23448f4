---------------------------- MODULE TargetExpand ----------------------------
(***************************************************************************)
(* From the argument of scan or watch to the addresses it probes           *)
(* (internal/target): Expand counts through the addresses of a prefix with *)
(* a carry that wraps, asks of each whether the network contains it, stops *)
(* at a limit and drops the two ends.  An address is a number of Bits      *)
(* bits, 32 in the code.  net.ParseCIDR also accepts a prefix of an        *)
(* IPv4-mapped address such as ::ffff:10.0.0.0/120: then the loop counts   *)
(* through addresses with HighBits more bits (96), of which those whose    *)
(* high part is V4Block are IPv4.                                          *)
(***************************************************************************)
EXTENDS Integers, Sequences, FiniteSets

CONSTANTS
    Bits,           \* bits of an IPv4 address, 32 in the code
    HighBits,       \* bits of an IPv6 address above them, 96 in the code
    MappedOnes,     \* how many of those are ones in a mapped address, 16 in the code
    maxHosts        \* the limit, 65536 in the code

ASSUME ExpandAssumption ==
    /\ Bits \in Nat \ {0, 1} /\ HighBits \in Nat /\ MappedOnes \in 1..HighBits
    /\ maxHosts \in 2..(2^Bits - 1)

\* The high part of an IPv4-mapped address: zeros, then ones to its end.
V4Block == 2^MappedOnes - 1

Forms == {"address", "prefix", "mapped", "other"}

\* What the argument parses to.  "other" is an IPv6 address or prefix, or no
\* address at all: an error in every case.
Targets == [form : Forms, addr : 0..(2^Bits - 1), ones : 0..(Bits + HighBits)]

ValidTarget(t) ==
    CASE t.form = "prefix" -> t.ones <= Bits
      [] t.form = "mapped" -> TRUE
      [] OTHER             -> t.ones = 0

VARIABLES
    input,          \* the parsed argument
    step,           \* "parse", "loop", "expanded" or "error"
    current,        \* the loop variable
    hosts           \* the list built so far

expandVars == <<input, step, current, hosts>>

-----------------------------------------------------------------------------
(* net.IP and net.IPNet *)

Width == IF input.form = "mapped" THEN Bits + HighBits ELSE Bits

\* The addresses that share the first ones bits with an address.
BlockSize == 2^(Width - input.ones)

ParsedIP == IF input.form = "mapped" THEN V4Block * 2^Bits + input.addr ELSE input.addr

\* network.IP.Mask(network.Mask)
NetworkIP == (ParsedIP \div BlockSize) * BlockSize

IsV4(ip) == input.form # "mapped" \/ ip \div 2^Bits = V4Block
To4(ip) == ip % 2^Bits

\* network.Contains: an IPv4 address is never in an IPv6 network, nor the reverse.
Contains(ip) ==
    /\ IsV4(ip) <=> IsV4(NetworkIP)
    /\ ip \div BlockSize = NetworkIP \div BlockSize

\* inc: add one with carry; the last address wraps to zero.
Inc(ip) == (ip + 1) % 2^Width

-----------------------------------------------------------------------------
(* Expand *)

ExpandInit ==
    /\ input \in {t \in Targets : ValidTarget(t)}
    /\ step = "parse"
    /\ current = 0
    /\ hosts = <<>>

Parse ==
    /\ step = "parse"
    /\ CASE input.form = "other" ->
                step' = "error" /\ UNCHANGED <<current, hosts>>
         [] input.form = "address" ->
                step' = "expanded" /\ hosts' = <<input.addr>> /\ UNCHANGED current
         [] OTHER ->
                step' = "loop" /\ current' = NetworkIP /\ UNCHANGED hosts
    /\ UNCHANGED input

\* Mutation of Visit: what is not IPv4 is passed over without counting on.
VisitStuck ==
    /\ step = "loop" /\ Contains(current)
    /\ hosts' = IF IsV4(current) THEN Append(hosts, To4(current)) ELSE hosts
    /\ step' = IF Len(hosts') > maxHosts THEN "error" ELSE "loop"
    /\ current' = IF IsV4(current) THEN Inc(current) ELSE current
    /\ UNCHANGED input

\* Mutation of Visit: the limit is left to the end of the loop.
VisitUnlimited ==
    /\ step = "loop" /\ Contains(current)
    /\ hosts' = IF IsV4(current) THEN Append(hosts, To4(current)) ELSE hosts
    /\ current' = Inc(current)
    /\ UNCHANGED <<input, step>>

\* One round of the loop: an address that is not IPv4 is passed over.
Visit ==
    /\ step = "loop" /\ Contains(current)
    /\ hosts' = IF IsV4(current) THEN Append(hosts, To4(current)) ELSE hosts
    /\ step' = IF Len(hosts') > maxHosts THEN "error" ELSE "loop"
    /\ current' = Inc(current)
    /\ UNCHANGED input

\* Mutation of Trimmed: a prefix of two addresses loses both.
TrimmedPairs(list) ==
    IF Len(list) >= 2 /\ input.form = "prefix" /\ input.ones < Bits
    THEN SubSeq(list, 2, Len(list) - 1) ELSE list

\* The network and broadcast addresses go, but not those of a /31, and not those
\* of a prefix written in its IPv4-mapped form, whose mask has 128 bits.
Trimmed(list) ==
    IF Len(list) >= 2 /\ input.form = "prefix" /\ input.ones <= Bits - 2
    THEN SubSeq(list, 2, Len(list) - 1) ELSE list

Finish ==
    /\ step = "loop" /\ ~Contains(current)
    /\ hosts' = Trimmed(hosts)
    /\ step' = IF Trimmed(hosts) = <<>> THEN "error" ELSE "expanded"
    /\ UNCHANGED <<input, current>>

ExpandNext == Parse \/ Visit \/ Finish

ExpandSpec == ExpandInit /\ [][ExpandNext]_expandVars

\* The loop runs: Expand waits for nothing.
ExpandFairSpec == ExpandSpec /\ WF_expandVars(ExpandNext)

-----------------------------------------------------------------------------
(* Properties *)

\* The addresses of the target that hosts may have, counted and not looped over.
FirstHost ==
    LET trimmed == input.form = "prefix" /\ input.ones <= Bits - 2
        base    == To4(NetworkIP)
    IN  IF input.form = "address" THEN input.addr
        ELSE IF trimmed THEN base + 1 ELSE base

HostCount ==
    CASE input.form = "address" -> 1
      [] input.form = "prefix" /\ input.ones <= Bits - 2 -> BlockSize - 2
      [] OTHER -> BlockSize

\* The targets that have a list: a single address, or a prefix of IPv4 addresses
\* with no more of them than the limit, the two that are dropped included.
Expandable ==
    \/ input.form = "address"
    \/ /\ input.form \in {"prefix", "mapped"}
       /\ IsV4(NetworkIP)
       /\ BlockSize <= maxHosts

\* Expand returns every host address of the target once, in order, from the first
\* to the last, with a /31 and a /32 kept whole and a prefix at the end of the
\* address space not running into the addresses at its beginning; and it refuses
\* exactly the targets without hosts and those beyond the limit.
ExpandsToHostAddresses ==
    /\ step = "expanded" =>
        Expandable /\ hosts = [i \in 1..HostCount |-> FirstHost + i - 1]
    /\ step = "error" => ~Expandable

\* The list is at no time longer than the limit and one, and holds no address
\* twice, although the loop variable of a /0 wraps and the network contains it
\* again: the limit is what ends that loop.
ListStaysBounded ==
    /\ Len(hosts) <= maxHosts + 1
    /\ \A i, j \in DOMAIN hosts : hosts[i] = hosts[j] => i = j

\* Expand returns whatever it is given.  For a mapped prefix shorter than the
\* mapping itself it first counts through every address below the IPv4 block,
\* none of which it keeps: it ends, after as many rounds as there are of those.
ExpandReturns == <>(step \in {"expanded", "error"})
=============================================================================
