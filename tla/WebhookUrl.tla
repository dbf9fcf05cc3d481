----------------------------- MODULE WebhookUrl -----------------------------
(***************************************************************************)
(* Where a webhook may point: assertWebhookUrlAllowed, the check of the    *)
(* URL of an endpoint that is created or changed.                          *)
(*                                                                         *)
(* A URL is what the WHATWG parser makes of it: a host is a name, as its   *)
(* labels in lower case, an IPv4 address, as its octets, or an IPv6        *)
(* address, as the two parts of its text around the "::".  A group of the  *)
(* text is a 16-bit number, or a dotted IPv4 address at the end.           *)
(***************************************************************************)
EXTENDS Integers, Sequences

Seqs == INSTANCE SequencesExt

Octets == 0..255
IPv4 == [1..4 -> Octets]

isPrivateIPv4(o) ==
    LET a == o[1]  b == o[2]  c == o[3] IN
    \/ a \in {0, 10, 127}
    \/ a = 100 /\ b >= 64 /\ b <= 127
    \/ a = 169 /\ b = 254
    \/ a = 172 /\ b >= 16 /\ b <= 31
    \/ a = 192 /\ b = 0 /\ c = 0
    \/ a = 192 /\ b = 168
    \/ a = 198 /\ b \in {18, 19}
    \/ a >= 224

Hex(n) == [dotted |-> FALSE, value |-> n]
Dotted(o) == [dotted |-> TRUE, octets |-> o]

parseGroup(g) ==
    IF g.dotted
    THEN <<256 * g.octets[1] + g.octets[2], 256 * g.octets[3] + g.octets[4]>>
    ELSE <<g.value>>

\* flatMap(parseGroup): all but the last are one number each.
toGroups(part) ==
    IF part = <<>> THEN <<>>
    ELSE [i \in 1..(Len(part) - 1) |-> part[i].value] \o parseGroup(part[Len(part)])

\* The eight groups of head::tail, or of head where there is no "::".
expandIPv6(address) ==
    LET head == toGroups(address.head)
        tail == toGroups(address.tail)
    IN IF ~address.compressed THEN head
       ELSE head \o [i \in 1..(8 - Len(head) - Len(tail)) |-> 0] \o tail

\* n & mask, of a mask that clears the bits below 2^k = low.
Masked(n, low) == n - (n % low)

isPrivateIPv6(address) ==
    LET g == expandIPv6(address)
        isMappedIPv4 == (\A i \in 1..5 : g[i] = 0) /\ g[6] = 65535
        isUnspecifiedOrLoopback == (\A i \in 1..7 : g[i] = 0) /\ g[8] \in {0, 1}
    IN IF isMappedIPv4
       THEN isPrivateIPv4(<<g[7] \div 256, g[7] % 256, g[8] \div 256, g[8] % 256>>)
       ELSE \/ isUnspecifiedOrLoopback
            \/ Masked(g[1], 512) = 64512      \* fc00::/7
            \/ Masked(g[1], 64) = 65152       \* fe80::/10
            \/ Masked(g[1], 256) = 65280      \* ff00::/8

INTERNAL_HOST_SUFFIXES ==
    {<<"localhost">>, <<"local">>, <<"internal">>, <<"localdomain">>, <<"lan">>,
     <<"home", "arpa">>}

isInternalName(labels) ==
    \/ labels = <<"localhost">>
    \/ \E suffix \in INTERNAL_HOST_SUFFIXES : Seqs!IsStrictSuffix(suffix, labels)

\* "allowed", or the error of the request.
assertWebhookUrlAllowed(url, allowPrivate) ==
    IF allowPrivate
       \/ /\ url.wellFormed /\ url.protocol = "https:" /\ ~url.credentials
          /\ CASE url.host.kind = "name" -> ~isInternalName(url.host.labels)
               [] url.host.kind = "IPv4" -> ~isPrivateIPv4(url.host.octets)
               [] url.host.kind = "IPv6" -> ~isPrivateIPv6(url.host.address)
    THEN "allowed" ELSE "UnprocessableEntityError"

-----------------------------------------------------------------------------
(* The reference: the blocks that RFC 6890 and its successors set aside,    *)
(* named in the comments of isPrivateIPv4, as their first 24 bits and the   *)
(* number of values these take.                                            *)

Prefix(a, b, c) == 65536 * a + 256 * b + c

Block(a, b, c, size) == [first |-> Prefix(a, b, c), size |-> size]

SpecialBlocks ==
    {Block(0, 0, 0, 65536), Block(10, 0, 0, 65536), Block(127, 0, 0, 65536),  \* /8
     Block(100, 64, 0, 16384),                                                \* /10
     Block(169, 254, 0, 256), Block(192, 168, 0, 256),                        \* /16
     Block(172, 16, 0, 4096),                                                 \* /12
     Block(192, 0, 0, 1),                                                     \* /24
     Block(198, 18, 0, 512),                                                  \* /15
     Block(224, 0, 0, 2097152)}                                               \* /3

InBlock(n, block) == block.first <= n /\ n < block.first + block.size

\* An IPv4 address is refused exactly if it is in one of the blocks set aside.
PrivateIsSpecial(o) ==
    isPrivateIPv4(o) <=> \E block \in SpecialBlocks : InBlock(Prefix(o[1], o[2], o[3]), block)

\* The texts of an IPv6 address: with or without a run of zeroes left out, and with the last
\* two groups in hexadecimal or dotted.
Words == 0..65535
IPv6 == [1..8 -> Words]

HexGroups(groups, from, to) == [k \in 1..(to - from + 1) |-> Hex(groups[from + k - 1])]

DottedGroups(groups, from) ==
    Append(HexGroups(groups, from, 6), Dotted(<<groups[7] \div 256, groups[7] % 256,
                                              groups[8] \div 256, groups[8] % 256>>))

ZeroRuns(groups) ==
    {run \in (1..8) \X (1..8) : run[1] <= run[2] /\ \A k \in run[1]..run[2] : groups[k] = 0}

TextsOf(groups) ==
    {[head |-> part, compressed |-> FALSE, tail |-> <<>>] :
        part \in {HexGroups(groups, 1, 8), DottedGroups(groups, 1)}}
    \cup {[head |-> HexGroups(groups, 1, run[1] - 1), compressed |-> TRUE,
           tail |-> HexGroups(groups, run[2] + 1, 8)] : run \in ZeroRuns(groups)}
    \cup {[head |-> HexGroups(groups, 1, run[1] - 1), compressed |-> TRUE,
           tail |-> DottedGroups(groups, run[2] + 1)] :
              run \in {z \in ZeroRuns(groups) : z[2] < 7}}

\* Whatever text an address has, its eight groups come out.
ExpandsRight(groups) == \A text \in TextsOf(groups) : expandIPv6(text) = groups

\* The blocks of IPv6 addresses that are set aside, and the mapped IPv4 addresses in one of
\* the blocks above.
SpecialIPv6(groups) ==
    \/ (\A i \in 1..7 : groups[i] = 0) /\ groups[8] \in {0, 1}      \* ::/127
    \/ groups[1] \in 64512..65023                                   \* fc00::/7
    \/ groups[1] \in 65152..65215                                   \* fe80::/10
    \/ groups[1] \in 65280..65535                                   \* ff00::/8
    \/ /\ (\A i \in 1..5 : groups[i] = 0) /\ groups[6] = 65535      \* ::ffff:0:0/96
       /\ \E block \in SpecialBlocks : InBlock(256 * groups[7] + groups[8] \div 256, block)

\* An IPv6 address is refused exactly if it is in one of these, however it is written.
PrivateIsSpecialIPv6(groups) ==
    \A text \in TextsOf(groups) : isPrivateIPv6(text) <=> SpecialIPv6(groups)
=============================================================================
