-------------------------- MODULE MCWebhookDelivery --------------------------
(* Two jobs for one endpoint and one for another.                          *)
EXTENDS WebhookDelivery, WebhookUrl, WebhookSignature, TLC

CONSTANTS j1, j2, j3, p1, p2

MCJobs == {j1, j2, j3}
MCEndpoints == {p1, p2}
MCTarget == [j \in MCJobs |-> IF j = j3 THEN p2 ELSE p1]

Symmetry == Permutations({j1, j2})

\* All jobs for one endpoint.
OneEndpoint == {p1}
OneTarget == [j \in MCJobs |-> p1]
TwoJobs == {j1, j2}
TwoTarget == [j \in TwoJobs |-> p1]

-----------------------------------------------------------------------------
(* The check of an endpoint's URL, a function of the URL alone, at the edges *)
(* of its ranges.                                                           *)

EdgeOctets == {0, 1, 15, 16, 17, 18, 19, 20, 31, 32, 63, 64, 127, 128, 167, 168, 169, 253, 254, 255}
EdgeAddresses == {<<a, b, c, 7>> : a \in Octets, b \in EdgeOctets, c \in {0, 1, 255}}

\* isPrivateIPv4 refuses the blocks it names, and nothing else.
ASSUME PrivateBlocks == \A o \in EdgeAddresses : PrivateIsSpecial(o)

\* expandIPv6 undoes the compression of the text, wherever its zeroes are.
ASSUME ExpandedText == \A groups \in [1..8 -> {0, 258}] : ExpandsRight(groups)

\* isPrivateIPv6 refuses the blocks it names, whatever the text, and looks through a mapped
\* address at the IPv4 address.
ASSUME PrivateIPv6Blocks ==
    /\ \A o \in EdgeAddresses :
          PrivateIsSpecialIPv6(<<0, 0, 0, 0, 0, 65535, 256 * o[1] + o[2], 256 * o[3] + o[4]>>)
    /\ \A first \in {0, 1, 8193, 64511, 64512, 65023, 65024, 65151, 65152, 65215, 65216, 65279,
                     65280, 65535}, last \in 0..2 :
          PrivateIsSpecialIPv6(<<first, 0, 0, 0, 0, 0, 0, last>>)

\* The whole check refuses what its parts refuse, and plain http, unless it is switched off.
ASSUME UrlCheck ==
    LET url(protocol, credentials, host) == [wellFormed |-> TRUE, protocol |-> protocol,
                                             credentials |-> credentials, host |-> host]
        name(labels) == [kind |-> "name", labels |-> labels]
        refused(u) == assertWebhookUrlAllowed(u, FALSE) # "allowed"
    IN /\ \A s \in INTERNAL_HOST_SUFFIXES :
             refused(url("https:", FALSE, name(<<"hooks">> \o s)))
       /\ \A labels \in {<<"localhost">>, <<"a", "b", "lan">>} :
             refused(url("https:", FALSE, name(labels)))
       /\ \A labels \in {<<"example", "com">>, <<"localhost", "org">>, <<"lan", "net">>,
                          <<"arpa">>} :
             /\ ~refused(url("https:", FALSE, name(labels)))
             /\ refused(url("http:", FALSE, name(labels)))
             /\ refused(url("https:", TRUE, name(labels)))
             /\ assertWebhookUrlAllowed(url("http:", TRUE, name(labels)), TRUE) = "allowed"
       /\ \A o \in EdgeAddresses :
             refused(url("https:", FALSE, [kind |-> "IPv4", octets |-> o])) <=> isPrivateIPv4(o)

-----------------------------------------------------------------------------
(* The signature of a delivery.                                             *)

ASSUME Signatures ==
    LET secrets == {"secret", "rotated"}
        bodies == {"body", "changed"}
        times == 0..3
        macs == [secret : secrets, timestamp : {1, 2}, body : bodies]
        parts == [key : {"t", "v1", "v0"},
                  value : {Missing, Word} \cup {NumberText(n) : n \in {1, 2}}
                             \cup {HexText(mac, TRUE) : mac \in macs}]
    IN /\ \A s \in secrets, b \in bodies, t, now \in times : SentIsTaken(s, b, t, 1, now)
       /\ \A header \in UNION {[1..n -> parts] : n \in 0..2},
             signed \in macs, now \in times :
             TakenAsSigned("secret", "body", header, 1, now, signed)
=============================================================================
