--------------------------- MODULE WebhookSignature ---------------------------
(***************************************************************************)
(* The signature of a delivery: signWebhookPayload, by which the worker    *)
(* signs a body, and verifyWebhookSignature, by which a receiver tells     *)
(* whether it did and not too long ago.                                    *)
(*                                                                         *)
(* HMAC-SHA256 is ideal here: equal only for equal inputs.  A header is    *)
(* its parts between the commas, each a key and the value after the "=".   *)
(* Timestamps are whole seconds, as the signer writes them.  A value is    *)
(* "missing" (no "=", or nothing after it), a word that is no number, a    *)
(* number, or a text of hexadecimal digits with or without others after.   *)
(***************************************************************************)
EXTENDS Integers, Sequences

computeHmac(secret, timestamp, body) ==
    [secret |-> secret, timestamp |-> timestamp, body |-> body]

Missing == [kind |-> "missing"]
Word == [kind |-> "word"]
NumberText(n) == [kind |-> "number", value |-> n]
HexText(mac, others) == [kind |-> "hex", mac |-> mac, others |-> others]

Part(key, value) == [key |-> key, value |-> value]

\* `t=${timestamp},v1=${signature}`
SignedHeader(secret, body, timestamp) ==
    <<Part("t", NumberText(timestamp)),
      Part("v1", HexText(computeHmac(secret, timestamp, body), FALSE))>>

\* The map made of the parts: of those with one key, the last stays.
ValueOf(header, key) ==
    LET at == {i \in DOMAIN header : header[i].key = key} IN
    IF at = {} THEN Missing
    ELSE header[CHOOSE i \in at : \A j \in at : j <= i].value

\* Buffer.from(signature, 'hex') reads up to the first other digit.
Decodes(signature, mac) == signature.kind = "hex" /\ signature.mac = mac

verifyWebhookSignature(secret, body, header, toleranceSeconds, now) ==
    LET t == ValueOf(header, "t")
        v1 == ValueOf(header, "v1")
        age == now - t.value
    IN IF t = Missing \/ v1 = Missing \/ t.kind # "number" THEN "malformed-header"
       ELSE IF age > toleranceSeconds \/ -age > toleranceSeconds
            THEN "timestamp-outside-tolerance"
       ELSE IF ~Decodes(v1, computeHmac(secret, t.value, body)) THEN "signature-mismatch"
       ELSE "ok"

-----------------------------------------------------------------------------
Values(Times, Macs) ==
    {Missing, Word} \cup {NumberText(n) : n \in Times}
        \cup {HexText(mac, others) : mac \in Macs, others \in BOOLEAN}

Headers(Keys, Times, Macs) == Seq([key : Keys, value : Values(Times, Macs)])

\* docs/adr/0010: the time is part of what is signed.  A signature made at one time is
\* taken with the secret, the body and the time it was made for and with no other, while
\* that time is near enough.
TakenAsSigned(secret, body, header, tolerance, now, signed) ==
    ValueOf(header, "v1") \in {HexText(signed, others) : others \in BOOLEAN} =>
        (verifyWebhookSignature(secret, body, header, tolerance, now) = "ok" <=>
            /\ signed = computeHmac(secret, signed.timestamp, body)
            /\ ValueOf(header, "t") = NumberText(signed.timestamp)
            /\ signed.timestamp - tolerance <= now /\ now <= signed.timestamp + tolerance)

\* What the worker sends, the receiver takes, for as long as the tolerance says.
SentIsTaken(secret, body, timestamp, tolerance, now) ==
    verifyWebhookSignature(secret, body, SignedHeader(secret, body, timestamp), tolerance, now)
        = "ok" <=> timestamp - tolerance <= now /\ now <= timestamp + tolerance
=============================================================================
