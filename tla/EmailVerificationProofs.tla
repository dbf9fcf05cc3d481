----------------------- MODULE EmailVerificationProofs -----------------------
(***************************************************************************)
(* Theorems about RateLimiter and EmailVerification: for any number of     *)
(* attempts, of sendings and of links and any maxima, a window lets no     *)
(* more through than the maximum, the ceiling of links is overrun by the   *)
(* outdated counts only, and a consumed link leaves no other to use.       *)
(***************************************************************************)
EXTENDS EmailVerification, FiniteSetTheorems, SequenceTheorems, TLAPS

-----------------------------------------------------------------------------
(* The rate limiter.                                                       *)

\* The first attempt of a window, between INCR and PEXPIRE.
IsFirst(a) == gate[a] = "first"

\* What the properties rest on: a window has one first attempt, which holds the key
\* without an expiry, and lets nobody through that it has not counted.
LimiterInv ==
    /\ LimiterTypeOK
    /\ IsFiniteSet(windowPassed)
    /\ Cardinality(windowPassed) <= maxAttempts
    /\ Cardinality(windowPassed) <= count
    /\ \A a, b \in Attempts : IsFirst(a) /\ IsFirst(b) => a = b
    /\ \A a \in Attempts : IsFirst(a) => count > 0 /\ ~expiring
    /\ expiring => count > 0
    /\ count > 0 /\ ~expiring => redisFaults > 0 \/ \E a \in Attempts : IsFirst(a)

\* Adding one to a finite set adds at most one to its size.
LEMMA OneMore ==
    ASSUME NEW S, IsFiniteSet(S), NEW x
    PROVE  /\ IsFiniteSet(S \cup {x})
           /\ Cardinality(S) \in Nat
           /\ Cardinality(S \cup {x}) \in Nat
           /\ Cardinality(S \cup {x}) <= Cardinality(S) + 1
<1>1. Cardinality(S) \in Nat
  BY FS_CardinalityType
<1>2. /\ IsFiniteSet(S \cup {x})
      /\ Cardinality(S \cup {x}) = IF x \in S THEN Cardinality(S) ELSE Cardinality(S) + 1
  BY FS_AddElement
<1>3. QED BY <1>1, <1>2

\* Taking one away leaves no more than there were.
LEMMA OneLess ==
    ASSUME NEW S, IsFiniteSet(S), NEW x
    PROVE  /\ IsFiniteSet(S \ {x})
           /\ Cardinality(S) \in Nat
           /\ Cardinality(S \ {x}) \in Nat
           /\ Cardinality(S \ {x}) <= Cardinality(S)
<1>1. Cardinality(S) \in Nat
  BY FS_CardinalityType
<1>2. /\ IsFiniteSet(S \ {x})
      /\ Cardinality(S \ {x}) = IF x \in S THEN Cardinality(S) - 1 ELSE Cardinality(S)
  BY FS_RemoveElement
<1>3. Cardinality(S \ {x}) \in Nat
  BY <1>2, FS_CardinalityType
<1>4. QED BY <1>1, <1>2, <1>3

\* The counter starts without a key.
LEMMA LimiterInitInv == LimiterInit => LimiterInv
<1>1. IsFiniteSet({}) /\ Cardinality({}) = 0
  BY FS_EmptySet
<1> SUFFICES ASSUME LimiterInit PROVE LimiterInv
  OBVIOUS
<1>3. LimiterTypeOK
  <2>1. redisFaults \in 0..MaxRedisFaults
    BY RateLimiterConstants DEF LimiterInit
  <2>2. gate \in [Attempts -> Gates]
    BY DEF LimiterInit, Gates
  <2>3. QED BY <2>1, <2>2 DEF LimiterInit, LimiterTypeOK
<1>4. \A a \in Attempts : ~IsFirst(a)
  BY DEF LimiterInit, IsFirst
<1>5. QED BY <1>1, <1>3, <1>4, RateLimiterConstants DEF LimiterInit, LimiterInv

\* INCR.
LEMMA CountKeepsInv ==
    ASSUME LimiterInv, NEW a \in Attempts, Count(a)
    PROVE  LimiterInv'
<1>1. LimiterTypeOK'
  BY DEF LimiterInv, LimiterTypeOK, Count, GoesTo, Gates
<1>2. /\ IsFiniteSet(windowPassed)'
      /\ (Cardinality(windowPassed) <= maxAttempts)'
      /\ (Cardinality(windowPassed) <= count)'
  <2>1. /\ IsFiniteSet(windowPassed \cup {a})
        /\ Cardinality(windowPassed) \in Nat
        /\ Cardinality(windowPassed \cup {a}) \in Nat
        /\ Cardinality(windowPassed \cup {a}) <= Cardinality(windowPassed) + 1
    BY OneMore DEF LimiterInv
  <2>2. count' = count + 1 /\ count \in Nat
    BY DEF LimiterInv, LimiterTypeOK, Count
  <2>3. CASE count' <= maxAttempts
    <3>1. windowPassed' = windowPassed \cup {a}
      BY <2>3 DEF Count
    <3>2. QED BY <2>1, <2>2, <2>3, <3>1, RateLimiterConstants DEF LimiterInv
  <2>4. CASE ~(count' <= maxAttempts)
    <3>1. windowPassed' = windowPassed
      BY <2>4 DEF Count
    <3>2. QED BY <2>1, <2>2, <3>1, RateLimiterConstants DEF LimiterInv
  <2>5. QED BY <2>3, <2>4
<1>3. CASE count = 0
  <2>1. ~expiring /\ \A b \in Attempts : ~IsFirst(b)
    BY <1>3 DEF LimiterInv
  <2>2. count' = 1 /\ expiring' = expiring
    BY <1>3 DEF Count
  <2>3. IsFirst(a)' /\ \A b \in Attempts : IsFirst(b)' => b = a
    BY <2>1, <2>2 DEF LimiterInv, LimiterTypeOK, Count, GoesTo, IsFirst
  <2>4. QED BY <1>1, <1>2, <2>1, <2>2, <2>3 DEF LimiterInv
<1>4. CASE count > 0
  <2>1. count' > 1 /\ count' > 0 /\ UNCHANGED <<expiring, redisFaults>>
    BY <1>4 DEF LimiterInv, LimiterTypeOK, Count
  <2>2. \A b \in Attempts : IsFirst(b)' <=> IsFirst(b)
    BY <2>1 DEF LimiterInv, LimiterTypeOK, Count, GoesTo, IsFirst
  <2>3. ~expiring => redisFaults > 0 \/ \E b \in Attempts : IsFirst(b)
    BY <1>4 DEF LimiterInv
  <2>4. (count > 0 /\ ~expiring => redisFaults > 0 \/ \E b \in Attempts : IsFirst(b))'
    BY <2>1, <2>2, <2>3
  <2>5. \A b \in Attempts : IsFirst(b)' => count' > 0 /\ ~expiring'
    BY <2>1, <2>2 DEF LimiterInv
  <2>6. \A b, c \in Attempts : IsFirst(b)' /\ IsFirst(c)' => b = c
    BY <2>2 DEF LimiterInv
  <2>7. (expiring => count > 0)'
    BY <2>1
  <2>8. QED BY <1>1, <1>2, <2>4, <2>5, <2>6, <2>7 DEF LimiterInv
<1>5. count = 0 \/ count > 0
  BY DEF LimiterInv, LimiterTypeOK
<1>6. QED BY <1>3, <1>4, <1>5

\* PEXPIRE.
LEMMA SetExpiryKeepsInv ==
    ASSUME LimiterInv, NEW a \in Attempts, SetExpiry(a)
    PROVE  LimiterInv'
<1>1. LimiterTypeOK'
  BY DEF LimiterInv, LimiterTypeOK, SetExpiry, GoesTo, Gates
<1>2. UNCHANGED <<count, redisFaults, windowPassed>> /\ expiring'
  BY DEF LimiterInv, SetExpiry, IsFirst
<1>3. \A b \in Attempts : ~IsFirst(b)'
  BY DEF LimiterInv, LimiterTypeOK, SetExpiry, GoesTo, IsFirst
<1>4. count > 0
  BY DEF LimiterInv, SetExpiry, IsFirst
<1>5. QED BY <1>1, <1>2, <1>3, <1>4 DEF LimiterInv

\* A command that fails counts as a fault, so the key may be left without an expiry.
LEMMA CommandFailsKeepsInv ==
    ASSUME LimiterInv, NEW a \in Attempts, CommandFails(a)
    PROVE  LimiterInv'
<1>1. LimiterTypeOK'
  <2>1. redisFaults' \in 0..MaxRedisFaults
    BY RateLimiterConstants DEF LimiterInv, LimiterTypeOK, CommandFails
  <2>2. gate' \in [Attempts -> Gates]
    BY DEF LimiterInv, LimiterTypeOK, CommandFails, GoesTo, Gates
  <2>3. count' \in Nat /\ expiring' \in BOOLEAN
    <3>1. CASE gate[a] = "outside" /\ count' \in {count, count + 1} /\ UNCHANGED expiring
      BY <3>1 DEF LimiterInv, LimiterTypeOK
    <3>2. CASE gate[a] = "first" /\ expiring' \in BOOLEAN /\ UNCHANGED count
      BY <3>2 DEF LimiterInv, LimiterTypeOK
    <3>3. QED BY <3>1, <3>2 DEF CommandFails
  <2>4. QED BY <2>1, <2>2, <2>3 DEF LimiterInv, LimiterTypeOK, CommandFails
<1>2. redisFaults' > 0
  BY DEF LimiterInv, LimiterTypeOK, CommandFails
<1>3. \A b \in Attempts : IsFirst(b)' => IsFirst(b) /\ b # a
  BY DEF LimiterInv, LimiterTypeOK, CommandFails, GoesTo, IsFirst
<1>4. count' \in Nat /\ count' >= count
  BY DEF LimiterInv, LimiterTypeOK, CommandFails
<1>5. /\ IsFiniteSet(windowPassed)'
      /\ (Cardinality(windowPassed) <= maxAttempts)'
      /\ (Cardinality(windowPassed) <= count)'
  <2>1. /\ IsFiniteSet(windowPassed \ {a})
        /\ Cardinality(windowPassed) \in Nat
        /\ Cardinality(windowPassed \ {a}) \in Nat
        /\ Cardinality(windowPassed \ {a}) <= Cardinality(windowPassed)
    BY OneLess DEF LimiterInv
  <2>2. windowPassed' = windowPassed \ {a} /\ count \in Nat
    BY DEF CommandFails, LimiterInv, LimiterTypeOK
  <2>3. QED BY <1>4, <2>1, <2>2, RateLimiterConstants DEF LimiterInv
<1>6. CASE gate[a] = "first"
  <2>1. \A b \in Attempts : ~IsFirst(b)'
    BY <1>3, <1>6 DEF LimiterInv, IsFirst
  <2>2. count' = count /\ count > 0
    BY <1>6 DEF LimiterInv, CommandFails, IsFirst
  <2>3. QED BY <1>1, <1>2, <1>5, <2>1, <2>2 DEF LimiterInv
<1>7. CASE gate[a] = "outside"
  <2>1. expiring' = expiring
    BY <1>7 DEF CommandFails
  <2>2. \A b \in Attempts : IsFirst(b)' => count' > 0
    BY <1>3, <1>4 DEF LimiterInv, LimiterTypeOK
  <2>3. expiring' => count' > 0
    BY <1>4, <2>1 DEF LimiterInv, LimiterTypeOK
  <2>4. QED BY <1>1, <1>2, <1>3, <1>5, <2>1, <2>2, <2>3 DEF LimiterInv
<1>8. QED BY <1>6, <1>7 DEF CommandFails

\* The key goes; no first attempt is left to be, for its key has no expiry.
LEMMA WindowEndsKeepsInv ==
    ASSUME LimiterInv, WindowEnds
    PROVE  LimiterInv'
<1>1. LimiterTypeOK'
  BY DEF LimiterInv, LimiterTypeOK, WindowEnds
<1>2. IsFiniteSet({}) /\ Cardinality({}) = 0
  BY FS_EmptySet
<1>3. \A b \in Attempts : ~IsFirst(b)'
  BY DEF LimiterInv, WindowEnds, IsFirst
<1>4. windowPassed' = {} /\ count' = 0 /\ ~expiring'
  BY DEF WindowEnds
<1>5. QED BY <1>1, <1>2, <1>3, <1>4, RateLimiterConstants DEF LimiterInv

\* Every step of the limiter keeps the invariant.
LEMMA LimiterNextInv == LimiterInv /\ [LimiterNext]_limiter => LimiterInv'
<1> SUFFICES ASSUME LimiterInv, [LimiterNext]_limiter PROVE LimiterInv'
  OBVIOUS
<1>2. CASE UNCHANGED limiter
  BY <1>2 DEF limiter, LimiterInv, LimiterTypeOK, IsFirst
<1>3. CASE LimiterNext
  BY <1>3, CountKeepsInv, SetExpiryKeepsInv, CommandFailsKeepsInv, WindowEndsKeepsInv
     DEF LimiterNext
<1>4. QED BY <1>2, <1>3

\* The invariant says all that LimiterWindow says, and more.
LEMMA LimiterInvWindow == LimiterInv => LimiterWindow
BY DEF LimiterInv, LimiterWindow, IsFirst

\* rate-limit.middleware.ts: whatever the number of attempts and processes, a window lets
\* through at most the maximum, and only a failed command can leave it without an end.
THEOREM WindowHolds == LimiterSpec => []LimiterWindow
<1>1. LimiterSpec => []LimiterInv
  BY LimiterInitInv, LimiterNextInv, PTL DEF LimiterSpec
<1>2. QED BY <1>1, LimiterInvWindow, PTL

-----------------------------------------------------------------------------
(* The verification links.                                                 *)

VerificationLink == [used : BOOLEAN, recent : BOOLEAN, expired : BOOLEAN]

\* The links of the hour that were issued upon a count that still held.
Reckoned == Recent \ blind

Shape ==
    /\ verified \in BOOLEAN /\ proved \in BOOLEAN
    /\ links \in Seq(VerificationLink)
    /\ sentBy \in Seq(Sendings) /\ Len(sentBy) = Len(links)
    /\ mailed \subseteq DOMAIN links /\ blind \subseteq DOMAIN links
    /\ outdated \subseteq Sendings /\ straddlers \subseteq Sendings
    /\ sending \in [Sendings -> Stages]
    /\ mailing \in [Sendings -> 0..Len(links)]
    /\ sendFaults \in 0..MaxSendFaults /\ hours \in 0..MaxHours

\* A sending that has its e-mail job to add has a link of its own, which nobody was mailed.
OwnLinks ==
    \A s \in Sendings : sending[s] = "mailing" =>
        mailing[s] \in DOMAIN links \ mailed /\ sentBy[mailing[s]] = s

\* A sending past its count, if the count still holds, has room for its link.
Room ==
    /\ Cardinality(Reckoned) <= maxPerHour
    /\ \A s \in Sendings \ outdated :
          sending[s] = "issuing" => Cardinality(Reckoned) < maxPerHour

\* Once a link has been consumed, only sendings past their check will add another, and
\* only theirs are left to use.
Burned ==
    proved => /\ verified
              /\ \A s \in Sendings : sending[s] \in {"checked", "issuing"} => s \in straddlers
              /\ \A l \in DOMAIN links : Usable(l) => sentBy[l] \in straddlers

VerificationInv == LimiterInv /\ Shape /\ OwnLinks /\ Room /\ Burned

\* The rows and the links counted in the hour.
LEMMA LinkRows ==
    ASSUME Shape
    PROVE  /\ Len(links) \in Nat /\ DOMAIN links = 1..Len(links)
           /\ DOMAIN sentBy = DOMAIN links
           /\ \A l \in DOMAIN links : links[l] \in VerificationLink /\ sentBy[l] \in Sendings
           /\ IsFiniteSet(Recent) /\ IsFiniteSet(Reckoned)
           /\ Cardinality(Recent) \in Nat /\ Cardinality(Reckoned) \in Nat
           /\ Cardinality(Reckoned) <= Cardinality(Recent)
<1>1. /\ Len(links) \in Nat /\ DOMAIN links = 1..Len(links)
      /\ DOMAIN sentBy = DOMAIN links
  BY DEF Shape
<1>2. \A l \in DOMAIN links : links[l] \in VerificationLink /\ sentBy[l] \in Sendings
  BY <1>1 DEF Shape
<1>3. IsFiniteSet(1..Len(links))
  BY <1>1, FS_Interval
<1>4. Recent \in SUBSET (1..Len(links))
  BY <1>1 DEF Recent
<1>5. IsFiniteSet(Recent)
  BY <1>3, <1>4, FS_Subset
<1>6. Reckoned \in SUBSET Recent
  BY DEF Reckoned
<1>7. IsFiniteSet(Reckoned) /\ Cardinality(Reckoned) <= Cardinality(Recent)
  BY <1>5, <1>6, FS_Subset
<1>8. Cardinality(Recent) \in Nat /\ Cardinality(Reckoned) \in Nat
  BY <1>5, <1>7, FS_CardinalityType
<1>9. QED BY <1>1, <1>2, <1>5, <1>7, <1>8

\* Rows rewritten in place are a sequence of the same length.
LEMMA Rewritten ==
    ASSUME NEW n \in Nat, NEW f \in [1..n -> VerificationLink]
    PROVE  f \in Seq(VerificationLink) /\ Len(f) = n /\ DOMAIN f = 1..n
OBVIOUS

\* Room rests on the links of the hour that are not blind, and on who is past its count.
LEMMA RoomKept ==
    ASSUME Shape, Room, Reckoned' \subseteq Reckoned, outdated \subseteq outdated',
           \A s \in Sendings : sending'[s] = "issuing" => sending[s] = "issuing"
    PROVE  Room'
<1>1. IsFiniteSet(Reckoned) /\ Cardinality(Reckoned) \in Nat
  BY LinkRows
<1>2. Reckoned' \in SUBSET Reckoned
  OBVIOUS
<1>3. IsFiniteSet(Reckoned') /\ Cardinality(Reckoned') <= Cardinality(Reckoned)
  BY <1>1, <1>2, FS_Subset
<1>4. Cardinality(Reckoned') \in Nat
  BY <1>3, FS_CardinalityType
<1>5. \A s \in Sendings \ outdated' : sending'[s] = "issuing" => Cardinality(Reckoned') < maxPerHour
  BY <1>1, <1>3, <1>4, EmailVerificationConstants DEF Room
<1>6. QED BY <1>1, <1>3, <1>4, <1>5, EmailVerificationConstants DEF Room

LEMMA VerificationInitInv == VerificationInit => VerificationInv
<1> SUFFICES ASSUME VerificationInit PROVE VerificationInv
  OBVIOUS
<1>1. LimiterInv
  BY LimiterInitInv DEF VerificationInit
<1>2. PICK s \in Sendings : sending = [t \in Sendings |-> IF t = s THEN "issuing" ELSE "new"]
  BY DEF VerificationInit
<1>3. links = <<>> /\ sentBy = <<>> /\ mailed = {} /\ blind = {}
  BY DEF VerificationInit
<1>4. DOMAIN links = {} /\ Len(links) = 0 /\ Len(sentBy) = 0
  BY <1>3
<1>5. Shape
  <2>1. links \in Seq(VerificationLink) /\ sentBy \in Seq(Sendings)
    BY <1>3
  <2>2. sending \in [Sendings -> Stages]
    BY <1>2 DEF Stages
  <2>3. mailing \in [Sendings -> 0..Len(links)]
    BY <1>4 DEF VerificationInit
  <2>4. sendFaults \in 0..MaxSendFaults /\ hours \in 0..MaxHours
    BY EmailVerificationConstants DEF VerificationInit
  <2>5. QED BY <1>3, <1>4, <2>1, <2>2, <2>3, <2>4 DEF VerificationInit, Shape
<1>6. OwnLinks
  BY <1>2 DEF OwnLinks
<1>7. Room
  <2>1. Reckoned = {}
    BY <1>4 DEF Reckoned, Recent
  <2>2. Cardinality(Reckoned) = 0
    BY <2>1, FS_EmptySet
  <2>3. QED BY <2>2, EmailVerificationConstants DEF Room
<1>8. Burned
  BY DEF VerificationInit, Burned
<1>9. QED BY <1>1, <1>5, <1>6, <1>7, <1>8 DEF VerificationInv

\* A sending that goes on without issuing: its check, its e-mail job, a fault.
LEMMA AdvanceKeepsInv ==
    ASSUME Shape, OwnLinks, Room, Burned, NEW s \in Sendings, NEW stage \in Stages,
           Advances(s, stage),
           stage # "mailing",
           stage = "issuing" => sending[s] = "checked" /\ Cardinality(Recent) < maxPerHour,
           stage = "checked" => ~verified,
           UNCHANGED <<verified, links, mailing, hours, traces>>,
           mailed' \subseteq DOMAIN links, mailed \subseteq mailed',
           \A l \in mailed' \ mailed : sentBy[l] = s,
           sendFaults' \in 0..MaxSendFaults
    PROVE  Shape' /\ OwnLinks' /\ Room' /\ Burned'
<1>1. sending' \in [Sendings -> Stages] /\ sending'[s] = stage
      /\ \A t \in Sendings \ {s} : sending'[t] = sending[t]
  BY DEF Shape, Advances
<1>2. Shape'
  BY <1>1 DEF Shape, traces
<1>3. OwnLinks'
  <2>1. \A t \in Sendings : sending'[t] = "mailing" => t # s /\ sending[t] = "mailing"
    BY <1>1
  <2>2. \A t \in Sendings : sending'[t] = "mailing" =>
            mailing[t] \in DOMAIN links \ mailed' /\ sentBy[mailing[t]] = t
    BY <2>1 DEF OwnLinks
  <2>3. UNCHANGED <<links, mailing, sentBy>>
    BY DEF traces
  <2>4. QED BY <2>2, <2>3 DEF OwnLinks
<1>4. Reckoned' = Reckoned /\ outdated' = outdated
  BY DEF Reckoned, Recent, traces
<1>5. Room'
  <2>1. CASE stage = "issuing"
    <3>1. Cardinality(Reckoned) < maxPerHour
      BY <2>1, LinkRows, EmailVerificationConstants
    <3>2. Cardinality(Reckoned) <= maxPerHour
      BY DEF Room
    <3>3. QED BY <1>4, <3>1, <3>2 DEF Room
  <2>2. CASE stage # "issuing"
    BY <1>1, <1>4, <2>2, RoomKept
  <2>3. QED BY <2>1, <2>2
<1>6. Burned'
  <2>1. \A l \in DOMAIN links : Usable(l)' <=> Usable(l)
    BY DEF Usable
  <2>2. proved' => proved /\ verified' /\ straddlers' = straddlers
    BY DEF Burned, traces
  <2>3. \A t \in Sendings :
            proved /\ sending'[t] \in {"checked", "issuing"} => sending[t] \in {"checked", "issuing"}
    BY <1>1 DEF Burned
  <2>4. QED BY <2>1, <2>2, <2>3 DEF Burned, traces
<1>7. QED BY <1>2, <1>3, <1>5, <1>6

LEMMA ResendKeepsInv ==
    ASSUME Shape, OwnLinks, Room, Burned, NEW s \in Sendings,
           Resend(s) \/ CountRecent(s) \/ Mail(s) \/ SendFault(s)
    PROVE  Shape' /\ OwnLinks' /\ Room' /\ Burned'
<1>1. CASE Resend(s)
  <2> DEFINE stage == IF verified THEN "over" ELSE "checked"
  <2>1. /\ stage \in Stages /\ stage # "mailing" /\ stage # "issuing" /\ Advances(s, stage)
        /\ stage = "checked" => ~verified
    BY <1>1 DEF Resend, Stages
  <2>2. /\ UNCHANGED <<verified, links, mailing, hours, traces, mailed>>
        /\ sendFaults' = sendFaults
    BY <1>1 DEF Resend, tokens
  <2>3. mailed' \subseteq DOMAIN links /\ sendFaults' \in 0..MaxSendFaults
    BY <2>2 DEF Shape
  <2> HIDE DEF stage
  <2>4. QED BY <2>1, <2>2, <2>3, AdvanceKeepsInv
<1>2. CASE CountRecent(s)
  <2> DEFINE stage == IF Cardinality(Recent) < maxPerHour THEN "issuing" ELSE "over"
  <2>1. /\ stage \in Stages /\ stage # "mailing" /\ stage # "checked" /\ Advances(s, stage)
        /\ stage = "issuing" => sending[s] = "checked" /\ Cardinality(Recent) < maxPerHour
    BY <1>2 DEF CountRecent, Stages
  <2>2. /\ UNCHANGED <<verified, links, mailing, hours, traces, mailed>>
        /\ sendFaults' = sendFaults
    BY <1>2 DEF CountRecent, tokens
  <2>3. mailed' \subseteq DOMAIN links /\ sendFaults' \in 0..MaxSendFaults
    BY <2>2 DEF Shape
  <2> HIDE DEF stage
  <2>4. QED BY <2>1, <2>2, <2>3, AdvanceKeepsInv
<1>3. CASE Mail(s)
  <2>1. sending[s] = "mailing" /\ mailed' = mailed \cup {mailing[s]} /\ Advances(s, "over")
    BY <1>3 DEF Mail
  <2>2. mailing[s] \in DOMAIN links /\ sentBy[mailing[s]] = s
    BY <2>1 DEF OwnLinks
  <2>3. UNCHANGED <<verified, links, mailing, hours, traces>> /\ sendFaults' = sendFaults
    BY <1>3 DEF Mail
  <2>4. /\ mailed' \subseteq DOMAIN links /\ mailed \subseteq mailed'
        /\ \A l \in mailed' \ mailed : sentBy[l] = s
        /\ sendFaults' \in 0..MaxSendFaults
    BY <2>1, <2>2, <2>3 DEF Shape
  <2>5. "over" \in Stages
    BY DEF Stages
  <2>6. QED BY <2>1, <2>3, <2>4, <2>5, AdvanceKeepsInv
<1>4. CASE SendFault(s)
  <2>1. Advances(s, "over") /\ UNCHANGED <<verified, links, mailing, hours, traces, mailed>>
    BY <1>4 DEF SendFault, tokens
  <2>2. sendFaults' \in 0..MaxSendFaults
    BY <1>4, EmailVerificationConstants DEF SendFault, Shape
  <2>3. mailed' \subseteq DOMAIN links /\ "over" \in Stages
    BY <2>1 DEF Shape, Stages
  <2>4. QED BY <2>1, <2>2, <2>3, AdvanceKeepsInv
<1>5. QED BY <1>1, <1>2, <1>3, <1>4

\* The row: it outdates the counts of the others, and is blind if its own was outdated.
LEMMA IssueKeepsInv ==
    ASSUME Shape, OwnLinks, Room, Burned, NEW s \in Sendings, Issue(s)
    PROVE  Shape' /\ OwnLinks' /\ Room' /\ Burned'
<1> DEFINE n == Len(links) + 1
           row == [used |-> FALSE, recent |-> TRUE, expired |-> FALSE]
<1>1. row \in VerificationLink
  BY DEF VerificationLink
<1>2. /\ sending[s] = "issuing" /\ links' = Append(links, row) /\ sentBy' = Append(sentBy, s)
      /\ mailing' = [mailing EXCEPT ![s] = n] /\ Advances(s, "mailing")
      /\ outdated' = outdated \cup {t \in Sendings \ {s} : sending[t] = "issuing"}
      /\ blind' = IF s \in outdated THEN blind \cup {n} ELSE blind
      /\ UNCHANGED <<verified, mailed, sendFaults, hours, proved, straddlers>>
  BY DEF Issue
<1>3. /\ Len(links) \in Nat /\ n \in Nat /\ DOMAIN links = 1..Len(links)
      /\ DOMAIN sentBy = 1..Len(links) /\ Len(sentBy) = Len(links)
  BY LinkRows DEF Shape
<1>4. /\ links' \in Seq(VerificationLink) /\ Len(links') = n
      /\ \A l \in 1..Len(links) : links'[l] = links[l]
      /\ links'[n] = row /\ DOMAIN links' = 1..n
  <2>1. links \in Seq(VerificationLink)
    BY DEF Shape
  <2> HIDE DEF row
  <2>2. /\ links' \in Seq(VerificationLink) /\ Len(links') = n
        /\ \A l \in 1..Len(links) : links'[l] = links[l]
        /\ links'[n] = row
    BY <1>1, <1>2, <2>1, AppendProperties
  <2>3. DOMAIN links' = 1..Len(links')
    BY <2>2, LenProperties
  <2>4. QED BY <2>2, <2>3
<1>5. /\ sentBy' \in Seq(Sendings) /\ Len(sentBy') = n
      /\ \A l \in 1..Len(links) : sentBy'[l] = sentBy[l]
      /\ sentBy'[n] = s
  <2>1. sentBy \in Seq(Sendings)
    BY DEF Shape
  <2>2. QED BY <1>2, <1>3, <2>1, AppendProperties
<1>6. /\ sending' \in [Sendings -> Stages] /\ sending'[s] = "mailing"
      /\ \A t \in Sendings \ {s} : sending'[t] = sending[t]
  BY <1>2 DEF Shape, Advances, Stages
<1>7. DOMAIN links' = DOMAIN links \cup {n} /\ n \notin DOMAIN links
  BY <1>3, <1>4
<1>8. /\ mailing' \in [Sendings -> 0..n] /\ mailing'[s] = n
      /\ \A t \in Sendings \ {s} : mailing'[t] = mailing[t]
  <2>1. mailing \in [Sendings -> 0..Len(links)]
    BY DEF Shape
  <2>2. 0..Len(links) \subseteq 0..n /\ n \in 0..n
    BY <1>3
  <2> HIDE DEF n
  <2>3. QED BY <1>2, <2>1, <2>2
<1> HIDE DEF n
<1>9. Shape'
  <2>1. mailed' \subseteq DOMAIN links' /\ blind' \subseteq DOMAIN links'
    BY <1>2, <1>7 DEF Shape
  <2>2. outdated' \subseteq Sendings
    BY <1>2 DEF Shape
  <2>3. Len(sentBy') = Len(links') /\ mailing' \in [Sendings -> 0..Len(links')]
    BY <1>4, <1>5, <1>8
  <2>4. QED BY <1>2, <1>4, <1>5, <1>6, <2>1, <2>2, <2>3 DEF Shape
<1>10. OwnLinks'
  <2>1. n \notin mailed'
    BY <1>2, <1>7 DEF Shape
  <2>2. ASSUME NEW t \in Sendings, sending'[t] = "mailing"
        PROVE  mailing'[t] \in DOMAIN links' \ mailed' /\ sentBy'[mailing'[t]] = t
    <3>1. CASE t = s
      BY <1>5, <1>7, <1>8, <2>1, <3>1
    <3>2. CASE t # s
      <4>1. mailing[t] \in DOMAIN links \ mailed /\ sentBy[mailing[t]] = t
        BY <1>6, <2>2, <3>2 DEF OwnLinks
      <4>2. mailing'[t] = mailing[t]
        BY <1>8, <3>2
      <4>3. QED BY <1>2, <1>3, <1>5, <1>7, <4>1, <4>2
    <3>3. QED BY <3>1, <3>2
  <2>3. QED BY <2>2 DEF OwnLinks
<1>11. Room'
  <2>1. \A t \in Sendings \ outdated' : sending'[t] # "issuing"
    BY <1>2, <1>6
  <2>2. Reckoned' \subseteq Reckoned \cup (IF s \in outdated THEN {} ELSE {n})
    <3>1. ASSUME NEW l \in Reckoned'
          PROVE  l \in Reckoned \/ (s \notin outdated /\ l = n)
      <4>1. l \in DOMAIN links' /\ links'[l].recent /\ l \notin blind'
        BY <3>1 DEF Reckoned, Recent
      <4>2. CASE l = n
        BY <1>2, <4>1, <4>2
      <4>3. CASE l # n
        <5>1. l \in DOMAIN links /\ links'[l] = links[l] /\ l \notin blind
          BY <1>2, <1>3, <1>4, <1>7, <4>1, <4>3
        <5>2. QED BY <4>1, <5>1 DEF Reckoned, Recent
      <4>4. QED BY <4>2, <4>3
    <3>2. QED BY <3>1
  <2>3. IsFiniteSet(Reckoned) /\ Cardinality(Reckoned) \in Nat
    BY LinkRows
  <2> DEFINE before == Reckoned
             after == Reckoned'
  <2>4. CASE s \in outdated
    <3>1. after \in SUBSET before
      BY <2>2, <2>4
    <3> HIDE DEF after
    <3>2. IsFiniteSet(after) /\ Cardinality(after) <= Cardinality(before)
      BY <2>3, <3>1, FS_Subset
    <3>3. Cardinality(after) \in Nat
      BY <3>2, FS_CardinalityType
    <3>4. Cardinality(before) <= maxPerHour
      BY DEF Room
    <3>5. Cardinality(after) <= maxPerHour
      BY <2>3, <3>2, <3>3, <3>4, EmailVerificationConstants
    <3>6. QED BY <2>1, <3>5 DEF Room, after
  <2>5. CASE s \notin outdated
    <3>1. after \in SUBSET (before \cup {n})
      BY <2>2, <2>5
    <3> HIDE DEF after, before
    <3>2. IsFiniteSet(before)
      BY <2>3 DEF before
    <3>3. /\ IsFiniteSet(before \cup {n}) /\ Cardinality(before) \in Nat
          /\ Cardinality(before \cup {n}) \in Nat
          /\ Cardinality(before \cup {n}) <= Cardinality(before) + 1
      BY <3>2, OneMore
    <3>4. IsFiniteSet(after) /\ Cardinality(after) <= Cardinality(before \cup {n})
      BY <3>1, <3>3, FS_Subset
    <3>5. Cardinality(after) \in Nat
      BY <3>4, FS_CardinalityType
    <3>6. Cardinality(before) < maxPerHour
      BY <1>2, <2>5 DEF Room, before
    <3>7. Cardinality(after) <= maxPerHour
      BY <3>3, <3>4, <3>5, <3>6, EmailVerificationConstants
    <3>8. QED BY <2>1, <3>7 DEF Room, after
  <2>6. QED BY <2>4, <2>5
<1>12. Burned'
  <2> SUFFICES ASSUME proved PROVE
        /\ verified
        /\ \A t \in Sendings : sending'[t] \in {"checked", "issuing"} => t \in straddlers
        /\ \A l \in DOMAIN links' : Usable(l)' => sentBy'[l] \in straddlers
    BY <1>2 DEF Burned
  <2>1. s \in straddlers
    BY <1>2 DEF Burned
  <2>2. ASSUME NEW l \in DOMAIN links', Usable(l)' PROVE sentBy'[l] \in straddlers
    <3>1. CASE l = n
      BY <1>5, <2>1, <3>1
    <3>2. CASE l # n
      <4>1. l \in DOMAIN links /\ links'[l] = links[l] /\ sentBy'[l] = sentBy[l]
        BY <1>3, <1>4, <1>5, <1>7, <3>2
      <4>2. QED BY <2>2, <4>1 DEF Burned, Usable
    <3>3. QED BY <3>1, <3>2
  <2>3. QED BY <1>6, <2>2 DEF Burned
<1>13. QED BY <1>9, <1>10, <1>11, <1>12

\* Links rewritten in place, none of them made usable or recent.
LEMMA RewriteKeepsInv ==
    ASSUME Shape, OwnLinks, Room, Burned,
           links' \in [1..Len(links) -> VerificationLink],
           \A l \in DOMAIN links : /\ links'[l].recent => links[l].recent
                                   /\ Usable(l)' => Usable(l),
           UNCHANGED <<mailed, sending, mailing, sendFaults, outdated, blind, sentBy>>,
           hours' \in 0..MaxHours,
           verified => verified', verified' \in BOOLEAN, proved' \in BOOLEAN,
           straddlers' \subseteq Sendings,
           \/ UNCHANGED <<proved, straddlers>>
           \/ /\ verified'
              /\ \A s \in Sendings : sending[s] \in {"checked", "issuing"} => s \in straddlers'
              /\ \A l \in DOMAIN links : ~Usable(l)'
    PROVE  Shape' /\ OwnLinks' /\ Room' /\ Burned'
<1>1. Len(links) \in Nat /\ DOMAIN links = 1..Len(links)
  BY LinkRows
<1>2. links' \in Seq(VerificationLink) /\ Len(links') = Len(links) /\ DOMAIN links' = DOMAIN links
  BY <1>1, Rewritten
<1>3. Shape'
  BY <1>2 DEF Shape
<1>4. OwnLinks'
  BY <1>2 DEF OwnLinks
<1>5. Room'
  <2>1. Reckoned' \subseteq Reckoned
    BY <1>2 DEF Reckoned, Recent
  <2>2. QED BY <2>1, RoomKept
<1>6. Burned'
  BY <1>2 DEF Burned
<1>7. QED BY <1>3, <1>4, <1>5, <1>6

\* The transaction of verify: the account is verified and every link used, or nothing.
LEMMA VerifyKeepsInv ==
    ASSUME VerificationInv, NEW a \in Attempts, NEW k \in DOMAIN links, Verify(a, k)
    PROVE  VerificationInv'
<1>1. LimiterInv'
  <2>1. UNCHANGED <<count, expiring, redisFaults, windowPassed>>
    BY DEF Verify
  <2>2. gate' \in [Attempts -> Gates] /\ \A b \in Attempts : IsFirst(b)' <=> IsFirst(b)
    BY DEF VerificationInv, LimiterInv, LimiterTypeOK, Verify, GoesTo, Gates, IsFirst
  <2>3. LimiterInv
    BY DEF VerificationInv
  <2>4. LimiterTypeOK'
    BY <2>1, <2>2, <2>3 DEF LimiterInv, LimiterTypeOK
  <2>5. QED BY <2>1, <2>2, <2>3, <2>4 DEF LimiterInv
<1>2. Shape /\ OwnLinks /\ Room /\ Burned
  BY DEF VerificationInv
<1>3. /\ UNCHANGED <<mailed, sending, mailing, sendFaults, outdated, blind, sentBy>>
      /\ hours' = hours
  BY DEF Verify, sent
<1>4. /\ hours' \in 0..MaxHours /\ verified \in BOOLEAN /\ proved \in BOOLEAN
      /\ straddlers \subseteq Sendings
  BY <1>2, <1>3 DEF Shape
<1>5. /\ Len(links) \in Nat /\ DOMAIN links = 1..Len(links)
      /\ \A l \in DOMAIN links : links[l] \in VerificationLink
  BY <1>2, LinkRows
<1>6. CASE Usable(k)
  <2>1. /\ verified' = TRUE /\ proved' = TRUE
        /\ links' = [l \in DOMAIN links |-> [links[l] EXCEPT !.used = TRUE]]
        /\ straddlers' = IF proved THEN straddlers
                         ELSE {s \in Sendings : sending[s] \in {"checked", "issuing"}}
    BY <1>6 DEF Verify
  <2>2. \A l \in DOMAIN links : /\ [links[l] EXCEPT !.used = TRUE] \in VerificationLink
                                /\ [links[l] EXCEPT !.used = TRUE].recent = links[l].recent
                                /\ [links[l] EXCEPT !.used = TRUE].used
    BY <1>5 DEF VerificationLink
  <2>3. /\ links' \in [1..Len(links) -> VerificationLink]
        /\ \A l \in DOMAIN links : links'[l].recent = links[l].recent /\ links'[l].used
    BY <1>5, <2>1, <2>2
  <2>4. \A l \in DOMAIN links : ~Usable(l)'
    BY <2>3 DEF Usable
  <2>5. /\ straddlers' \subseteq Sendings
        /\ \A s \in Sendings : sending[s] \in {"checked", "issuing"} => s \in straddlers'
    BY <1>2, <1>4, <2>1 DEF Burned
  <2>6. Shape' /\ OwnLinks' /\ Room' /\ Burned'
    BY <1>2, <1>3, <1>4, <2>1, <2>3, <2>4, <2>5, RewriteKeepsInv
  <2>7. QED BY <1>1, <2>6 DEF VerificationInv
<1>7. CASE ~Usable(k)
  <2>1. UNCHANGED <<verified, links, proved, straddlers>>
    BY <1>7 DEF Verify
  <2>2. links' \in [1..Len(links) -> VerificationLink]
    BY <1>5, <2>1, <1>2 DEF Shape
  <2>3. \A l \in DOMAIN links : Usable(l)' = Usable(l) /\ links'[l] = links[l]
    BY <2>1 DEF Usable
  <2>4. Shape' /\ OwnLinks' /\ Room' /\ Burned'
    BY <1>2, <1>3, <1>4, <2>1, <2>2, <2>3, RewriteKeepsInv
  <2>5. QED BY <1>1, <2>4 DEF VerificationInv
<1>8. QED BY <1>6, <1>7

\* The limiter reads none of this, and this writes none of the limiter's state but for the
\* attempts that have been served.
LEMMA LimiterKept ==
    ASSUME LimiterInv, UNCHANGED limiter
    PROVE  LimiterInv'
BY LimiterNextInv

LEMMA ElsewhereKept ==
    ASSUME Shape, OwnLinks, Room, Burned, UNCHANGED <<tokens, sent, traces>>
    PROVE  Shape' /\ OwnLinks' /\ Room' /\ Burned'
<1>1. UNCHANGED <<verified, links, mailed, sending, mailing, sendFaults, hours,
                  outdated, blind, proved, straddlers, sentBy>>
  BY DEF tokens, sent, traces
<1>2. Reckoned' = Reckoned /\ \A l \in DOMAIN links : Usable(l)' = Usable(l)
  BY <1>1 DEF Reckoned, Recent, Usable
<1>3. QED BY <1>1, <1>2 DEF Shape, OwnLinks, Room, Burned

\* Accepting an invitation verifies the address, and leaves the links.
LEMMA AcceptKeepsInv ==
    ASSUME Shape, OwnLinks, Room, Burned, AcceptInvitation
    PROVE  Shape' /\ OwnLinks' /\ Room' /\ Burned'
<1>1. /\ verified' = TRUE
      /\ UNCHANGED <<links, mailed, sending, mailing, sendFaults, hours,
                     outdated, blind, proved, straddlers, sentBy>>
  BY DEF AcceptInvitation, sent, traces
<1>2. Reckoned' = Reckoned /\ \A l \in DOMAIN links : Usable(l)' = Usable(l)
  BY <1>1 DEF Reckoned, Recent, Usable
<1>3. QED BY <1>1, <1>2 DEF Shape, OwnLinks, Room, Burned

\* Time takes links out of the hour and out of their lifetime, and puts none back.
LEMMA TimeKeepsInv ==
    ASSUME Shape, OwnLinks, Room, Burned, TimePasses
    PROVE  Shape' /\ OwnLinks' /\ Room' /\ Burned'
<1> DEFINE Aged(l, day) == [links[l] EXCEPT !.recent = FALSE, !.expired = @ \/ day]
<1>1. PICK old \in DOMAIN links, day \in BOOLEAN :
          links' = [l \in DOMAIN links |-> IF l > old THEN links[l] ELSE Aged(l, day)]
  BY DEF TimePasses
<1>2. /\ Len(links) \in Nat /\ DOMAIN links = 1..Len(links)
      /\ \A l \in DOMAIN links : links[l] \in VerificationLink
  BY LinkRows
<1>3. \A l \in DOMAIN links : /\ Aged(l, day) \in VerificationLink
                              /\ ~Aged(l, day).recent
                              /\ Aged(l, day).used = links[l].used
                              /\ ~Aged(l, day).expired => ~links[l].expired
  BY <1>2 DEF VerificationLink
<1> HIDE DEF Aged
<1>4. links' \in [1..Len(links) -> VerificationLink]
  BY <1>1, <1>2, <1>3
<1>5. \A l \in DOMAIN links : links'[l] = links[l] \/ links'[l] = Aged(l, day)
  BY <1>1
<1>6. \A l \in DOMAIN links : /\ links'[l].recent => links[l].recent
                              /\ Usable(l)' => Usable(l)
  BY <1>3, <1>5 DEF Usable
<1>7. UNCHANGED <<verified, mailed, sending, mailing, sendFaults,
                  outdated, blind, proved, straddlers, sentBy>>
  BY DEF TimePasses, traces
<1>8. hours' \in 0..MaxHours
  <2>1. hours < MaxHours /\ hours' = hours + 1
    BY DEF TimePasses
  <2>2. hours \in 0..MaxHours
    BY DEF Shape
  <2>3. QED BY <2>1, <2>2, EmailVerificationConstants
<1>9. verified \in BOOLEAN /\ proved \in BOOLEAN /\ straddlers \subseteq Sendings
  BY DEF Shape
<1>10. QED BY <1>4, <1>6, <1>7, <1>8, <1>9, RewriteKeepsInv

\* Every step keeps the invariant.
LEMMA VerificationNextInv ==
    VerificationInv /\ [VerificationNext]_verification => VerificationInv'
<1> SUFFICES ASSUME VerificationInv, [VerificationNext]_verification PROVE VerificationInv'
  OBVIOUS
<1>1. LimiterInv /\ Shape /\ OwnLinks /\ Room /\ Burned
  BY DEF VerificationInv
<1>2. CASE UNCHANGED verification
  <2>1. UNCHANGED limiter /\ UNCHANGED <<tokens, sent, traces>>
    BY <1>2 DEF verification
  <2>2. QED BY <1>1, <2>1, LimiterKept, ElsewhereKept DEF VerificationInv
<1>3. CASE LimiterNext /\ UNCHANGED <<tokens, sent, traces>>
  BY <1>1, <1>3, LimiterNextInv, ElsewhereKept DEF VerificationInv
<1>4. ASSUME NEW s \in Sendings, Resend(s) \/ CountRecent(s) \/ Mail(s) \/ SendFault(s)
      PROVE  VerificationInv'
  <2>1. UNCHANGED limiter
    BY <1>4 DEF Resend, CountRecent, Mail, SendFault
  <2>2. QED BY <1>1, <1>4, <2>1, LimiterKept, ResendKeepsInv DEF VerificationInv
<1>5. ASSUME NEW s \in Sendings, Issue(s) PROVE VerificationInv'
  <2>1. UNCHANGED limiter
    BY <1>5 DEF Issue
  <2>2. QED BY <1>1, <1>5, <2>1, LimiterKept, IssueKeepsInv DEF VerificationInv
<1>6. ASSUME NEW a \in Attempts, NEW l \in DOMAIN links, Verify(a, l) PROVE VerificationInv'
  BY <1>6, VerifyKeepsInv
<1>7. CASE AcceptInvitation
  <2>1. UNCHANGED limiter
    BY <1>7 DEF AcceptInvitation
  <2>2. QED BY <1>1, <1>7, <2>1, LimiterKept, AcceptKeepsInv DEF VerificationInv
<1>8. CASE TimePasses
  <2>1. UNCHANGED limiter
    BY <1>8 DEF TimePasses
  <2>2. QED BY <1>1, <1>8, <2>1, LimiterKept, TimeKeepsInv DEF VerificationInv
<1>9. CASE VerificationNext
  <2>1. CASE \E s \in Sendings : Resend(s) \/ CountRecent(s) \/ Issue(s) \/ Mail(s) \/ SendFault(s)
    BY <1>4, <1>5, <2>1
  <2>2. CASE \E a \in Attempts, l \in DOMAIN links : Verify(a, l)
    BY <1>6, <2>2
  <2>3. QED BY <1>3, <1>7, <1>8, <1>9, <2>1, <2>2, Zenon DEF VerificationNext
<1>10. QED BY <1>2, <1>9

\* The inductive invariant holds in every state: what the sendings under way know of the
\* links (email-verification.service.ts), behind the limiter.
THEOREM VerificationInvHolds == VerificationSpec => []VerificationInv
BY VerificationInitInv, VerificationNextInv, PTL DEF VerificationSpec

\* The state keeps its types, whatever the number of sendings, attempts and links.
THEOREM VerificationTypeCorrect == VerificationSpec => []VerificationTypeOK
<1>1. VerificationInv => VerificationTypeOK
  <2> SUFFICES ASSUME VerificationInv PROVE VerificationTypeOK
    OBVIOUS
  <2>1. LimiterTypeOK
    BY DEF VerificationInv, LimiterInv
  <2>2. Shape /\ OwnLinks
    BY DEF VerificationInv
  <2>3. DOMAIN links = 1..Len(links) /\ Len(links) \in Nat
    BY <2>2, LinkRows
  <2>4. \A s \in Sendings : sending[s] = "mailing" => mailing[s] # 0 /\ mailing[s] \notin mailed
    BY <2>2, <2>3 DEF OwnLinks
  <2>5. QED BY <2>1, <2>2, <2>4 DEF Shape, VerificationLink, VerificationTypeOK
<1>2. QED BY <1>1, VerificationInvHolds, PTL

\* The limiter keeps its window while the handler behind it consumes links
\* (rate-limit.middleware.ts in front of verify).
THEOREM WindowHoldsBeforeVerify == VerificationSpec => []LimiterWindow
<1>1. VerificationInv => LimiterWindow
  BY LimiterInvWindow DEF VerificationInv
<1>2. QED BY <1>1, VerificationInvHolds, PTL

\* email-verification.service.ts:37: the links of an hour are at most the maximum and one
\* for each sending whose count another has outdated, however many send at once.
THEOREM CeilingOfLinks == VerificationSpec => []VerificationCeiling
<1>1. VerificationInv => VerificationCeiling
  <2> SUFFICES ASSUME VerificationInv PROVE VerificationCeiling
    OBVIOUS
  <2>1. Shape /\ Room
    BY DEF VerificationInv
  <2>2. IsFiniteSet(Recent) /\ Cardinality(Recent) \in Nat
    BY <2>1, LinkRows
  <2> DEFINE R == Recent
  <2> HIDE DEF R
  <2>3. IsFiniteSet(R) /\ Cardinality(R) \in Nat
    BY <2>2 DEF R
  <2>4. /\ Cardinality(R \ blind) = Cardinality(R) - Cardinality(R \cap blind)
        /\ IsFiniteSet(R \cap blind)
    BY <2>3, FS_Difference, FS_Intersection
  <2>5. Cardinality(R \cap blind) \in Nat
    BY <2>4, FS_CardinalityType
  <2>6. Cardinality(R \ blind) <= maxPerHour
    BY <2>1 DEF Room, Reckoned, R
  <2>7. Cardinality(R) <= maxPerHour + Cardinality(R \cap blind)
    BY <2>3, <2>4, <2>5, <2>6, EmailVerificationConstants
  <2>8. QED BY <2>7 DEF VerificationCeiling, R
<1>2. QED BY <1>1, VerificationInvHolds, PTL

\* email-verification.service.ts:64: once a link has been consumed the account is verified
\* for good and no other link is left to use, but those of sendings past their check then.
THEOREM ConsumedLinkBurnsOthers == VerificationSpec => []VerifiedBurnsLinks
<1>1. VerificationInv => VerifiedBurnsLinks
  BY DEF VerificationInv, Burned, VerifiedBurnsLinks
<1>2. QED BY <1>1, VerificationInvHolds, PTL
=============================================================================
