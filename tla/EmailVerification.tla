-------------------------- MODULE EmailVerification --------------------------
(***************************************************************************)
(* The verification of one account's e-mail address: the link mailed after *)
(* registration, the ones it asks for again, the transaction that consumes *)
(* a link, behind the rate limiter, and the acceptance of an invitation,   *)
(* which proves the address too.                                           *)
(*                                                                         *)
(* A sending is a request that will issue a link: its check of the account,*)
(* its count of the last hour's links, the insert and the e-mail job are   *)
(* steps.  The transaction of verify is one step, its commit.              *)
(***************************************************************************)
EXTENDS RateLimiter, Integers, Sequences, FiniteSetsExt

CONSTANTS
    Sendings,          \* requests that issue a link; one is the registration's
    maxPerHour,        \* config.accountEmails.verificationMaxPerHour
    \* bounds of a run
    MaxSendFaults, MaxHours

ASSUME EmailVerificationConstants ==
    maxPerHour \in Nat \ {0} /\ MaxSendFaults \in Nat /\ MaxHours \in Nat

VARIABLES
    verified,       \* User.emailVerifiedAt is set
    links,          \* VerificationToken rows, in order of creation
    mailed,         \* those whose e-mail job the queue took
    sending,        \* where a sending is
    mailing,        \* the link it has issued
    sendFaults,
    hours,
    \* history, read by no action
    outdated,       \* sendings whose count another link has outdated
    blind,          \* links issued upon an outdated count
    proved,         \* a link has been consumed
    straddlers,     \* sendings under way when the first one was
    sentBy          \* the sending of each link

tokens == <<verified, links, mailed>>
sent   == <<sending, mailing, sendFaults, hours>>
traces == <<outdated, blind, proved, straddlers, sentBy>>
verification == <<limiter, tokens, sent, traces>>

Stages == {"new", "checked", "issuing", "mailing", "over"}

VerificationTypeOK ==
    /\ LimiterTypeOK
    /\ verified \in BOOLEAN
    /\ links \in Seq([used : BOOLEAN, recent : BOOLEAN, expired : BOOLEAN])
    /\ mailed \subseteq DOMAIN links
    /\ sending \in [Sendings -> Stages]
    /\ mailing \in [Sendings -> 0..Len(links)]
    /\ \A s \in Sendings : sending[s] = "mailing" => mailing[s] # 0 /\ mailing[s] \notin mailed
    /\ sendFaults \in 0..MaxSendFaults /\ hours \in 0..MaxHours
    /\ outdated \subseteq Sendings /\ straddlers \subseteq Sendings
    /\ blind \subseteq DOMAIN links /\ Len(sentBy) = Len(links)
    /\ proved \in BOOLEAN

\* The registration is one sending past every check.
VerificationInit ==
    /\ LimiterInit
    /\ verified = FALSE /\ links = <<>> /\ mailed = {}
    /\ \E s \in Sendings : sending = [t \in Sendings |-> IF t = s THEN "issuing" ELSE "new"]
    /\ mailing = [s \in Sendings |-> 0]
    /\ sendFaults = 0 /\ hours = 0
    /\ outdated = {} /\ blind = {} /\ proved = FALSE /\ straddlers = {} /\ sentBy = <<>>

-----------------------------------------------------------------------------
(* Sending *)

Recent == {l \in DOMAIN links : links[l].recent}
Usable(l) == ~links[l].used /\ ~links[l].expired

Advances(s, stage) == sending' = [sending EXCEPT ![s] = stage]

\* resend: the account is not verified yet.
Resend(s) ==
    /\ sending[s] = "new"
    /\ Advances(s, IF verified THEN "over" ELSE "checked")
    /\ UNCHANGED <<limiter, tokens, mailing, sendFaults, hours, traces>>

\* FAULTY: the ceiling is passed by one.
CountOneMore(s) ==
    /\ sending[s] = "checked"
    /\ Advances(s, IF Cardinality(Recent) <= maxPerHour THEN "issuing" ELSE "over")
    /\ UNCHANGED <<limiter, tokens, mailing, sendFaults, hours, traces>>

\* resend: the links of the last hour are counted.
CountRecent(s) ==
    /\ sending[s] = "checked"
    /\ Advances(s, IF Cardinality(Recent) < maxPerHour THEN "issuing" ELSE "over")
    /\ UNCHANGED <<limiter, tokens, mailing, sendFaults, hours, traces>>

\* sendVerificationEmail: the row.
Issue(s) ==
    /\ sending[s] = "issuing"
    /\ links' = Append(links, [used |-> FALSE, recent |-> TRUE, expired |-> FALSE])
    /\ mailing' = [mailing EXCEPT ![s] = Len(links) + 1]
    /\ Advances(s, "mailing")
    /\ outdated' = outdated \cup {t \in Sendings \ {s} : sending[t] = "issuing"}
    /\ blind' = IF s \in outdated THEN blind \cup {Len(links) + 1} ELSE blind
    /\ sentBy' = Append(sentBy, s)
    /\ UNCHANGED <<limiter, verified, mailed, sendFaults, hours, proved, straddlers>>

\* sendVerificationEmail: the job.
Mail(s) ==
    /\ sending[s] = "mailing"
    /\ mailed' = mailed \cup {mailing[s]}
    /\ Advances(s, "over")
    /\ UNCHANGED <<limiter, verified, links, mailing, sendFaults, hours, traces>>

\* A command fails or the process dies: the registration stands, a resend is answered
\* with an error; an issued link that nobody was mailed counts for the hour.
SendFault(s) ==
    /\ sending[s] \in {"checked", "issuing", "mailing"} /\ sendFaults < MaxSendFaults
    /\ sendFaults' = sendFaults + 1
    /\ Advances(s, "over")
    /\ UNCHANGED <<limiter, tokens, mailing, hours, traces>>

-----------------------------------------------------------------------------
(* Verifying *)

\* FAULTY: the other links are left.
VerifyOne(a, l) ==
    /\ gate[a] = "passed" /\ l \in mailed
    /\ IF Usable(l)
       THEN /\ verified' = TRUE
            /\ links' = [links EXCEPT ![l].used = TRUE]
            /\ proved' = TRUE
            /\ straddlers' = IF proved THEN straddlers
                             ELSE {s \in Sendings : sending[s] \in {"checked", "issuing"}}
       ELSE UNCHANGED <<verified, links, proved, straddlers>>
    /\ GoesTo(a, "served")
    /\ UNCHANGED <<count, expiring, redisFaults, windowPassed, mailed, sent, outdated, blind, sentBy>>

\* verify: consume, markEmailVerified and invalidateOutstanding commit together, or 404.
Verify(a, l) ==
    /\ gate[a] = "passed" /\ l \in mailed
    /\ IF Usable(l)
       THEN /\ verified' = TRUE
            /\ links' = [k \in DOMAIN links |-> [links[k] EXCEPT !.used = TRUE]]
            /\ proved' = TRUE
            /\ straddlers' = IF proved THEN straddlers
                             ELSE {s \in Sendings : sending[s] \in {"checked", "issuing"}}
       ELSE UNCHANGED <<verified, links, proved, straddlers>>
    /\ GoesTo(a, "served")
    /\ UNCHANGED <<count, expiring, redisFaults, windowPassed, mailed, sent, outdated, blind, sentBy>>

\* The transaction of an accepted invitation marks the address and leaves the links.
AcceptInvitation ==
    /\ ~verified
    /\ verified' = TRUE
    /\ UNCHANGED <<limiter, links, mailed, sent, traces>>

\* An hour has passed since the older links were issued, or a day, which is how long they live.
TimePasses ==
    /\ hours < MaxHours
    /\ hours' = hours + 1
    /\ \E old \in DOMAIN links, day \in BOOLEAN :
          links' = [l \in DOMAIN links |->
                       IF l > old THEN links[l]
                       ELSE [links[l] EXCEPT !.recent = FALSE, !.expired = @ \/ day]]
    /\ UNCHANGED <<limiter, verified, mailed, sending, mailing, sendFaults, traces>>

VerificationNext ==
    \/ LimiterNext /\ UNCHANGED <<tokens, sent, traces>>
    \/ \E s \in Sendings : Resend(s) \/ CountRecent(s) \/ Issue(s) \/ Mail(s) \/ SendFault(s)
    \/ \E a \in Attempts, l \in DOMAIN links : Verify(a, l)
    \/ AcceptInvitation
    \/ TimePasses

VerificationSpec == VerificationInit /\ [][VerificationNext]_verification

-----------------------------------------------------------------------------
(* Properties *)

\* "At most EMAIL_VERIFICATION_MAX_PER_HOUR verification emails per account in the last
\* hour, counted from the tokens actually issued" (email-verification.service.ts:37): but
\* for one more for each sending whose count was outdated by another when it issued.
VerificationCeiling ==
    Cardinality(Recent) <= maxPerHour + Cardinality(Recent \cap blind)

\* "once verified, older links have nothing left to prove" (email-verification.service.ts:64):
\* when a link has been consumed, no other can be, but for those of sendings that had found
\* the account not verified and had not issued theirs.
VerifiedBurnsLinks ==
    proved => /\ verified
              /\ \A l \in DOMAIN links : Usable(l) => sentBy[l] \in straddlers
=============================================================================
