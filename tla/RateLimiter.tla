----------------------------- MODULE RateLimiter -----------------------------
(***************************************************************************)
(* The rate limiter in front of the credential endpoints: one counter in   *)
(* Redis for each bucket and address, shared by all processes of the API.  *)
(* Here, the attempts of one address in one bucket.                        *)
(*                                                                         *)
(* INCR and PEXPIRE are two commands.  Either may fail, and a command that *)
(* timed out may have been executed; the attempt is refused with 503.      *)
(***************************************************************************)
EXTENDS Naturals, FiniteSets

CONSTANTS
    Attempts,        \* requests to the endpoint
    maxAttempts,     \* config.rateLimit.maxAttempts
    \* bound of a run
    MaxRedisFaults

ASSUME RateLimiterConstants == maxAttempts \in Nat \ {0} /\ MaxRedisFaults \in Nat

VARIABLES
    count,       \* the counter; 0 without a key
    expiring,    \* the key has an expiry
    gate,        \* where an attempt is
    redisFaults,
    \* history, read by no action
    windowPassed \* the attempts that were let through by the present counter

limiter == <<count, expiring, gate, redisFaults, windowPassed>>

Gates == {"outside", "first", "passed", "refused", "served"}

LimiterTypeOK ==
    /\ count \in Nat /\ expiring \in BOOLEAN
    /\ gate \in [Attempts -> Gates]
    /\ redisFaults \in 0..MaxRedisFaults
    /\ windowPassed \subseteq Attempts

LimiterInit ==
    /\ count = 0 /\ expiring = FALSE
    /\ gate = [a \in Attempts |-> "outside"]
    /\ redisFaults = 0
    /\ windowPassed = {}

GoesTo(a, where) == gate' = [gate EXCEPT ![a] = where]

\* INCR; the first of a window has the expiry still to set.
Count(a) ==
    /\ gate[a] = "outside"
    /\ count' = count + 1
    /\ GoesTo(a, IF count' = 1 THEN "first" ELSE IF count' <= maxAttempts THEN "passed" ELSE "refused")
    /\ windowPassed' = IF count' <= maxAttempts THEN windowPassed \cup {a} ELSE windowPassed
    /\ UNCHANGED <<expiring, redisFaults>>

\* FAULTY: only a second attempt makes a window.
SetExpiryLate(a) ==
    /\ gate[a] = "first"
    /\ expiring' = (count > 1)
    /\ GoesTo(a, "passed")
    /\ UNCHANGED <<count, redisFaults, windowPassed>>

\* PEXPIRE; the key is there, having no expiry yet.
SetExpiry(a) ==
    /\ gate[a] = "first"
    /\ expiring' = TRUE
    /\ GoesTo(a, "passed")
    /\ UNCHANGED <<count, redisFaults, windowPassed>>

\* A command is rejected, or its answer is lost after it was executed.
CommandFails(a) ==
    /\ redisFaults < MaxRedisFaults
    /\ redisFaults' = redisFaults + 1
    /\ GoesTo(a, "refused")
    /\ \/ gate[a] = "outside" /\ count' \in {count, count + 1} /\ UNCHANGED expiring
       \/ gate[a] = "first" /\ expiring' \in BOOLEAN /\ UNCHANGED count
    /\ windowPassed' = windowPassed \ {a}

\* Redis drops the key when its time is over.
WindowEnds ==
    /\ expiring
    /\ count' = 0 /\ expiring' = FALSE
    /\ windowPassed' = {}
    /\ UNCHANGED <<gate, redisFaults>>

LimiterNext ==
    \/ \E a \in Attempts : Count(a) \/ SetExpiry(a) \/ CommandFails(a)
    \/ WindowEnds

LimiterSpec == LimiterInit /\ [][LimiterNext]_limiter

-----------------------------------------------------------------------------
(* Properties *)

\* "so the limit holds across instances" (rate-limit.middleware.ts:9): a counter lets no
\* more through than the maximum, and it will expire.  It may have no expiry only while
\* its first attempt is about to set one, or after a command failed: such a counter stays,
\* and its address is refused for good.
LimiterWindow ==
    /\ Cardinality(windowPassed) <= maxAttempts
    /\ count > 0 /\ ~expiring => redisFaults > 0 \/ \E a \in Attempts : gate[a] = "first"
    /\ \A a \in Attempts : gate[a] = "first" => count > 0 /\ ~expiring
=============================================================================
