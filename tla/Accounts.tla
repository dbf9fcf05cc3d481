------------------------------ MODULE Accounts ------------------------------
(***************************************************************************)
(* The credentials of one account: its password, its refresh tokens in     *)
(* rotation families, and the password-reset links a worker mails it.      *)
(*                                                                         *)
(* An API request looks at a row, spends time (Argon2, another statement)  *)
(* and then writes; each such await is a step, so requests interleave.  A  *)
(* transaction is one step, the one that commits it: it runs at READ       *)
(* COMMITTED, its updates are conditional or by id, and it holds its row   *)
(* locks to the end.                                                       *)
(*                                                                         *)
(* Access tokens are stateless and live 15 minutes, so a request that only *)
(* needs one may come at any time.  A password is named after the request  *)
(* that chose it.  replacedById is written and never read; it is left out. *)
(***************************************************************************)
EXTENDS Integers, Sequences, FiniteSets

CONSTANTS
    Calls,          \* API requests, each made once
    Jobs,           \* password-reset-request jobs
    First,          \* the password of the registration
    MaxPerHour,     \* PASSWORD_RESET_MAX_PER_HOUR
    Concurrency,    \* handlers of these jobs that run at once
    MaxAttempts,    \* ACCOUNT_EMAIL_JOB_OPTIONS.attempts
    \* bounds of a run
    MaxAccountFaults, \* failed commands, crashes and lost requests
    MaxLapses       \* expiries

ASSUME AccountConstants ==
    /\ First \notin Calls
    /\ MaxPerHour \in Nat \ {0} /\ Concurrency \in Nat \ {0} /\ MaxAttempts \in Nat \ {0}
    /\ MaxAccountFaults \in Nat /\ MaxLapses \in Nat

VARIABLES
    password,    \* the password User.passwordHash is the hash of
    sessions,    \* RefreshToken rows, in order of creation
    links,       \* PasswordResetToken rows, in order of creation
    mailedLinks, \* the links in the e-mail queue or beyond
    callStep, arg, \* where a request is, and the token, link or password it is about
    jobStep, attempts,
    made,        \* the link a job has issued
    accountFaults, lapses,
    \* history, read by no action
    opened,      \* the password a session rests on
    ended,       \* families all of whose tokens were revoked at once
    crossing,    \* requests under way while the tokens they rest on were revoked
    straddlers,  \* the tokens they and their successors created
    resets,      \* the resets made: the link, and how many were issued by then
    unfinished   \* a password change was cut short before its revocation

jobs    == <<jobStep, attempts, made>>
bounds  == <<accountFaults, lapses>>
accountHistory == <<opened, ended, crossing, straddlers, resets, unfinished>>
accountVars == <<password, sessions, links, mailedLinks, callStep, arg, jobs, bounds,
                 accountHistory>>

Passwords == Calls \cup {First}
Ids == DOMAIN sessions
CallSteps == {"new", "issuing", "rotating", "closing", "leaving", "changing", "changed",
              "resetting", "done"}

RefreshToken == [family : Nat, revoked : BOOLEAN, expired : BOOLEAN]

AccountsTypeOK ==
    /\ password \in Passwords
    /\ sessions \in Seq(RefreshToken)
    /\ \A t \in Ids : sessions[t].family \in 1..t
    /\ links \in Seq([used : BOOLEAN, old : BOOLEAN])
    /\ mailedLinks \subseteq DOMAIN links
    /\ callStep \in [Calls -> CallSteps]
    /\ arg \in [Calls -> Nat \cup Passwords]
    /\ jobStep \in [Jobs -> {"waiting", "issuing", "mailing", "done"}]
    /\ attempts \in [Jobs -> 0..MaxAttempts]
    /\ made \in [Jobs -> Nat]
    /\ accountFaults \in Nat /\ lapses \in Nat
    /\ opened \in Seq(Passwords)
    /\ ended \subseteq Ids /\ straddlers \subseteq Ids
    /\ crossing \subseteq Calls
    /\ resets \in Seq([link : Nat, issued : Nat])
    /\ unfinished \in BOOLEAN

\* The account as register leaves it, with its jobs asked for.
AccountsInit ==
    /\ password = First
    /\ sessions = <<[family |-> 1, revoked |-> FALSE, expired |-> FALSE]>>
    /\ links = <<>> /\ mailedLinks = {}
    /\ callStep = [r \in Calls |-> "new"] /\ arg = [r \in Calls |-> 0]
    /\ jobStep = [j \in Jobs |-> "waiting"] /\ attempts = [j \in Jobs |-> 0]
    /\ made = [j \in Jobs |-> 0]
    /\ accountFaults = 0 /\ lapses = 0
    /\ opened = <<First>> /\ ended = {} /\ crossing = {} /\ straddlers = {}
    /\ resets = <<>> /\ unfinished = FALSE

-----------------------------------------------------------------------------
Family(t) == sessions[t].family
Live(t) == ~sessions[t].revoked
InFamily(f) == {t \in Ids : Family(t) = f}

CallAt(r, s) == callStep[r] = s
CallTo(r, s) == callStep' = [callStep EXCEPT ![r] = s]
About(r, t) == arg' = [arg EXCEPT ![r] = t]

\* createRefreshToken.
NewSession(f) == [family |-> f, revoked |-> FALSE, expired |-> FALSE]

\* History of a session created by r: the password it rests on, and whether that
\* is too late.
Creates(r, p, late) ==
    /\ opened' = Append(opened, p)
    /\ straddlers' = straddlers \cup (IF late \/ r \in crossing THEN {Len(sessions) + 1} ELSE {})
    /\ UNCHANGED <<ended, crossing, resets, unfinished>>

\* The conditional updates of the repository: the tokens of S are revoked.
TokensRevoked(S) == [t \in Ids |-> [sessions[t] EXCEPT !.revoked = @ \/ t \in S]]

\* revokeAndReplace, by id: with a successor of the same family.
Replaced(t) == Append(TokensRevoked({t}), NewSession(Family(t)))

\* History: the tokens of S are gone, the families of F with them, while the
\* requests of R were past their check.
Ended(S, F, R) ==
    /\ ended' = ended \cup F
    /\ straddlers' = straddlers \ S
    /\ crossing' = crossing \cup R

Rotating(S) == {r \in Calls : CallAt(r, "rotating") /\ arg[r] \in S}
LoggingIn == {r \in Calls : CallAt(r, "issuing")}

-----------------------------------------------------------------------------
(* Sessions.  A definition marked FAULTY is a wrong version of the next one *)
(* and used by no action.                                                   *)

\* login, up to the check of the password.
Login(r) ==
    /\ CallAt(r, "new")
    /\ \E p \in Passwords :
          /\ CallTo(r, IF p = password THEN "issuing" ELSE "done")
          /\ About(r, p)
    /\ UNCHANGED <<password, sessions, links, mailedLinks, jobs, bounds, accountHistory>>

\* login, the new session in a family of its own.
IssueSession(r) ==
    /\ CallAt(r, "issuing")
    /\ sessions' = Append(sessions, NewSession(Len(sessions) + 1))
    /\ Creates(r, arg[r], FALSE)
    /\ CallTo(r, "done")
    /\ UNCHANGED <<password, links, mailedLinks, arg, jobs, bounds>>

\* refresh, up to the checks of the row found: revoked, then expired.
Refresh(r, t) ==
    /\ CallAt(r, "new")
    /\ CallTo(r, IF ~Live(t) THEN "closing"
                 ELSE IF sessions[t].expired THEN "done" ELSE "rotating")
    /\ About(r, t)
    /\ UNCHANGED <<password, sessions, links, mailedLinks, jobs, bounds, accountHistory>>

\* refresh, the transaction: a new token of the family, and the old one revoked
\* by its id, whatever has become of it since.
Rotate(r) ==
    LET t == arg[r] IN
    /\ CallAt(r, "rotating")
    /\ sessions' = Replaced(t)
    /\ Creates(r, opened[t], t \in straddlers)
    /\ CallTo(r, "done")
    /\ UNCHANGED <<password, links, mailedLinks, arg, jobs, bounds>>

\* FAULTY: reuse ends the presented token only, which has ended already.
CloseToken(r) ==
    /\ CallAt(r, "closing")
    /\ sessions' = TokensRevoked({arg[r]})
    /\ Ended(InFamily(Family(arg[r])), {Family(arg[r])}, Rotating(InFamily(Family(arg[r]))))
    /\ CallTo(r, "done")
    /\ UNCHANGED <<password, links, mailedLinks, arg, jobs, bounds, opened, resets, unfinished>>

\* refresh of a revoked token: revokeFamily, and the request is refused.
CloseFamily(r) ==
    LET f == Family(arg[r]) IN
    /\ CallAt(r, "closing")
    /\ sessions' = TokensRevoked(InFamily(f))
    /\ Ended(InFamily(f), {f}, Rotating(InFamily(f)))
    /\ CallTo(r, "done")
    /\ UNCHANGED <<password, links, mailedLinks, arg, jobs, bounds, opened, resets, unfinished>>

\* logout, up to the check of the row found.
Logout(r, t) ==
    /\ CallAt(r, "new")
    /\ CallTo(r, IF Live(t) THEN "leaving" ELSE "done")
    /\ About(r, t)
    /\ UNCHANGED <<password, sessions, links, mailedLinks, jobs, bounds, accountHistory>>

\* logout, revokeById: this token only, not the one it may have become.
RevokeById(r) ==
    /\ CallAt(r, "leaving")
    /\ sessions' = TokensRevoked({arg[r]})
    /\ CallTo(r, "done")
    /\ UNCHANGED <<password, links, mailedLinks, arg, jobs, bounds, accountHistory>>

\* revokeAllForUser without exception.
EndAllSessions ==
    /\ sessions' = TokensRevoked(Ids)
    /\ Ended(Ids, {Family(t) : t \in Ids}, Rotating(Ids) \cup LoggingIn)
    /\ unfinished' = FALSE

LogoutAll(r) ==
    /\ CallAt(r, "new")
    /\ EndAllSessions
    /\ CallTo(r, "done")
    /\ UNCHANGED <<password, links, mailedLinks, arg, jobs, bounds, opened, resets>>

-----------------------------------------------------------------------------
(* The password change of a session that knows the password.               *)

\* changePassword, up to the check; t is the token of the request's cookie, 0 if
\* it has none.
Change(r, t) ==
    /\ CallAt(r, "new")
    /\ \E p \in Passwords : CallTo(r, IF p = password THEN "changing" ELSE "done")
    /\ About(r, t)
    /\ UNCHANGED <<password, sessions, links, mailedLinks, jobs, bounds, accountHistory>>

\* updatePasswordHash, by id: over whatever password there is by now.
WritePassword(r) ==
    /\ CallAt(r, "changing")
    /\ password' = r
    /\ CallTo(r, "changed")
    /\ UNCHANGED <<sessions, links, mailedLinks, arg, jobs, bounds, accountHistory>>

\* revokeOtherSessions, a statement of its own after the new password.
RevokeOthers(r) ==
    LET keep == arg[r]
        others == Ids \ {keep} IN
    /\ CallAt(r, "changed")
    /\ sessions' = TokensRevoked(others)
    /\ opened' = [t \in Ids |-> IF t = keep THEN password ELSE opened[t]]
    /\ Ended(others, {Family(t) : t \in others} \ {Family(t) : t \in Ids \cap {keep}},
             Rotating(others) \cup LoggingIn)
    /\ unfinished' = FALSE
    /\ CallTo(r, "done")
    /\ UNCHANGED <<password, links, mailedLinks, arg, jobs, bounds, resets>>

-----------------------------------------------------------------------------
(* Password-reset links.                                                   *)

Usable(k) == ~links[k].used /\ ~links[k].old

\* resetPassword, up to findValid; Argon2 runs between this and the transaction.
Reset(r, k) ==
    /\ CallAt(r, "new")
    /\ CallTo(r, IF Usable(k) THEN "resetting" ELSE "done")
    /\ About(r, k)
    /\ UNCHANGED <<password, sessions, links, mailedLinks, jobs, bounds, accountHistory>>

\* FAULTY: the token is taken without its condition.
ConsumeAnyway(k) == TRUE

\* consume: markUsedIfUsable finds its row as the condition wants it.
Consumable(k) == Usable(k)

\* markAllUnusedAsUsed, of invalidateOutstanding.
Burned == [k \in DOMAIN links |-> [links[k] EXCEPT !.used = TRUE]]

\* FAULTY: the sessions stay.
CommitResetOnly(r) ==
    /\ CallAt(r, "resetting") /\ Consumable(arg[r])
    /\ password' = r
    /\ links' = Burned
    /\ resets' = Append(resets, [link |-> arg[r], issued |-> Len(links)])
    /\ CallTo(r, "done")
    /\ UNCHANGED <<sessions, mailedLinks, arg, jobs, bounds, opened, ended, crossing, straddlers,
                   unfinished>>

\* The transaction: consume, the new password, the other links, the sessions.
CommitReset(r) ==
    /\ CallAt(r, "resetting") /\ Consumable(arg[r])
    /\ password' = r
    /\ links' = Burned
    /\ EndAllSessions
    /\ resets' = Append(resets, [link |-> arg[r], issued |-> Len(links)])
    /\ CallTo(r, "done")
    /\ UNCHANGED <<mailedLinks, arg, jobs, bounds, opened>>

\* The link is not usable any more: the transaction rolls back.
RefuseReset(r) ==
    /\ CallAt(r, "resetting") /\ ~Consumable(arg[r])
    /\ CallTo(r, "done")
    /\ UNCHANGED <<password, sessions, links, mailedLinks, arg, jobs, bounds, accountHistory>>

Fresh == {k \in DOMAIN links : ~links[k].old}
Running == {j \in Jobs : jobStep[j] \in {"issuing", "mailing"}}

\* FAULTY: the ceiling is not checked.
TakeAnyJob(j) ==
    /\ jobStep[j] = "waiting" /\ Cardinality(Running) < Concurrency
    /\ jobStep' = [jobStep EXCEPT ![j] = "issuing"]
    /\ UNCHANGED <<password, sessions, links, mailedLinks, callStep, arg, attempts, made,
                   bounds, accountHistory>>

\* FAULTY: a retry takes it that the attempt before has issued the link.
TakeJobResuming(j) ==
    /\ jobStep[j] = "waiting" /\ Cardinality(Running) < Concurrency
    /\ jobStep' = [jobStep EXCEPT ![j] = IF attempts[j] > 0 THEN "mailing"
                                         ELSE IF Cardinality(Fresh) >= MaxPerHour THEN "done"
                                         ELSE "issuing"]
    /\ UNCHANGED <<password, sessions, links, mailedLinks, callStep, arg, attempts, made,
                   bounds, accountHistory>>

\* handlePasswordResetRequest, up to its check of the links issued in the last
\* hour.  At the ceiling the request is dropped.
TakeJob(j) ==
    /\ jobStep[j] = "waiting" /\ Cardinality(Running) < Concurrency
    /\ jobStep' = [jobStep EXCEPT ![j] = IF Cardinality(Fresh) >= MaxPerHour THEN "done"
                                         ELSE "issuing"]
    /\ UNCHANGED <<password, sessions, links, mailedLinks, callStep, arg, attempts, made,
                   bounds, accountHistory>>

NewLink == [used |-> FALSE, old |-> FALSE]

IssueLink(j) ==
    /\ jobStep[j] = "issuing"
    /\ links' = Append(links, NewLink)
    /\ made' = [made EXCEPT ![j] = Len(links) + 1]
    /\ jobStep' = [jobStep EXCEPT ![j] = "mailing"]
    /\ UNCHANGED <<password, sessions, mailedLinks, callStep, arg, attempts, bounds,
                   accountHistory>>

MailLink(j) ==
    /\ jobStep[j] = "mailing"
    /\ mailedLinks' = mailedLinks \cup {made[j]}
    /\ jobStep' = [jobStep EXCEPT ![j] = "done"]
    /\ UNCHANGED <<password, sessions, links, callStep, arg, attempts, made, bounds,
                   accountHistory>>

\* The queue's answer to a handler that threw.
Retry(j) ==
    /\ attempts' = [attempts EXCEPT ![j] = @ + 1]
    /\ jobStep' = [jobStep EXCEPT ![j] = IF attempts[j] + 1 < MaxAttempts THEN "waiting"
                                         ELSE "done"]

Fault == accountFaults < MaxAccountFaults /\ accountFaults' = accountFaults + 1

\* A command of a handler rejects, done or not.
JobFault(j) ==
    /\ Fault
    /\ \/ jobStep[j] \in {"issuing", "mailing"} /\ UNCHANGED <<links, mailedLinks>>
       \/ jobStep[j] = "issuing" /\ links' = Append(links, NewLink) /\ UNCHANGED mailedLinks
       \/ jobStep[j] = "mailing" /\ mailedLinks' = mailedLinks \cup {made[j]} /\ UNCHANGED links
    /\ Retry(j)
    /\ UNCHANGED <<password, sessions, callStep, arg, made, lapses, accountHistory>>

\* The worker dies; its active jobs run again, the attempt uncounted.
WorkerCrash ==
    /\ Fault /\ Running # {}
    /\ jobStep' = [j \in Jobs |-> IF j \in Running THEN "waiting" ELSE jobStep[j]]
    /\ UNCHANGED <<password, sessions, links, mailedLinks, callStep, arg, attempts, made, lapses,
                   accountHistory>>

\* A request ends early: a command or the commit rejects (two resets by different
\* links may deadlock, and one is the victim), or the process dies.
CallCutShort(r) ==
    /\ Fault
    /\ callStep[r] \notin {"new", "done"}
    /\ unfinished' = (unfinished \/ CallAt(r, "changed"))
    /\ CallTo(r, "done")
    /\ UNCHANGED <<password, sessions, links, mailedLinks, arg, jobs, lapses, opened, ended,
                   crossing, straddlers, resets>>

-----------------------------------------------------------------------------
Lapse == lapses < MaxLapses /\ lapses' = lapses + 1

\* Thirty days after the last refresh.
ExpireSession(t) ==
    /\ Lapse
    /\ ~sessions[t].expired
    /\ sessions' = [sessions EXCEPT ![t].expired = TRUE]
    /\ UNCHANGED <<password, links, mailedLinks, callStep, arg, jobs, accountFaults,
                   accountHistory>>

\* An hour after link k was issued.  The links up to it have expired, and the
\* ceiling, whose window is as long, no longer counts them.
HourPasses(k) ==
    /\ Lapse
    /\ ~links[k].old
    /\ links' = [i \in DOMAIN links |-> [links[i] EXCEPT !.old = @ \/ i <= k]]
    /\ UNCHANGED <<password, sessions, mailedLinks, callStep, arg, jobs, accountFaults,
                   accountHistory>>

-----------------------------------------------------------------------------
Session(r) ==
    \/ Login(r) \/ IssueSession(r)
    \/ \E t \in Ids : Refresh(r, t) \/ Logout(r, t)
    \/ Rotate(r) \/ CloseFamily(r) \/ RevokeById(r) \/ LogoutAll(r)

PasswordChange(r) ==
    \/ \E t \in Ids \cup {0} : Change(r, t)
    \/ WritePassword(r) \/ RevokeOthers(r)

PasswordReset(r) ==
    \/ \E k \in mailedLinks : Reset(r, k)
    \/ CommitReset(r) \/ RefuseReset(r)

Work(j) == TakeJob(j) \/ IssueLink(j) \/ MailLink(j)

AccountsNext ==
    \/ \E r \in Calls : Session(r) \/ PasswordChange(r) \/ PasswordReset(r) \/ CallCutShort(r)
    \/ \E j \in Jobs : Work(j) \/ JobFault(j)
    \/ WorkerCrash
    \/ \E t \in Ids : ExpireSession(t)
    \/ \E k \in DOMAIN links : HourPasses(k)

AccountsSpec == AccountsInit /\ [][AccountsNext]_accountVars

-----------------------------------------------------------------------------
(* Properties.                                                             *)

\* ADR 0003 on reuse, ADR 0011 on resets: a family that was ended has no live
\* token, unless a refresh was past its check when the family ended.
EndedStaysEnded ==
    \A t \in Ids : Live(t) /\ Family(t) \in ended => t \in straddlers

\* Every live session rests on the password in force: it was opened with it or was
\* the one kept when it was chosen.  The exceptions are a change still to revoke
\* the others, one cut short before it did, and what a request past its check
\* created.
SessionsMatchPassword ==
    \A t \in Ids : Live(t) =>
        \/ opened[t] = password
        \/ t \in straddlers
        \/ unfinished \/ \E r \in Calls : CallAt(r, "changed")

\* password-reset.service.ts, "a second use of the same token fail even under a
\* race", and account-tokens.service.ts, "an older reset link dies once a newer one
\* was used": each reset is made by a link issued after the resets before it.
LinksDieOnReset ==
    \A i, n \in DOMAIN resets : i < n => resets[n].link > resets[i].issued

\* The ceiling on links issued in an hour is overrun only by handlers that counted
\* at once, at most by all but one of those the worker runs; retries and crashes
\* add nothing to that.
CeilingOverrun == Cardinality(Fresh) <= MaxPerHour + Concurrency - 1

\* ADR 0003 and schema.prisma, "Rotation chain: each use of a token revokes it and
\* issues a new one in the same family": a family has one live token at most.
OneLiveTokenPerFamily ==
    \A f \in Ids : Cardinality({t \in InFamily(f) : Live(t)}) <= 1
=============================================================================
