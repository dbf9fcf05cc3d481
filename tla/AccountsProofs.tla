---------------------------- MODULE AccountsProofs ----------------------------
(***************************************************************************)
(* Theorems about Accounts, for any number of requests and jobs, any       *)
(* ceiling and concurrency of the worker, and any number of faults and of  *)
(* expiries.                                                               *)
(***************************************************************************)
EXTENDS Accounts, FiniteSetTheorems, SequenceTheorems, TLAPS

-----------------------------------------------------------------------------
(* The inductive invariant.                                                *)

RowsOK ==
    /\ password \in Passwords
    /\ sessions \in Seq(RefreshToken)
    /\ \A t \in Ids : sessions[t].family \in 1..t
    /\ opened \in Seq(Passwords) /\ Len(opened) = Len(sessions)
    /\ ended \subseteq Ids /\ straddlers \subseteq Ids
    /\ crossing \subseteq Calls
    /\ unfinished \in BOOLEAN

RequestsOK ==
    /\ callStep \in [Calls -> CallSteps]
    /\ arg \in [Calls -> Nat \cup Passwords]
    /\ \A r \in Calls : /\ callStep[r] \in {"rotating", "closing", "leaving"} => arg[r] \in Ids
                        /\ CallAt(r, "issuing") => arg[r] \in Passwords

SessionsOK == RowsOK /\ RequestsOK

Link == [used : BOOLEAN, old : BOOLEAN]

JobsOK ==
    /\ links \in Seq(Link)
    /\ mailedLinks \subseteq DOMAIN links
    /\ jobStep \in [Jobs -> {"waiting", "issuing", "mailing", "done"}]
    /\ attempts \in [Jobs -> 0..MaxAttempts]
    /\ made \in [Jobs -> Nat]
    /\ accountFaults \in Nat /\ lapses \in Nat
    /\ \A j \in Jobs : /\ jobStep[j] = "mailing" => made[j] \in DOMAIN links
                       /\ jobStep[j] # "done" => attempts[j] < MaxAttempts

ResetsOK ==
    /\ resets \in Seq([link : Nat, issued : Nat])
    /\ \A r \in Calls : CallAt(r, "resetting") => arg[r] \in DOMAIN links

LinksOK == JobsOK /\ ResetsOK

\* A change of the password that has not revoked the other sessions yet, or never will.
Excused == unfinished \/ \E r \in Calls : CallAt(r, "changed")

\* A token may be live: one that a crossing request created, or one of a family that goes
\* on, which rests on the password in force.
Sound(t) ==
    \/ t \in straddlers
    \/ Family(t) \notin ended /\ (opened[t] = password \/ Excused)

\* So may what a request past its check is going to create, or the request has crossed a
\* revocation.
SoundSessions ==
    /\ \A t \in Ids : Live(t) => Sound(t)
    /\ \A r \in Calls :
          /\ CallAt(r, "rotating") => r \in crossing \/ Sound(arg[r])
          /\ CallAt(r, "issuing") => r \in crossing \/ arg[r] = password \/ Excused

\* A reset has used up every link there was.
ResetsBurn ==
    /\ LinksDieOnReset
    /\ \A i \in DOMAIN resets :
          /\ resets[i].issued <= Len(links)
          /\ \A k \in 1..resets[i].issued : links[k].used

\* The links of the hour, with those still to be issued by handlers past their count.
Issuing == {j \in Jobs : jobStep[j] = "issuing"}
Ceiling ==
    /\ IsFiniteSet(Running) /\ Cardinality(Running) <= Concurrency
    /\ Cardinality(Fresh) + Cardinality(Issuing) <= MaxPerHour + Concurrency - 1

Inv == SessionsOK /\ LinksOK /\ SoundSessions /\ ResetsBurn /\ Ceiling

-----------------------------------------------------------------------------
(* The rows of the sessions.                                               *)

LEMMA SessionRows ==
  ASSUME SessionsOK
  PROVE  /\ Len(sessions) \in Nat /\ Ids = 1..Len(sessions) /\ DOMAIN opened = Ids
         /\ \A t \in Ids : /\ sessions[t] \in RefreshToken /\ opened[t] \in Passwords
                           /\ sessions[t].family \in Ids
  <1>1. Len(sessions) \in Nat /\ Ids = 1..Len(sessions) /\ DOMAIN opened = Ids
    BY DEF SessionsOK, RowsOK, Ids
  <1>2. \A t \in Ids : sessions[t] \in RefreshToken /\ opened[t] \in Passwords
    BY <1>1 DEF SessionsOK, RowsOK
  <1>3. \A t \in Ids : sessions[t].family \in 1..t
    BY DEF SessionsOK, RowsOK
  <1>4. \A t \in Ids : sessions[t].family \in Ids
    BY <1>1, <1>3
  <1> QED
    BY <1>1, <1>2, <1>4

LEMMA RevokedToken ==
  ASSUME NEW x \in RefreshToken, NEW b \in BOOLEAN
  PROVE  /\ [x EXCEPT !.revoked = b] \in RefreshToken
         /\ [x EXCEPT !.revoked = b].family = x.family
         /\ [x EXCEPT !.revoked = b].revoked = b
  BY DEF RefreshToken

\* A revocation takes tokens out of the live ones and changes nothing else.
LEMMA RevokedRows ==
  ASSUME SessionsOK, NEW S
  PROVE  /\ TokensRevoked(S) \in Seq(RefreshToken) /\ Len(TokensRevoked(S)) = Len(sessions)
         /\ DOMAIN TokensRevoked(S) = Ids
         /\ \A t \in Ids : /\ TokensRevoked(S)[t].family = Family(t)
                           /\ ~TokensRevoked(S)[t].revoked => Live(t) /\ t \notin S
  <1>1. \A t \in Ids : sessions[t].revoked \in BOOLEAN
    BY SessionRows DEF RefreshToken
  <1>2. \A t \in Ids : (sessions[t].revoked \/ t \in S) \in BOOLEAN
    BY <1>1, Zenon
  <1> DEFINE now(t) == [sessions[t] EXCEPT !.revoked = sessions[t].revoked \/ t \in S]
  <1>3. \A t \in Ids : /\ now(t) \in RefreshToken /\ now(t).family = sessions[t].family
                       /\ now(t).revoked = (sessions[t].revoked \/ t \in S)
    <2> TAKE t \in Ids
    <2> DEFINE b == sessions[t].revoked \/ t \in S
    <2>1. b \in BOOLEAN /\ sessions[t] \in RefreshToken
      BY <1>2, SessionRows
    <2> HIDE DEF b
    <2>2. /\ [sessions[t] EXCEPT !.revoked = b] \in RefreshToken
          /\ [sessions[t] EXCEPT !.revoked = b].family = sessions[t].family
          /\ [sessions[t] EXCEPT !.revoked = b].revoked = b
      BY <2>1, RevokedToken
    <2> QED
      BY <2>2 DEF b
  <1>4. TokensRevoked(S) = [t \in Ids |-> now(t)]
    BY DEF TokensRevoked
  <1>5. \A t \in Ids : ~now(t).revoked => Live(t) /\ t \notin S
    BY <1>3, Zenon DEF Live
  <1> HIDE DEF now
  <1>6. TokensRevoked(S) \in [1..Len(sessions) -> RefreshToken]
    BY <1>3, <1>4, SessionRows
  <1>7. TokensRevoked(S) \in Seq(RefreshToken) /\ Len(TokensRevoked(S)) = Len(sessions)
    BY <1>6, SessionRows, SeqDef
  <1> QED
    BY <1>3, <1>4, <1>5, <1>7 DEF Family

\* What a family, the password a session rests on and the rest of the history are of a
\* token stays when another one is created.
LEMMA GrownRows ==
  ASSUME SessionsOK, NEW base \in Seq(RefreshToken), Len(base) = Len(sessions),
         \A t \in Ids : base[t].family = Family(t),
         NEW f \in Ids \cup {Len(sessions) + 1}, NEW p \in Passwords,
         sessions' = Append(base, NewSession(f)), opened' = Append(opened, p)
  PROVE  /\ sessions' \in Seq(RefreshToken) /\ opened' \in Seq(Passwords)
         /\ Len(sessions') = Len(sessions) + 1 /\ Len(opened') = Len(sessions')
         /\ Ids' = Ids \cup {Len(sessions) + 1}
         /\ \A t \in Ids : /\ sessions'[t] = base[t] /\ opened'[t] = opened[t]
         /\ sessions'[Len(sessions) + 1] = NewSession(f)
         /\ opened'[Len(sessions) + 1] = p
         /\ \A t \in Ids' : sessions'[t].family \in 1..t
  <1>1. /\ Len(sessions) \in Nat /\ Ids = 1..Len(sessions) /\ opened \in Seq(Passwords)
        /\ Len(opened) = Len(sessions) /\ f \in 1..Len(sessions) + 1
    BY SessionRows DEF SessionsOK, RowsOK
  <1>2. NewSession(f) \in RefreshToken /\ NewSession(f).family = f
    BY <1>1 DEF NewSession, RefreshToken
  <1>3. /\ sessions' \in Seq(RefreshToken) /\ Len(sessions') = Len(sessions) + 1
        /\ DOMAIN sessions' = 1..Len(sessions) + 1
        /\ \A t \in 1..Len(sessions) : sessions'[t] = base[t]
        /\ sessions'[Len(sessions) + 1] = NewSession(f)
    BY <1>1, <1>2
  <1>4. /\ opened' \in Seq(Passwords) /\ Len(opened') = Len(sessions) + 1
        /\ \A t \in 1..Len(sessions) : opened'[t] = opened[t]
        /\ opened'[Len(sessions) + 1] = p
    BY <1>1
  <1>5. \A t \in Ids : Family(t) \in 1..t
    BY DEF SessionsOK, RowsOK, Family
  <1>6. Ids' = Ids \cup {Len(sessions) + 1}
    BY <1>1, <1>3 DEF Ids
  <1>7. \A t \in Ids' : sessions'[t].family \in 1..t
    <2>1. \A t \in Ids : sessions'[t].family = Family(t)
      BY <1>1, <1>3
    <2>2. sessions'[Len(sessions) + 1].family \in 1..Len(sessions) + 1
      BY <1>1, <1>2, <1>3
    <2> QED
      BY <1>5, <1>6, <2>1, <2>2
  <1> QED
    BY <1>1, <1>3, <1>4, <1>6, <1>7

-----------------------------------------------------------------------------
(* The types of the session actions, kind by kind.                         *)

LEMMA StepTo ==
  ASSUME SessionsOK, NEW r \in Calls, NEW s \in CallSteps, CallTo(r, s)
  PROVE  /\ callStep' \in [Calls -> CallSteps] /\ callStep'[r] = s
         /\ \A q \in Calls \ {r} : callStep'[q] = callStep[q]
  BY DEF SessionsOK, RequestsOK, CallTo

\* A check: the request goes on with what it found.
LEMMA CheckRequests ==
  ASSUME SessionsOK, NEW r \in Calls, NEW s \in CallSteps, CallTo(r, s), Ids' = Ids,
         NEW x \in Nat \cup Passwords, About(r, x),
         s \in {"rotating", "closing", "leaving"} => x \in Ids,
         s = "issuing" => x \in Passwords
  PROVE  RequestsOK'
  <1>1. /\ arg' \in [Calls -> Nat \cup Passwords] /\ arg'[r] = x
        /\ \A q \in Calls \ {r} : arg'[q] = arg[q]
    BY DEF SessionsOK, RequestsOK, About
  <1>2. /\ callStep' \in [Calls -> CallSteps] /\ callStep'[r] = s
        /\ \A q \in Calls \ {r} : callStep'[q] = callStep[q]
    BY StepTo
  <1>3. ASSUME NEW q \in Calls
        PROVE  /\ callStep'[q] \in {"rotating", "closing", "leaving"} => arg'[q] \in Ids
               /\ callStep'[q] = "issuing" => arg'[q] \in Passwords
    BY <1>1, <1>2 DEF SessionsOK, RequestsOK, CallAt
  <1> QED
    BY <1>1, <1>2, <1>3 DEF RequestsOK, CallAt

\* A write: the request is done, or has its last statement to make.
LEMMA WriteRequests ==
  ASSUME SessionsOK, NEW r \in Calls, NEW s \in {"done", "changed"}, CallTo(r, s), arg' = arg,
         Ids \subseteq Ids'
  PROVE  RequestsOK'
  <1>1. /\ callStep' \in [Calls -> CallSteps] /\ callStep'[r] = s
        /\ \A q \in Calls \ {r} : callStep'[q] = callStep[q]
    BY StepTo DEF CallSteps
  <1> QED
    BY <1>1 DEF SessionsOK, RequestsOK, CallAt

LEMMA RevokingRows ==
  ASSUME RowsOK, SessionsOK, NEW S, sessions' = TokensRevoked(S), password' \in Passwords,
         opened' \in Seq(Passwords), Len(opened') = Len(opened),
         ended' \subseteq Ids, straddlers' \subseteq Ids, crossing' \subseteq Calls,
         unfinished' \in BOOLEAN
  PROVE  RowsOK' /\ Ids' = Ids
  <1>1. /\ sessions' \in Seq(RefreshToken) /\ Len(sessions') = Len(sessions) /\ Ids' = Ids
        /\ \A t \in Ids : sessions'[t].family = sessions[t].family
    BY RevokedRows DEF Family, Ids
  <1>2. \A t \in Ids' : sessions'[t].family \in 1..t
    BY <1>1 DEF RowsOK
  <1> QED
    BY <1>1, <1>2 DEF RowsOK

LEMMA CreatingRows ==
  ASSUME SessionsOK, NEW base \in Seq(RefreshToken), Len(base) = Len(sessions),
         \A t \in Ids : base[t].family = Family(t),
         NEW f \in Ids \cup {Len(sessions) + 1}, NEW p \in Passwords,
         NEW r \in Calls, NEW late \in BOOLEAN,
         sessions' = Append(base, NewSession(f)), Creates(r, p, late), password' = password
  PROVE  RowsOK' /\ Ids \subseteq Ids'
  <1>1. opened' = Append(opened, p)
    BY DEF Creates
  <1>2. /\ sessions' \in Seq(RefreshToken) /\ opened' \in Seq(Passwords)
        /\ Len(opened') = Len(sessions')
        /\ Ids' = Ids \cup {Len(sessions) + 1}
        /\ \A t \in Ids' : sessions'[t].family \in 1..t
    BY <1>1, GrownRows
  <1>3. ended' \subseteq Ids' /\ straddlers' \subseteq Ids' /\ UNCHANGED <<crossing, unfinished>>
    BY <1>2 DEF Creates, SessionsOK, RowsOK
  <1> QED
    BY <1>2, <1>3 DEF SessionsOK, RowsOK

-----------------------------------------------------------------------------
(* The types of the sessions are kept.                                     *)

\* Nothing but where the requests are.
RowsStay == UNCHANGED <<password, sessions, opened, ended, straddlers, crossing>>

LEMMA StayingRows ==
  ASSUME SessionsOK, RowsStay, unfinished' \in BOOLEAN
  PROVE  RowsOK' /\ Ids' = Ids
  BY DEF SessionsOK, RowsOK, RowsStay, Ids

LEMMA EndedHistory ==
  ASSUME SessionsOK, NEW S, NEW F \in SUBSET Ids, NEW R \in SUBSET Calls, Ended(S, F, R)
  PROVE  ended' \subseteq Ids /\ straddlers' \subseteq Ids /\ crossing' \subseteq Calls
  BY DEF SessionsOK, RowsOK, Ended

LEMMA CheckTypes ==
  ASSUME SessionsOK, LinksOK, NEW r \in Calls,
         \/ Login(r)
         \/ \E t \in Ids : Refresh(r, t) \/ Logout(r, t)
         \/ \E t \in Ids \cup {0} : Change(r, t)
         \/ \E k \in mailedLinks : Reset(r, k)
  PROVE  SessionsOK'
  <1>1. RowsStay /\ unfinished' = unfinished
    BY DEF Login, Refresh, Logout, Change, Reset, RowsStay, accountHistory
  <1>2. RowsOK' /\ Ids' = Ids
    BY <1>1, StayingRows DEF SessionsOK, RowsOK
  <1>3. \E s \in CallSteps, x \in Nat \cup Passwords :
           /\ CallTo(r, s) /\ About(r, x)
           /\ s \in {"rotating", "closing", "leaving"} => x \in Ids
           /\ s = "issuing" => x \in Passwords
    <2>1. CASE Login(r)
      BY <2>1 DEF Login, CallSteps
    <2>2. ASSUME NEW t \in Ids, Refresh(r, t) \/ Logout(r, t)
          PROVE  <1>3
      <3>1. t \in Nat
        BY SessionRows
      <3>2. \E s \in CallSteps \ {"issuing"} : CallTo(r, s) /\ About(r, t)
        BY <2>2 DEF Refresh, Logout, CallSteps
      <3> QED
        BY <3>1, <3>2
    <2>3. ASSUME NEW t \in Ids \cup {0}, Change(r, t)
          PROVE  <1>3
      <3>1. t \in Nat
        BY SessionRows
      <3> QED
        BY <2>3, <3>1 DEF Change, CallSteps
    <2>4. ASSUME NEW k \in mailedLinks, Reset(r, k)
          PROVE  <1>3
      <3>1. k \in Nat
        BY DEF LinksOK, JobsOK
      <3> QED
        BY <2>4, <3>1 DEF Reset, CallSteps
    <2> QED
      BY <2>1, <2>2, <2>3, <2>4
  <1> QED
    BY <1>2, <1>3, CheckRequests DEF SessionsOK

LEMMA CreateTypes ==
  ASSUME SessionsOK, NEW r \in Calls, IssueSession(r) \/ Rotate(r)
  PROVE  SessionsOK'
  <1>1. CallTo(r, "done") /\ arg' = arg
    BY DEF IssueSession, Rotate
  <1>2. CASE IssueSession(r)
    <2>1. arg[r] \in Passwords
      BY <1>2 DEF IssueSession, SessionsOK, RequestsOK
    <2>2. sessions \in Seq(RefreshToken) /\ \A t \in Ids : sessions[t].family = Family(t)
      BY DEF SessionsOK, RowsOK, Family
    <2>3. RowsOK' /\ Ids \subseteq Ids'
      BY <1>2, <2>1, <2>2, CreatingRows DEF IssueSession
    <2> QED
      BY <1>1, <2>3, WriteRequests DEF SessionsOK
  <1>3. CASE Rotate(r)
    <2> DEFINE t == arg[r]
    <2>1. t \in Ids /\ Family(t) \in Ids /\ opened[t] \in Passwords
      BY <1>3, SessionRows DEF Rotate, SessionsOK, RequestsOK, CallAt, Family
    <2>2. /\ TokensRevoked({t}) \in Seq(RefreshToken) /\ Len(TokensRevoked({t})) = Len(sessions)
          /\ \A u \in Ids : TokensRevoked({t})[u].family = Family(u)
      BY RevokedRows
    <2>3. sessions' = Append(TokensRevoked({t}), NewSession(Family(t)))
      BY <1>3 DEF Rotate, Replaced
    <2>4. Creates(r, opened[t], t \in straddlers) /\ password' = password
      BY <1>3 DEF Rotate
    <2>5. (t \in straddlers) \in BOOLEAN
      OBVIOUS
    <2>6. RowsOK' /\ Ids \subseteq Ids'
      BY <2>1, <2>2, <2>3, <2>4, <2>5, CreatingRows
    <2> QED
      BY <1>1, <2>6, WriteRequests DEF SessionsOK
  <1> QED
    BY <1>2, <1>3

LEMMA RevokeTypes ==
  ASSUME SessionsOK, NEW r \in Calls,
         CloseFamily(r) \/ RevokeById(r) \/ LogoutAll(r) \/ RevokeOthers(r) \/ CommitReset(r)
  PROVE  SessionsOK'
  <1>1. CallTo(r, "done") /\ arg' = arg
    BY DEF CloseFamily, RevokeById, LogoutAll, RevokeOthers, CommitReset
  <1>2. \A S : Rotating(S) \subseteq Calls /\ LoggingIn \subseteq Calls
    BY DEF Rotating, LoggingIn
  <1>3. \A S : S \subseteq Ids => {Family(t) : t \in S} \subseteq Ids
    BY SessionRows DEF Family
  <1>4. password \in Passwords /\ opened \in Seq(Passwords) /\ unfinished \in BOOLEAN
    BY DEF SessionsOK, RowsOK
  <1>5. password' \in Passwords
    BY <1>4 DEF CloseFamily, RevokeById, LogoutAll, RevokeOthers, CommitReset, Passwords
  <1>6. opened' \in Seq(Passwords) /\ Len(opened') = Len(opened)
    <2>1. CASE RevokeOthers(r)
      <3>1. opened' \in [1..Len(sessions) -> Passwords]
        BY <1>4, <2>1, SessionRows DEF RevokeOthers
      <3> QED
        BY <3>1, SessionRows, SeqDef DEF SessionsOK, RowsOK
    <2>2. CASE ~RevokeOthers(r)
      BY <1>4, <2>2 DEF CloseFamily, RevokeById, LogoutAll, CommitReset, accountHistory
    <2> QED
      BY <2>1, <2>2
  <1>7. RowsOK' /\ Ids' = Ids
    <2>1. CASE CloseFamily(r)
      <3> DEFINE f == Family(arg[r])
      <3>1. f \in Ids
        BY <2>1, SessionRows DEF CloseFamily, SessionsOK, RequestsOK, CallAt, Family
      <3>2. /\ sessions' = TokensRevoked(InFamily(f)) /\ unfinished' = unfinished
            /\ Ended(InFamily(f), {f}, Rotating(InFamily(f)))
        BY <2>1 DEF CloseFamily
      <3>3. ended' \subseteq Ids /\ straddlers' \subseteq Ids /\ crossing' \subseteq Calls
        <4> HIDE DEF f
        <4> QED
          BY <1>2, <3>1, <3>2, EndedHistory
      <3> QED
        BY <1>4, <1>5, <1>6, <3>2, <3>3, RevokingRows DEF SessionsOK
    <2>2. CASE RevokeById(r)
      <3>1. /\ sessions' = TokensRevoked({arg[r]})
            /\ UNCHANGED <<ended, straddlers, crossing, unfinished>>
        BY <2>2 DEF RevokeById, accountHistory
      <3>2. ended' \subseteq Ids /\ straddlers' \subseteq Ids /\ crossing' \subseteq Calls
        BY <3>1 DEF SessionsOK, RowsOK
      <3> QED
        BY <1>4, <1>5, <1>6, <3>1, <3>2, RevokingRows DEF SessionsOK
    <2>3. CASE LogoutAll(r) \/ CommitReset(r)
      <3>1. EndAllSessions
        BY <2>3 DEF LogoutAll, CommitReset
      <3>2. /\ sessions' = TokensRevoked(Ids) /\ unfinished' = FALSE
            /\ Ended(Ids, {Family(t) : t \in Ids}, Rotating(Ids) \cup LoggingIn)
        BY <3>1 DEF EndAllSessions
      <3>3. ended' \subseteq Ids /\ straddlers' \subseteq Ids /\ crossing' \subseteq Calls
        BY <1>2, <1>3, <3>2, EndedHistory
      <3> QED
        BY <1>5, <1>6, <3>2, <3>3, RevokingRows DEF SessionsOK
    <2>4. CASE RevokeOthers(r)
      <3> DEFINE others == Ids \ {arg[r]}
                 F == {Family(t) : t \in others} \ {Family(t) : t \in Ids \cap {arg[r]}}
      <3>1. /\ sessions' = TokensRevoked(others) /\ unfinished' = FALSE
            /\ Ended(others, F, Rotating(others) \cup LoggingIn)
        BY <2>4 DEF RevokeOthers
      <3>2. F \subseteq Ids
        BY <1>3
      <3>3. ended' \subseteq Ids /\ straddlers' \subseteq Ids /\ crossing' \subseteq Calls
        <4> HIDE DEF F, others
        <4> QED
          BY <1>2, <3>1, <3>2, EndedHistory
      <3> HIDE DEF F, others
      <3> QED
        BY <1>5, <1>6, <3>1, <3>3, RevokingRows DEF SessionsOK
    <2> QED
      BY <2>1, <2>2, <2>3, <2>4
  <1> QED
    BY <1>1, <1>7, WriteRequests DEF SessionsOK

\* What concerns the links, the jobs or the clock only.
Elsewhere ==
    \/ \E j \in Jobs : Work(j) \/ JobFault(j)
    \/ WorkerCrash
    \/ \E k \in DOMAIN links : HourPasses(k)

LEMMA ElsewhereSessions ==
  ASSUME Elsewhere
  PROVE  UNCHANGED <<password, sessions, callStep, arg, opened, ended, crossing, straddlers, resets,
                     unfinished>>
  BY DEF Elsewhere, Work, TakeJob, IssueLink, MailLink, JobFault, WorkerCrash, HourPasses,
         accountHistory

LEMMA ExpiredToken ==
  ASSUME NEW x \in RefreshToken
  PROVE  /\ [x EXCEPT !.expired = TRUE] \in RefreshToken
         /\ [x EXCEPT !.expired = TRUE].family = x.family
         /\ [x EXCEPT !.expired = TRUE].revoked = x.revoked
  BY DEF RefreshToken

\* A token expires: nothing here depends on it.
LEMMA ExpiredRows ==
  ASSUME SessionsOK, NEW t \in Ids, ExpireSession(t)
  PROVE  /\ sessions' \in Seq(RefreshToken) /\ Len(sessions') = Len(sessions) /\ Ids' = Ids
         /\ \A u \in Ids : /\ sessions'[u].family = sessions[u].family
                           /\ sessions'[u].revoked = sessions[u].revoked
  <1> DEFINE x == [sessions[t] EXCEPT !.expired = TRUE]
  <1>1. sessions' = [sessions EXCEPT ![t] = x]
    BY DEF ExpireSession
  <1>2. x \in RefreshToken /\ x.family = sessions[t].family /\ x.revoked = sessions[t].revoked
    <2>1. sessions[t] \in RefreshToken
      BY SessionRows
    <2> QED
      BY <2>1, ExpiredToken
  <1> HIDE DEF x
  <1>3. sessions' \in Seq(RefreshToken) /\ Len(sessions') = Len(sessions) /\ Ids' = Ids
    BY <1>1, <1>2 DEF SessionsOK, RowsOK, Ids
  <1> QED
    BY <1>1, <1>2, <1>3 DEF SessionsOK, RowsOK, Ids

LEMMA SessionsStep ==
  ASSUME SessionsOK, LinksOK, [AccountsNext]_accountVars
  PROVE  SessionsOK'
  <1>1. CASE UNCHANGED accountVars
    BY <1>1 DEF accountVars, accountHistory, SessionsOK, RowsOK, RequestsOK, Ids, CallAt
  <1>2. ASSUME NEW r \in Calls, Session(r)
        PROVE  SessionsOK'
    BY <1>2, CheckTypes, CreateTypes, RevokeTypes DEF Session
  <1>3. ASSUME NEW r \in Calls, PasswordChange(r)
        PROVE  SessionsOK'
    <2>1. CASE WritePassword(r)
      <3>1. /\ CallTo(r, "changed") /\ password' = r
            /\ UNCHANGED <<sessions, arg, opened, ended, straddlers, crossing, unfinished>>
        BY <2>1 DEF WritePassword, accountHistory
      <3>2. RowsOK' /\ Ids' = Ids
        BY <3>1 DEF SessionsOK, RowsOK, Ids, Passwords
      <3> QED
        BY <3>1, <3>2, WriteRequests DEF SessionsOK
    <2> QED
      BY <1>3, <2>1, CheckTypes, RevokeTypes DEF PasswordChange
  <1>4. ASSUME NEW r \in Calls, RefuseReset(r) \/ CallCutShort(r)
        PROVE  SessionsOK'
    <2>1. CallTo(r, "done") /\ arg' = arg /\ RowsStay
      BY <1>4 DEF RefuseReset, CallCutShort, RowsStay, accountHistory
    <2>2. unfinished' \in BOOLEAN
      <3>1. CASE RefuseReset(r)
        BY <3>1 DEF RefuseReset, accountHistory, SessionsOK, RowsOK
      <3>2. CASE CallCutShort(r)
        <4>1. unfinished' = (unfinished \/ CallAt(r, "changed"))
          BY <3>2 DEF CallCutShort
        <4> QED
          BY <4>1, Zenon
      <3> QED
        BY <1>4, <3>1, <3>2
    <2> QED
      BY <2>1, <2>2, StayingRows, WriteRequests DEF SessionsOK
  <1>5. ASSUME NEW r \in Calls, PasswordReset(r)
        PROVE  SessionsOK'
    BY <1>4, <1>5, CheckTypes, RevokeTypes DEF PasswordReset
  <1>6. ASSUME NEW t \in Ids, ExpireSession(t)
        PROVE  SessionsOK'
    <2>1. /\ sessions' \in Seq(RefreshToken) /\ Len(sessions') = Len(sessions) /\ Ids' = Ids
          /\ \A u \in Ids : sessions'[u].family = sessions[u].family
      BY <1>6, ExpiredRows
    <2>2. UNCHANGED <<password, callStep, arg, opened, ended, crossing, straddlers, unfinished>>
      BY <1>6 DEF ExpireSession, accountHistory
    <2>3. \A u \in Ids' : sessions'[u].family \in 1..u
      BY <2>1 DEF SessionsOK, RowsOK
    <2> QED
      BY <2>1, <2>2, <2>3 DEF SessionsOK, RowsOK, RequestsOK, CallAt
  <1>7. CASE Elsewhere
    <2>1. UNCHANGED <<password, sessions, callStep, arg, opened, ended, crossing, straddlers,
                      unfinished>>
      BY <1>7, ElsewhereSessions
    <2> QED
      BY <2>1 DEF SessionsOK, RowsOK, RequestsOK, Ids, CallAt
  <1> QED
    BY <1>1, <1>2, <1>3, <1>4, <1>5, <1>6, <1>7 DEF AccountsNext, Elsewhere

-----------------------------------------------------------------------------
(* Live tokens are sound.                                                  *)

LEMMA ExcusedKept ==
  ASSUME SessionsOK, NEW r \in Calls, NEW s \in CallSteps, CallTo(r, s), ~CallAt(r, "changed"),
         unfinished' = unfinished
  PROVE  Excused => Excused'
  <1>1. \A q \in Calls \ {r} : callStep'[q] = callStep[q]
    BY StepTo
  <1> QED
    BY <1>1 DEF Excused, CallAt

\* A step that creates no token, ends no family and keeps the excuse there is.
Quiet ==
    /\ Ids' = Ids
    /\ \A t \in Ids : /\ sessions'[t].family = sessions[t].family
                      /\ ~sessions'[t].revoked => Live(t)
    /\ UNCHANGED <<opened, ended, straddlers, crossing>>
    /\ password' = password \/ Excused'
    /\ Excused => Excused'

LEMMA QuietSound ==
  ASSUME SessionsOK, SoundSessions, Quiet,
         \A q \in Calls : callStep'[q] = "rotating" =>
            \/ CallAt(q, "rotating") /\ arg'[q] = arg[q]
            \/ arg'[q] \in Ids /\ Live(arg'[q]),
         \A q \in Calls : callStep'[q] = "issuing" =>
            \/ CallAt(q, "issuing") /\ arg'[q] = arg[q]
            \/ arg'[q] = password'
  PROVE  SoundSessions'
  <1>1. \A t \in Ids : Sound(t) => Sound(t)'
    BY DEF Sound, Quiet, Family
  <1>2. \A t \in Ids' : Live(t)' => Sound(t)'
    BY <1>1 DEF Quiet, SoundSessions, Live
  <1>3. ASSUME NEW q \in Calls, callStep'[q] = "rotating"
        PROVE  q \in crossing' \/ Sound(arg[q])'
    <2>1. CASE CallAt(q, "rotating") /\ arg'[q] = arg[q]
      <3>1. q \in crossing \/ Sound(arg[q])
        BY <2>1 DEF SoundSessions
      <3>2. arg[q] \in Ids
        BY <2>1 DEF SessionsOK, RequestsOK, CallAt
      <3>3. arg'[q] \in Ids /\ (Sound(arg'[q]) => Sound(arg[q])')
        BY <1>1, <2>1, <3>2 DEF Sound, Quiet, Family
      <3> QED
        BY <2>1, <3>1, <3>3 DEF Quiet
    <2>2. CASE arg'[q] \in Ids /\ Live(arg'[q])
      <3>1. Sound(arg'[q])
        BY <2>2 DEF SoundSessions
      <3>2. Sound(arg[q])'
        BY <2>2, <3>1 DEF Sound, Quiet, Family
      <3> QED
        BY <3>2
    <2> QED
      BY <1>3, <2>1, <2>2
  <1>4. ASSUME NEW q \in Calls, callStep'[q] = "issuing"
        PROVE  q \in crossing' \/ arg'[q] = password' \/ Excused'
    BY <1>4 DEF SoundSessions, Quiet
  <1> QED
    BY <1>2, <1>3, <1>4 DEF SoundSessions, CallAt

\* A request that goes on alone from a check it made of rows that stay.
LEMMA CheckSound ==
  ASSUME SessionsOK, SoundSessions, NEW r \in Calls,
         \/ Login(r)
         \/ \E t \in Ids : Refresh(r, t) \/ Logout(r, t)
         \/ \E t \in Ids \cup {0} : Change(r, t)
         \/ \E k \in mailedLinks : Reset(r, k)
  PROVE  SoundSessions'
  <1>1. /\ RowsStay /\ unfinished' = unfinished /\ CallAt(r, "new")
    BY DEF Login, Refresh, Logout, Change, Reset, RowsStay, accountHistory
  <1>2. \E s \in CallSteps : \E x :
           /\ CallTo(r, s) /\ About(r, x)
           /\ s = "rotating" => x \in Ids /\ Live(x)
           /\ s = "issuing" => x = password
    <2>1. CASE Login(r)
      BY <2>1 DEF Login, CallSteps
    <2>2. ASSUME NEW t \in Ids, Refresh(r, t) \/ Logout(r, t)
          PROVE  <1>2
      BY <2>2 DEF Refresh, Logout, CallSteps
    <2>3. ASSUME NEW t \in Ids \cup {0}, Change(r, t)
          PROVE  <1>2
      BY <2>3 DEF Change, CallSteps
    <2>4. ASSUME NEW k \in mailedLinks, Reset(r, k)
          PROVE  <1>2
      BY <2>4 DEF Reset, CallSteps
    <2> QED
      BY <2>1, <2>2, <2>3, <2>4
  <1>3. PICK s, x :
           /\ s \in CallSteps /\ CallTo(r, s) /\ About(r, x)
           /\ s = "rotating" => x \in Ids /\ Live(x)
           /\ s = "issuing" => x = password
    BY <1>2
  <1>4. callStep'[r] = s /\ \A q \in Calls \ {r} : callStep'[q] = callStep[q]
    BY <1>3, StepTo
  <1>5. arg'[r] = x /\ \A q \in Calls \ {r} : arg'[q] = arg[q]
    BY <1>3 DEF About, SessionsOK, RequestsOK
  <1>6. Excused => Excused'
    BY <1>1, <1>3, ExcusedKept DEF CallAt
  <1>7. Quiet
    BY <1>1, <1>6 DEF Quiet, RowsStay, Ids, Live
  <1>8. \A q \in Calls : callStep'[q] = "rotating" =>
            \/ CallAt(q, "rotating") /\ arg'[q] = arg[q]
            \/ arg'[q] \in Ids /\ Live(arg'[q])
    BY <1>3, <1>4, <1>5 DEF CallAt
  <1>9. \A q \in Calls : callStep'[q] = "issuing" =>
            \/ CallAt(q, "issuing") /\ arg'[q] = arg[q]
            \/ arg'[q] = password'
    BY <1>1, <1>3, <1>4, <1>5 DEF CallAt, RowsStay
  <1> QED
    BY <1>7, <1>8, <1>9, QuietSound

\* A request that is done, or has its last statement to make, rotates and issues nothing.
LEMMA WriteSound ==
  ASSUME SessionsOK, SoundSessions, Quiet, NEW r \in Calls, NEW s \in {"done", "changed"},
         CallTo(r, s), arg' = arg
  PROVE  SoundSessions'
  <1>1. callStep'[r] = s /\ \A q \in Calls \ {r} : callStep'[q] = callStep[q]
    BY StepTo DEF CallSteps
  <1> QED
    BY <1>1, QuietSound DEF CallAt

\* The token a request creates is sound, since the request has crossed a revocation or
\* what it rests on is.
LEMMA CreateSound ==
  ASSUME SessionsOK, SoundSessions, NEW r \in Calls, IssueSession(r) \/ Rotate(r)
  PROVE  SoundSessions'
  <1> DEFINE n == Len(sessions) + 1
  <1>1. /\ CallTo(r, "done") /\ arg' = arg /\ password' = password /\ ~CallAt(r, "changed")
        /\ UNCHANGED <<ended, crossing, unfinished>>
    BY DEF IssueSession, Rotate, Creates, CallAt
  <1>2. callStep'[r] = "done" /\ \A q \in Calls \ {r} : callStep'[q] = callStep[q]
    BY <1>1, StepTo DEF CallSteps
  <1>3. Excused => Excused'
    BY <1>1, ExcusedKept DEF CallSteps
  <1>4. ended \subseteq Ids /\ straddlers \subseteq Ids /\ n \notin Ids
    BY SessionRows DEF SessionsOK, RowsOK
  <1>5. /\ Ids' = Ids \cup {n}
        /\ \A t \in Ids : /\ sessions'[t].family = Family(t) /\ opened'[t] = opened[t]
                          /\ ~sessions'[t].revoked => Live(t)
        /\ straddlers \subseteq straddlers'
        /\ \A u \in {n} : Sound(u)'
    <2>1. CASE IssueSession(r)
      <3>1. /\ sessions' = Append(sessions, NewSession(n))
            /\ opened' = Append(opened, arg[r]) /\ CallAt(r, "issuing")
            /\ straddlers' = straddlers \cup (IF r \in crossing THEN {n} ELSE {})
        BY <2>1 DEF IssueSession, Creates
      <3>2. arg[r] \in Passwords
        BY <3>1 DEF SessionsOK, RequestsOK
      <3>3. sessions \in Seq(RefreshToken) /\ \A t \in Ids : sessions[t].family = Family(t)
        BY DEF SessionsOK, RowsOK, Family
      <3>4. /\ Ids' = Ids \cup {n}
            /\ \A t \in Ids : sessions'[t] = sessions[t] /\ opened'[t] = opened[t]
            /\ sessions'[n] = NewSession(n) /\ opened'[n] = arg[r]
        BY <3>1, <3>2, <3>3, GrownRows
      <3>5. sessions'[n].family = n
        BY <3>4 DEF NewSession
      <3>6. r \in crossing \/ arg[r] = password \/ Excused
        BY <3>1 DEF SoundSessions
      <3>7. ASSUME NEW u \in {n} PROVE Sound(u)'
        <4>1. CASE r \in crossing
          BY <3>1, <4>1 DEF Sound
        <4>2. CASE arg[r] = password \/ Excused
          BY <1>1, <1>3, <1>4, <3>4, <3>5, <4>2 DEF Sound, Family
        <4> QED
          BY <3>6, <4>1, <4>2
      <3> QED
        BY <3>1, <3>3, <3>4, <3>7 DEF Live
    <2>2. CASE Rotate(r)
      <3> DEFINE t == arg[r]  base == TokensRevoked({t})
      <3>1. /\ sessions' = Append(base, NewSession(Family(t))) /\ CallAt(r, "rotating")
            /\ opened' = Append(opened, opened[t])
            /\ straddlers' = straddlers \cup
                   (IF t \in straddlers \/ r \in crossing THEN {n} ELSE {})
        BY <2>2 DEF Rotate, Creates, Replaced
      <3>2. t \in Ids /\ Family(t) \in Ids /\ opened[t] \in Passwords
        BY <3>1, SessionRows DEF SessionsOK, RequestsOK, CallAt, Family
      <3>3. /\ base \in Seq(RefreshToken) /\ Len(base) = Len(sessions)
            /\ \A u \in Ids : /\ base[u].family = Family(u)
                              /\ ~base[u].revoked => Live(u)
        BY RevokedRows
      <3>4. /\ Ids' = Ids \cup {n}
            /\ \A u \in Ids : sessions'[u] = base[u] /\ opened'[u] = opened[u]
            /\ sessions'[n] = NewSession(Family(t)) /\ opened'[n] = opened[t]
        <4> HIDE DEF t, base
        <4> QED
          BY <3>1, <3>2, <3>3, GrownRows
      <3>5. sessions'[n].family = Family(t)
        BY <3>4 DEF NewSession
      <3>6. r \in crossing \/ Sound(t)
        BY <3>1 DEF SoundSessions
      <3>7. ASSUME NEW u \in {n} PROVE Sound(u)'
        <4>1. CASE r \in crossing \/ t \in straddlers
          BY <3>1, <4>1 DEF Sound
        <4>2. CASE Family(t) \notin ended /\ (opened[t] = password \/ Excused)
          <5> HIDE DEF t, n
          <5> QED
            BY <1>1, <1>3, <3>4, <3>5, <4>2 DEF Sound, Family
        <4> QED
          BY <3>6, <4>1, <4>2 DEF Sound
      <3>8. \A u \in Ids : /\ sessions'[u].family = Family(u) /\ opened'[u] = opened[u]
                           /\ ~sessions'[u].revoked => Live(u)
        <4> HIDE DEF base
        <4> QED
          BY <3>3, <3>4
      <3> QED
        BY <3>1, <3>4, <3>7, <3>8
    <2> QED
      BY <2>1, <2>2
  <1> HIDE DEF n
  <1>6. \A t \in Ids : Sound(t) => Sound(t)'
    BY <1>1, <1>3, <1>5 DEF Sound, Family
  <1>7. \A t \in Ids' : Live(t)' => Sound(t)'
    BY <1>5, <1>6 DEF SoundSessions, Live
  <1>8. ASSUME NEW q \in Calls, callStep'[q] = "rotating"
        PROVE  q \in crossing' \/ Sound(arg[q])'
    <2>1. CallAt(q, "rotating") /\ arg[q] \in Ids
      BY <1>2, <1>8 DEF SessionsOK, RequestsOK, CallAt
    <2>2. q \in crossing \/ Sound(arg[q])
      BY <2>1 DEF SoundSessions
    <2>3. Sound(arg[q]) => Sound(arg[q])'
      BY <1>1, <1>3, <1>5, <2>1 DEF Sound, Family
    <2> QED
      BY <1>1, <2>2, <2>3
  <1>9. ASSUME NEW q \in Calls, callStep'[q] = "issuing"
        PROVE  q \in crossing' \/ arg'[q] = password' \/ Excused'
    BY <1>1, <1>2, <1>3, <1>9 DEF SoundSessions, CallAt
  <1> QED
    BY <1>7, <1>8, <1>9 DEF SoundSessions, CallAt

\* The reuse of a token ends its family, and nothing else.
LEMMA CloseSound ==
  ASSUME SessionsOK, SoundSessions, NEW r \in Calls, CloseFamily(r)
  PROVE  SoundSessions'
  <1> DEFINE f == Family(arg[r])
  <1>1. /\ CallTo(r, "done") /\ arg' = arg /\ ~CallAt(r, "changed")
        /\ UNCHANGED <<password, opened, unfinished>>
        /\ sessions' = TokensRevoked(InFamily(f))
        /\ ended' = ended \cup {f} /\ straddlers' = straddlers \ InFamily(f)
        /\ crossing' = crossing \cup Rotating(InFamily(f))
    BY DEF CloseFamily, Ended, CallAt
  <1>2. callStep'[r] = "done" /\ \A q \in Calls \ {r} : callStep'[q] = callStep[q]
    BY <1>1, StepTo DEF CallSteps
  <1>3. Excused => Excused'
    BY <1>1, ExcusedKept DEF CallSteps
  <1>4. /\ Ids' = Ids
        /\ \A t \in Ids : /\ sessions'[t].family = Family(t)
                          /\ ~sessions'[t].revoked => Live(t) /\ t \notin InFamily(f)
    BY <1>1, RevokedRows DEF Ids
  <1> HIDE DEF f
  <1>5. \A t \in Ids \ InFamily(f) : Sound(t) => Sound(t)'
    BY <1>1, <1>3, <1>4 DEF Sound, Family, InFamily
  <1>6. \A t \in Ids' : Live(t)' => Sound(t)'
    BY <1>4, <1>5 DEF SoundSessions, Live
  <1>7. ASSUME NEW q \in Calls, callStep'[q] = "rotating"
        PROVE  q \in crossing' \/ Sound(arg[q])'
    <2>1. CallAt(q, "rotating") /\ arg[q] \in Ids
      BY <1>2, <1>7 DEF SessionsOK, RequestsOK, CallAt
    <2>2. CASE arg[q] \in InFamily(f)
      BY <1>1, <2>1, <2>2 DEF Rotating
    <2>3. CASE arg[q] \notin InFamily(f)
      <3>1. q \in crossing \/ Sound(arg[q])
        BY <2>1 DEF SoundSessions
      <3>2. Sound(arg[q]) => Sound(arg[q])'
        BY <1>1, <1>3, <1>4, <2>1, <2>3 DEF Sound, Family, InFamily
      <3> QED
        BY <1>1, <3>1, <3>2
    <2> QED
      BY <2>2, <2>3
  <1>8. ASSUME NEW q \in Calls, callStep'[q] = "issuing"
        PROVE  q \in crossing' \/ arg'[q] = password' \/ Excused'
    BY <1>1, <1>2, <1>3, <1>8 DEF SoundSessions, CallAt
  <1> QED
    BY <1>6, <1>7, <1>8 DEF SoundSessions, CallAt

\* Nothing is live, and whoever could still create a token has crossed the revocation.
LEMMA EndAllSound ==
  ASSUME SessionsOK, SoundSessions, NEW r \in Calls, EndAllSessions, CallTo(r, "done"), arg' = arg
  PROVE  SoundSessions'
  <1>1. /\ sessions' = TokensRevoked(Ids)
        /\ crossing' = crossing \cup (Rotating(Ids) \cup LoggingIn)
    BY DEF EndAllSessions, Ended
  <1>2. callStep'[r] = "done" /\ \A q \in Calls \ {r} : callStep'[q] = callStep[q]
    BY StepTo DEF CallSteps
  <1>3. Ids' = Ids /\ \A t \in Ids : ~Live(t)'
    BY <1>1, RevokedRows DEF Ids, Live
  <1>4. ASSUME NEW q \in Calls, callStep'[q] = "rotating"
        PROVE  q \in crossing'
    <2>1. CallAt(q, "rotating") /\ arg[q] \in Ids
      BY <1>2, <1>4 DEF SessionsOK, RequestsOK, CallAt
    <2> QED
      BY <1>1, <2>1 DEF Rotating
  <1>5. ASSUME NEW q \in Calls, callStep'[q] = "issuing"
        PROVE  q \in crossing'
    BY <1>1, <1>2, <1>5 DEF LoggingIn, CallAt
  <1> QED
    BY <1>3, <1>4, <1>5 DEF SoundSessions, CallAt

\* The session that is kept rests on the new password, and its family goes on.
LEMMA RevokeOthersSound ==
  ASSUME SessionsOK, SoundSessions, NEW r \in Calls, RevokeOthers(r)
  PROVE  SoundSessions'
  <1> DEFINE keep == arg[r]  others == Ids \ {keep}
             F == {Family(t) : t \in others} \ {Family(t) : t \in Ids \cap {keep}}
  <1>1. /\ CallTo(r, "done") /\ arg' = arg /\ password' = password
        /\ sessions' = TokensRevoked(others)
        /\ opened' = [t \in Ids |-> IF t = keep THEN password ELSE opened[t]]
        /\ ended' = ended \cup F /\ straddlers' = straddlers \ others
        /\ crossing' = crossing \cup (Rotating(others) \cup LoggingIn)
    BY DEF RevokeOthers, Ended
  <1>2. callStep'[r] = "done" /\ \A q \in Calls \ {r} : callStep'[q] = callStep[q]
    BY <1>1, StepTo DEF CallSteps
  <1>3. /\ Ids' = Ids
        /\ \A t \in Ids : /\ sessions'[t].family = Family(t)
                          /\ ~sessions'[t].revoked => Live(t) /\ t \notin others
    <2> HIDE DEF others
    <2> QED
      BY <1>1, RevokedRows DEF Ids
  <1>4. ASSUME NEW k \in Ids, k = keep, Sound(k)
        PROVE  Sound(k)'
    <2>1. Family(k) \notin F /\ k \notin others
      BY <1>4
    <2>2. opened'[k] = password' /\ sessions'[k].family = Family(k)
      BY <1>1, <1>3, <1>4
    <2> HIDE DEF F, others, keep
    <2> QED
      BY <1>1, <1>4, <2>1, <2>2 DEF Sound, Family
  <1>5. \A t \in Ids \ others : t = keep
    OBVIOUS
  <1>6. \A t \in Ids' : Live(t)' => Sound(t)'
    <2> SUFFICES ASSUME NEW t \in Ids', Live(t)' PROVE Sound(t)'
      OBVIOUS
    <2>1. t = keep /\ t \in Ids /\ Live(t)
      BY <1>3 DEF Live
    <2>2. Sound(t)
      BY <2>1 DEF SoundSessions
    <2> QED
      BY <1>4, <2>1, <2>2 DEF Sound, Family
  <1>7. ASSUME NEW q \in Calls, callStep'[q] = "rotating"
        PROVE  q \in crossing' \/ Sound(arg[q])'
    <2>1. CallAt(q, "rotating") /\ arg[q] \in Ids
      BY <1>2, <1>7 DEF SessionsOK, RequestsOK, CallAt
    <2>2. CASE arg[q] \in others
      BY <1>1, <2>1, <2>2 DEF Rotating
    <2>3. CASE arg[q] = keep
      <3>1. q \in crossing \/ Sound(arg[q])
        BY <2>1 DEF SoundSessions
      <3>2. Sound(arg[q]) => Sound(arg[q])'
        BY <1>1, <1>4, <2>1, <2>3 DEF Sound, Family
      <3> QED
        BY <1>1, <3>1, <3>2
    <2> QED
      BY <2>1, <2>2, <2>3
  <1>8. ASSUME NEW q \in Calls, callStep'[q] = "issuing"
        PROVE  q \in crossing'
    BY <1>1, <1>2, <1>8 DEF LoggingIn, CallAt
  <1> QED
    BY <1>6, <1>7, <1>8 DEF SoundSessions, CallAt

LEMMA SoundStep ==
  ASSUME SessionsOK, SoundSessions, [AccountsNext]_accountVars
  PROVE  SoundSessions'
  <1>1. CASE UNCHANGED accountVars
    <2>1. Quiet
      BY <1>1 DEF accountVars, accountHistory, Quiet, Ids, Live, Excused, CallAt
    <2>2. callStep' = callStep /\ arg' = arg
      BY <1>1 DEF accountVars
    <2> QED
      BY <2>1, <2>2, QuietSound DEF CallAt
  <1>2. ASSUME NEW r \in Calls, RevokeById(r)
        PROVE  SoundSessions'
    <2>1. /\ CallTo(r, "done") /\ arg' = arg /\ ~CallAt(r, "changed")
          /\ sessions' = TokensRevoked({arg[r]})
          /\ UNCHANGED <<password, opened, ended, straddlers, crossing, unfinished>>
      BY <1>2 DEF RevokeById, accountHistory, CallAt
    <2>2. Excused => Excused'
      BY <2>1, ExcusedKept DEF CallSteps
    <2>3. /\ Ids' = Ids
          /\ \A t \in Ids : /\ sessions'[t].family = sessions[t].family
                            /\ ~sessions'[t].revoked => Live(t)
      BY <2>1, RevokedRows DEF Ids, Family
    <2>4. Quiet
      BY <2>1, <2>2, <2>3 DEF Quiet
    <2> QED
      BY <2>1, <2>4, WriteSound
  <1>3. ASSUME NEW r \in Calls, LogoutAll(r) \/ CommitReset(r)
        PROVE  SoundSessions'
    <2>1. EndAllSessions /\ CallTo(r, "done") /\ arg' = arg
      BY <1>3 DEF LogoutAll, CommitReset
    <2> QED
      BY <2>1, EndAllSound
  <1>4. ASSUME NEW r \in Calls, WritePassword(r)
        PROVE  SoundSessions'
    <2>1. /\ CallTo(r, "changed") /\ arg' = arg
          /\ UNCHANGED <<sessions, opened, ended, straddlers, crossing>>
      BY <1>4 DEF WritePassword, accountHistory
    <2>2. callStep'[r] = "changed"
      BY <2>1, StepTo DEF CallSteps
    <2>3. Excused'
      BY <2>2 DEF Excused, CallAt
    <2>4. Quiet
      BY <2>1, <2>3 DEF Quiet, Ids, Live
    <2> QED
      BY <2>1, <2>4, WriteSound
  <1>5. ASSUME NEW r \in Calls, RefuseReset(r)
        PROVE  SoundSessions'
    <2>1. /\ CallTo(r, "done") /\ arg' = arg /\ RowsStay /\ unfinished' = unfinished
          /\ ~CallAt(r, "changed")
      BY <1>5 DEF RefuseReset, accountHistory, RowsStay, CallAt
    <2>2. Excused => Excused'
      BY <2>1, ExcusedKept DEF CallSteps
    <2>3. Quiet
      BY <2>1, <2>2 DEF Quiet, RowsStay, Ids, Live
    <2> QED
      BY <2>1, <2>3, WriteSound
  <1>6. ASSUME NEW r \in Calls, CallCutShort(r)
        PROVE  SoundSessions'
    <2>1. /\ CallTo(r, "done") /\ arg' = arg /\ RowsStay
          /\ unfinished' = (unfinished \/ CallAt(r, "changed"))
      BY <1>6 DEF CallCutShort, RowsStay
    <2>2. \A q \in Calls \ {r} : callStep'[q] = callStep[q]
      BY <2>1, StepTo DEF CallSteps
    <2>3. Excused => Excused'
      <3>1. CASE unfinished \/ CallAt(r, "changed")
        BY <2>1, <3>1, Zenon DEF Excused
      <3>2. ASSUME NEW q \in Calls \ {r}, CallAt(q, "changed")
            PROVE  Excused'
        BY <2>2, <3>2 DEF Excused, CallAt
      <3> QED
        BY <3>1, <3>2 DEF Excused
    <2>4. Quiet
      BY <2>1, <2>3 DEF Quiet, RowsStay, Ids, Live
    <2> QED
      BY <2>1, <2>4, WriteSound
  <1>7. ASSUME NEW t \in Ids, ExpireSession(t)
        PROVE  SoundSessions'
    <2>1. UNCHANGED <<password, callStep, arg, opened, ended, crossing, straddlers, unfinished>>
      BY <1>7 DEF ExpireSession, accountHistory
    <2>2. /\ Ids' = Ids
          /\ \A u \in Ids : /\ sessions'[u].family = sessions[u].family
                            /\ ~sessions'[u].revoked => Live(u)
      BY <1>7, ExpiredRows DEF Live
    <2>3. Excused => Excused'
      BY <2>1 DEF Excused, CallAt
    <2>4. Quiet
      BY <2>1, <2>2, <2>3 DEF Quiet
    <2> QED
      BY <2>1, <2>4, QuietSound DEF CallAt
  <1>8. CASE Elsewhere
    <2>1. UNCHANGED <<password, sessions, callStep, arg, opened, ended, crossing, straddlers,
                      unfinished>>
      BY <1>8, ElsewhereSessions
    <2>2. Quiet
      BY <2>1 DEF Quiet, Ids, Live, Excused, CallAt
    <2> QED
      BY <2>1, <2>2, QuietSound DEF CallAt
  <1>9. ASSUME NEW r \in Calls,
               Session(r) \/ PasswordChange(r) \/ PasswordReset(r) \/ CallCutShort(r)
        PROVE  SoundSessions'
    <2>1. CASE Session(r)
      BY <1>2, <1>3, <2>1, CheckSound, CreateSound, CloseSound DEF Session
    <2>2. CASE PasswordChange(r)
      BY <1>4, <2>2, CheckSound, RevokeOthersSound DEF PasswordChange
    <2>3. CASE PasswordReset(r)
      BY <1>3, <1>5, <2>3, CheckSound DEF PasswordReset
    <2> QED
      BY <1>6, <1>9, <2>1, <2>2, <2>3
  <1> QED
    BY <1>1, <1>7, <1>8, <1>9 DEF AccountsNext, Elsewhere

-----------------------------------------------------------------------------
(* The rows of the links, and the jobs.                                    *)

LEMMA LinkRows ==
  ASSUME LinksOK
  PROVE  /\ Len(links) \in Nat /\ DOMAIN links = 1..Len(links)
         /\ \A k \in 1..Len(links) : links[k] \in Link
  BY DEF LinksOK, JobsOK

LEMMA LinkColumns ==
  ASSUME NEW x \in Link, NEW b \in BOOLEAN
  PROVE  /\ [x EXCEPT !.used = TRUE] \in Link
         /\ [x EXCEPT !.used = TRUE].used /\ [x EXCEPT !.used = TRUE].old = x.old
         /\ [x EXCEPT !.old = b] \in Link
         /\ [x EXCEPT !.old = b].used = x.used /\ [x EXCEPT !.old = b].old = b
  BY DEF Link

\* What may become of the rows: an older link stays used, and none gets younger.
Later(new) ==
    /\ new \in Seq(Link) /\ DOMAIN new = 1..Len(new) /\ Len(links) <= Len(new)
    /\ \A k \in 1..Len(links) : /\ links[k].used => new[k].used
                                /\ links[k].old => new[k].old

LEMMA BurnedRows ==
  ASSUME LinksOK
  PROVE  /\ Later(Burned) /\ Len(Burned) = Len(links)
         /\ \A k \in 1..Len(links) : Burned[k].used /\ Burned[k].old = links[k].old
  <1>1. \A k \in 1..Len(links) : /\ [links[k] EXCEPT !.used = TRUE] \in Link
                                 /\ [links[k] EXCEPT !.used = TRUE].used
                                 /\ [links[k] EXCEPT !.used = TRUE].old = links[k].old
    BY LinkRows, LinkColumns
  <1>2. /\ Burned \in [1..Len(links) -> Link]
        /\ \A k \in 1..Len(links) : Burned[k].used /\ Burned[k].old = links[k].old
    BY <1>1, LinkRows DEF Burned
  <1>3. Burned \in Seq(Link) /\ Len(Burned) = Len(links) /\ DOMAIN Burned = 1..Len(links)
    BY <1>2, LinkRows, SeqDef
  <1> QED
    BY <1>2, <1>3, LinkRows DEF Later

Aged(k) == [i \in DOMAIN links |-> [links[i] EXCEPT !.old = @ \/ i <= k]]

LEMMA AgedRows ==
  ASSUME LinksOK, NEW k
  PROVE  /\ Later(Aged(k)) /\ Len(Aged(k)) = Len(links)
         /\ \A i \in 1..Len(links) : Aged(k)[i].used = links[i].used
  <1>1. \A i \in 1..Len(links) : (links[i].old \/ i <= k) \in BOOLEAN
    BY Zenon
  <1>2. ASSUME NEW i \in 1..Len(links)
        PROVE  /\ [links[i] EXCEPT !.old = links[i].old \/ i <= k] \in Link
               /\ [links[i] EXCEPT !.old = links[i].old \/ i <= k].used = links[i].used
               /\ links[i].old => [links[i] EXCEPT !.old = links[i].old \/ i <= k].old
    <2> DEFINE b == links[i].old \/ i <= k
    <2>1. b \in BOOLEAN /\ links[i] \in Link /\ (links[i].old => b)
      BY <1>1, LinkRows
    <2> HIDE DEF b
    <2>2. /\ [links[i] EXCEPT !.old = b] \in Link
          /\ [links[i] EXCEPT !.old = b].used = links[i].used
          /\ links[i].old => [links[i] EXCEPT !.old = b].old
      BY <2>1, LinkColumns
    <2> QED
      BY <2>2 DEF b
  <1> DEFINE now(i) == [links[i] EXCEPT !.old = links[i].old \/ i <= k]
  <1>3. Aged(k) = [i \in 1..Len(links) |-> now(i)]
    BY LinkRows DEF Aged
  <1>4. \A i \in 1..Len(links) : /\ now(i) \in Link /\ now(i).used = links[i].used
                                 /\ links[i].old => now(i).old
    BY <1>2
  <1> HIDE DEF now
  <1>5. /\ Aged(k) \in [1..Len(links) -> Link]
        /\ \A i \in 1..Len(links) : /\ Aged(k)[i].used = links[i].used
                                    /\ links[i].old => Aged(k)[i].old
    BY <1>3, <1>4
  <1>6. Aged(k) \in Seq(Link) /\ Len(Aged(k)) = Len(links) /\ DOMAIN Aged(k) = 1..Len(links)
    BY <1>5, LinkRows, SeqDef
  <1> QED
    BY <1>5, <1>6, LinkRows DEF Later

LEMMA IssuedRows ==
  ASSUME LinksOK
  PROVE  /\ Later(Append(links, NewLink)) /\ Len(Append(links, NewLink)) = Len(links) + 1
         /\ \A k \in 1..Len(links) : Append(links, NewLink)[k] = links[k]
  <1>1. NewLink \in Link
    BY DEF NewLink, Link
  <1>2. links \in Seq(Link)
    BY DEF LinksOK, JobsOK, Link
  <1> QED
    BY <1>1, <1>2 DEF Later

-----------------------------------------------------------------------------
(* The types of the links and of the jobs are kept.                        *)

\* What concerns the sessions, or only where a request is.
LinksStay == UNCHANGED <<links, mailedLinks, jobs>>

LEMMA SessionLinks ==
  ASSUME NEW r \in Calls,
         Session(r) \/ PasswordChange(r) \/ RefuseReset(r) \/ CallCutShort(r)
         \/ \E k \in mailedLinks : Reset(r, k)
  PROVE  /\ LinksStay /\ resets' = resets /\ lapses' = lapses
         /\ (accountFaults' = accountFaults \/ Fault)
  <1>1. CASE Session(r)
    BY <1>1 DEF Session, Login, IssueSession, Refresh, Logout, Rotate, CloseFamily, RevokeById,
                LogoutAll, LinksStay, accountHistory, bounds, Creates
  <1>2. CASE PasswordChange(r)
    BY <1>2 DEF PasswordChange, Change, WritePassword, RevokeOthers, LinksStay, accountHistory,
       bounds
  <1>3. CASE RefuseReset(r) \/ CallCutShort(r) \/ \E k \in mailedLinks : Reset(r, k)
    BY <1>3 DEF RefuseReset, CallCutShort, Reset, LinksStay, accountHistory, bounds
  <1> QED
    BY <1>1, <1>2, <1>3

\* A request about to consume a link has found it.
LinksFound == \A q \in Calls : callStep'[q] = "resetting" => arg'[q] \in DOMAIN links

LEMMA ResettingStep ==
  ASSUME SessionsOK, LinksOK, [AccountsNext]_accountVars
  PROVE  LinksFound
  <1>1. ASSUME callStep' = callStep, arg' = arg
        PROVE  LinksFound
    BY <1>1 DEF LinksFound, LinksOK, ResetsOK, CallAt
  <1>2. ASSUME NEW r \in Calls, NEW s \in CallSteps, CallTo(r, s),
               arg' = arg \/ \E x : About(r, x), s # "resetting"
        PROVE  LinksFound
    <2>1. callStep'[r] = s /\ \A q \in Calls \ {r} : callStep'[q] = callStep[q]
      BY <1>2, StepTo
    <2>2. \A q \in Calls \ {r} : arg'[q] = arg[q]
      BY <1>2 DEF About, SessionsOK, RequestsOK
    <2> QED
      BY <1>2, <2>1, <2>2 DEF LinksFound, LinksOK, ResetsOK, CallAt
  <1>3. ASSUME NEW r \in Calls, NEW k \in mailedLinks, Reset(r, k)
        PROVE  LinksFound
    <2>1. k \in DOMAIN links
      BY DEF LinksOK, JobsOK
    <2>2. arg'[r] = k /\ \A q \in Calls \ {r} : arg'[q] = arg[q]
      BY <1>3 DEF Reset, About, SessionsOK, RequestsOK
    <2>3. \A q \in Calls \ {r} : callStep'[q] = callStep[q]
      BY <1>3, StepTo DEF Reset, CallSteps
    <2> QED
      BY <2>1, <2>2, <2>3 DEF LinksFound, LinksOK, ResetsOK, CallAt
  <1>4. ASSUME NEW r \in Calls, Session(r)
        PROVE  LinksFound
    <2>1. \E s \in CallSteps \ {"resetting"} : CallTo(r, s) /\ (arg' = arg \/ \E x : About(r, x))
      BY <1>4 DEF Session, Login, IssueSession, Refresh, Logout, Rotate, CloseFamily, RevokeById,
                  LogoutAll, CallSteps
    <2> QED
      BY <1>2, <2>1
  <1>5. ASSUME NEW r \in Calls, PasswordChange(r) \/ CommitReset(r) \/ RefuseReset(r)
                                \/ CallCutShort(r)
        PROVE  LinksFound
    <2>1. \E s \in CallSteps \ {"resetting"} : CallTo(r, s) /\ (arg' = arg \/ \E x : About(r, x))
      BY <1>5 DEF PasswordChange, Change, WritePassword, RevokeOthers, CommitReset,
                  RefuseReset, CallCutShort, CallSteps
    <2> QED
      BY <1>2, <2>1
  <1>6. ASSUME NEW t \in Ids, ExpireSession(t)
        PROVE  LinksFound
    BY <1>1, <1>6 DEF ExpireSession
  <1>7. CASE Elsewhere
    BY <1>1, <1>7, ElsewhereSessions
  <1>8. CASE UNCHANGED accountVars
    BY <1>1, <1>8 DEF accountVars
  <1>9. ASSUME NEW r \in Calls, PasswordReset(r)
        PROVE  LinksFound
    BY <1>3, <1>5, <1>9 DEF PasswordReset
  <1> QED
    BY <1>4, <1>5, <1>6, <1>7, <1>8, <1>9 DEF AccountsNext, Elsewhere

LEMMA StayingJobs ==
  ASSUME LinksOK, LinksStay, accountFaults' \in Nat, lapses' \in Nat
  PROVE  JobsOK'
  BY DEF LinksOK, JobsOK, LinksStay, jobs

\* A step of job j: it moves on, or back to the queue with one attempt fewer.
LEMMA JobTypes ==
  ASSUME LinksOK, Later(links'), accountFaults' \in Nat, lapses' \in Nat, NEW j \in Jobs,
         mailedLinks' \subseteq DOMAIN links',
         NEW s \in {"waiting", "issuing", "mailing", "done"},
         jobStep' = [jobStep EXCEPT ![j] = s],
         NEW n \in 0..MaxAttempts, attempts' = [attempts EXCEPT ![j] = n],
         s # "done" => n < MaxAttempts,
         NEW k \in Nat, made' = [made EXCEPT ![j] = k],
         s = "mailing" => k \in DOMAIN links'
  PROVE  JobsOK'
  <1>1. /\ jobStep' \in [Jobs -> {"waiting", "issuing", "mailing", "done"}]
        /\ jobStep'[j] = s /\ \A i \in Jobs \ {j} : jobStep'[i] = jobStep[i]
    BY DEF LinksOK, JobsOK
  <1>2. /\ attempts' \in [Jobs -> 0..MaxAttempts]
        /\ attempts'[j] = n /\ \A i \in Jobs \ {j} : attempts'[i] = attempts[i]
    BY DEF LinksOK, JobsOK
  <1>3. /\ made' \in [Jobs -> Nat]
        /\ made'[j] = k /\ \A i \in Jobs \ {j} : made'[i] = made[i]
    BY DEF LinksOK, JobsOK
  <1>4. links' \in Seq(Link) /\ DOMAIN links \subseteq DOMAIN links'
    BY LinkRows DEF Later
  <1>5. ASSUME NEW i \in Jobs
        PROVE  /\ jobStep'[i] = "mailing" => made'[i] \in DOMAIN links'
               /\ jobStep'[i] # "done" => attempts'[i] < MaxAttempts
    BY <1>1, <1>2, <1>3, <1>4 DEF LinksOK, JobsOK
  <1> QED
    BY <1>1, <1>2, <1>3, <1>4, <1>5 DEF JobsOK

LEMMA SameRows ==
  ASSUME LinksOK, links' = links
  PROVE  Later(links')
  BY DEF LinksOK, JobsOK, Later

LEMMA WorkTypes ==
  ASSUME LinksOK, NEW j \in Jobs, Work(j)
  PROVE  JobsOK'
  <1>1. /\ accountFaults \in Nat /\ lapses \in Nat /\ mailedLinks \subseteq DOMAIN links
        /\ attempts[j] \in 0..MaxAttempts /\ made[j] \in Nat /\ Len(links) + 1 \in Nat
        /\ attempts = [attempts EXCEPT ![j] = attempts[j]]
        /\ made = [made EXCEPT ![j] = made[j]]
    BY LinkRows DEF LinksOK, JobsOK
  <1>2. accountFaults' = accountFaults /\ lapses' = lapses /\ attempts' = attempts
    BY DEF Work, TakeJob, IssueLink, MailLink, bounds
  <1>3. jobStep[j] # "done" /\ attempts[j] < MaxAttempts
    BY DEF Work, TakeJob, IssueLink, MailLink, LinksOK, JobsOK
  <1>4. CASE TakeJob(j)
    <2>1. /\ links' = links /\ mailedLinks' = mailedLinks /\ made' = made
          /\ \E s \in {"issuing", "done"} : jobStep' = [jobStep EXCEPT ![j] = s]
      BY <1>4 DEF TakeJob
    <2>2. Later(links')
      BY <2>1, SameRows
    <2> QED
      BY <1>1, <1>2, <1>3, <2>1, <2>2, JobTypes
  <1>5. CASE IssueLink(j)
    <2>1. /\ links' = Append(links, NewLink) /\ mailedLinks' = mailedLinks
          /\ made' = [made EXCEPT ![j] = Len(links) + 1]
          /\ jobStep' = [jobStep EXCEPT ![j] = "mailing"]
      BY <1>5 DEF IssueLink
    <2>2. Later(links') /\ DOMAIN links' = 1..Len(links) + 1
      BY <2>1, IssuedRows DEF Later
    <2>3. Len(links) + 1 \in DOMAIN links' /\ mailedLinks' \subseteq DOMAIN links'
      BY <1>1, <2>1, <2>2, LinkRows
    <2> QED
      BY <1>1, <1>2, <1>3, <2>1, <2>2, <2>3, JobTypes
  <1>6. CASE MailLink(j)
    <2>1. /\ links' = links /\ mailedLinks' = mailedLinks \cup {made[j]} /\ made' = made
          /\ jobStep[j] = "mailing" /\ jobStep' = [jobStep EXCEPT ![j] = "done"]
      BY <1>6 DEF MailLink
    <2>2. Later(links')
      BY <2>1, SameRows
    <2>3. mailedLinks' \subseteq DOMAIN links'
      BY <1>1, <2>1 DEF LinksOK, JobsOK
    <2> QED
      BY <1>1, <1>2, <2>1, <2>2, <2>3, JobTypes
  <1> QED
    BY <1>4, <1>5, <1>6 DEF Work

\* What a failed job leaves: a link of its own, one more in the e-mail queue, or nothing.
LEMMA FaultRows ==
  ASSUME LinksOK, NEW j \in Jobs, JobFault(j)
  PROVE  /\ \/ links' = links
            \/ jobStep[j] = "issuing" /\ links' = Append(links, NewLink)
         /\ Later(links') /\ mailedLinks' \subseteq DOMAIN links'
         /\ jobStep[j] \in {"issuing", "mailing"}
  <1>1. \/ links' = links /\ mailedLinks' = mailedLinks /\ jobStep[j] \in {"issuing", "mailing"}
        \/ jobStep[j] = "issuing" /\ links' = Append(links, NewLink) /\ mailedLinks' = mailedLinks
        \/ jobStep[j] = "mailing" /\ mailedLinks' = mailedLinks \cup {made[j]} /\ links' = links
    BY DEF JobFault
  <1>2. CASE links' = links
    BY <1>1, <1>2, SameRows DEF LinksOK, JobsOK
  <1>3. CASE jobStep[j] = "issuing" /\ links' = Append(links, NewLink) /\ mailedLinks' = mailedLinks
    <2>1. Later(links') /\ Len(links') = Len(links) + 1
      BY <1>3, IssuedRows
    <2>2. DOMAIN links \subseteq DOMAIN links'
      BY <2>1, LinkRows DEF Later
    <2> QED
      BY <1>3, <2>1, <2>2 DEF LinksOK, JobsOK
  <1> QED
    BY <1>1, <1>2, <1>3

LEMMA FaultTypes ==
  ASSUME LinksOK, NEW j \in Jobs, JobFault(j)
  PROVE  JobsOK'
  <1>1. accountFaults' \in Nat /\ lapses' \in Nat
    BY DEF JobFault, Fault, LinksOK, JobsOK
  <1>2. made' = [made EXCEPT ![j] = made[j]] /\ made[j] \in Nat
    BY DEF JobFault, LinksOK, JobsOK
  <1>3. attempts[j] + 1 \in 0..MaxAttempts
    BY FaultRows, AccountConstants DEF LinksOK, JobsOK
  <1>4. /\ attempts' = [attempts EXCEPT ![j] = attempts[j] + 1]
        /\ \E s \in {"waiting", "done"} : /\ jobStep' = [jobStep EXCEPT ![j] = s]
                                          /\ s # "done" => attempts[j] + 1 < MaxAttempts
    BY DEF JobFault, Retry
  <1> DEFINE n == attempts[j] + 1
  <1> HIDE DEF n
  <1>5. /\ n \in 0..MaxAttempts /\ attempts' = [attempts EXCEPT ![j] = n]
        /\ \E s \in {"waiting", "done"} : /\ jobStep' = [jobStep EXCEPT ![j] = s]
                                          /\ s # "done" => n < MaxAttempts
    BY <1>3, <1>4 DEF n
  <1> QED
    BY <1>1, <1>2, <1>5, FaultRows, JobTypes

LEMMA LinksStep ==
  ASSUME SessionsOK, LinksOK, [AccountsNext]_accountVars
  PROVE  LinksOK'
  <1>1. \A q \in Calls : callStep'[q] = "resetting" => arg'[q] \in DOMAIN links
    BY ResettingStep DEF LinksFound
  <1>2. accountFaults \in Nat /\ lapses \in Nat /\ resets \in Seq([link : Nat, issued : Nat])
    BY DEF LinksOK, JobsOK, ResetsOK
  <1>3. ASSUME JobsOK', DOMAIN links \subseteq DOMAIN links', resets' = resets
        PROVE  LinksOK'
    BY <1>1, <1>2, <1>3 DEF LinksOK, ResetsOK, CallAt
  <1>4. ASSUME Later(links')
        PROVE  DOMAIN links \subseteq DOMAIN links'
    BY <1>4, LinkRows DEF Later
  <1>5. ASSUME LinksStay, resets' = resets, accountFaults' \in Nat, lapses' \in Nat
        PROVE  LinksOK'
    <2>1. links' = links
      BY <1>5 DEF LinksStay
    <2> QED
      BY <1>3, <1>5, <2>1, StayingJobs
  <1>6. CASE UNCHANGED accountVars
    BY <1>2, <1>5, <1>6 DEF accountVars, accountHistory, bounds, LinksStay
  <1>7. ASSUME NEW r \in Calls,
               Session(r) \/ PasswordChange(r) \/ RefuseReset(r) \/ CallCutShort(r)
               \/ \E k \in mailedLinks : Reset(r, k)
        PROVE  LinksOK'
    <2>1. /\ LinksStay /\ resets' = resets /\ lapses' = lapses
          /\ (accountFaults' = accountFaults \/ Fault)
      BY <1>7, SessionLinks
    <2>2. accountFaults' \in Nat
      BY <1>2, <2>1 DEF Fault
    <2> QED
      BY <1>2, <1>5, <2>1, <2>2
  <1>8. ASSUME NEW r \in Calls, CommitReset(r)
        PROVE  LinksOK'
    <2>1. /\ links' = Burned
          /\ UNCHANGED <<mailedLinks, jobStep, attempts, made, accountFaults, lapses>>
          /\ resets' = Append(resets, [link |-> arg[r], issued |-> Len(links)])
          /\ CallAt(r, "resetting")
      BY <1>8 DEF CommitReset, jobs, bounds
    <2>2. links' \in Seq(Link) /\ DOMAIN links' = DOMAIN links
      BY <2>1, BurnedRows, LinkRows DEF Later
    <2>3. JobsOK'
      BY <2>1, <2>2 DEF LinksOK, JobsOK
    <2>4. [link |-> arg[r], issued |-> Len(links)] \in [link : Nat, issued : Nat]
      BY <2>1, LinkRows DEF LinksOK, ResetsOK
    <2>5. resets' \in Seq([link : Nat, issued : Nat])
      BY <1>2, <2>1, <2>4, AppendProperties
    <2> QED
      BY <1>1, <2>2, <2>3, <2>5 DEF LinksOK, ResetsOK, CallAt
  <1>9. ASSUME NEW t \in Ids, ExpireSession(t)
        PROVE  LinksOK'
    BY <1>2, <1>5, <1>9 DEF ExpireSession, Lapse, LinksStay, accountHistory
  <1>10. CASE Elsewhere
    <2>1. resets' = resets
      BY <1>10, ElsewhereSessions
    <2>2. ASSUME NEW j \in Jobs, Work(j) \/ JobFault(j)
          PROVE  LinksOK'
      <3>1. JobsOK'
        BY <2>2, WorkTypes, FaultTypes
      <3>2. Later(links')
        BY <2>2, SameRows, IssuedRows, FaultRows DEF Work, TakeJob, IssueLink, MailLink
      <3> QED
        BY <1>3, <1>4, <2>1, <3>1, <3>2
    <2>3. CASE WorkerCrash
      <3>1. /\ UNCHANGED <<links, mailedLinks, attempts, made, lapses>>
            /\ accountFaults' = accountFaults + 1
            /\ jobStep' = [j \in Jobs |-> IF j \in Running THEN "waiting" ELSE jobStep[j]]
        BY <2>3 DEF WorkerCrash, Fault
      <3>2. \A j \in Running : j \in Jobs /\ jobStep[j] # "done"
        BY DEF Running
      <3>3. JobsOK'
        <4>1. jobStep' \in [Jobs -> {"waiting", "issuing", "mailing", "done"}]
          BY <3>1 DEF LinksOK, JobsOK
        <4>2. ASSUME NEW j \in Jobs
              PROVE  /\ jobStep'[j] = "mailing" => jobStep[j] = "mailing"
                     /\ jobStep'[j] # "done" => jobStep[j] # "done"
          BY <3>1, <3>2
        <4> QED
          BY <3>1, <4>1, <4>2 DEF LinksOK, JobsOK
      <3> QED
        BY <1>3, <2>1, <3>1, <3>3
    <2>4. ASSUME NEW k \in DOMAIN links, HourPasses(k)
          PROVE  LinksOK'
      <3>1. /\ links' = Aged(k) /\ UNCHANGED <<mailedLinks, jobStep, attempts, made,
                                               accountFaults>>
            /\ lapses' = lapses + 1
        BY <2>4 DEF HourPasses, Lapse, Aged, jobs
      <3>2. links' \in Seq(Link) /\ DOMAIN links' = DOMAIN links
        BY <3>1, AgedRows, LinkRows DEF Later
      <3>3. JobsOK'
        BY <3>1, <3>2 DEF LinksOK, JobsOK
      <3> QED
        BY <1>3, <2>1, <3>2, <3>3
    <2> QED
      BY <1>10, <2>2, <2>3, <2>4 DEF Elsewhere
  <1>11. ASSUME NEW r \in Calls, PasswordReset(r)
         PROVE  LinksOK'
    BY <1>7, <1>8, <1>11 DEF PasswordReset
  <1> QED
    BY <1>6, <1>7, <1>9, <1>10, <1>11 DEF AccountsNext, Elsewhere

-----------------------------------------------------------------------------
(* Each reset uses up every link there is.                                 *)

\* Whatever happens to the rows, only a reset that commits is recorded.
LEMMA LinksLater ==
  ASSUME LinksOK, [AccountsNext]_accountVars, ~\E r \in Calls : CommitReset(r)
  PROVE  Later(links') /\ resets' = resets
  <1>1. ASSUME NEW r \in Calls,
               Session(r) \/ PasswordChange(r) \/ RefuseReset(r) \/ CallCutShort(r)
               \/ \E k \in mailedLinks : Reset(r, k)
        PROVE  Later(links') /\ resets' = resets
    BY <1>1, SessionLinks, SameRows DEF LinksStay
  <1>2. ASSUME NEW r \in Calls, PasswordReset(r)
        PROVE  Later(links') /\ resets' = resets
    BY <1>1, <1>2 DEF PasswordReset
  <1>3. ASSUME NEW t \in Ids, ExpireSession(t)
        PROVE  Later(links') /\ resets' = resets
    BY <1>3, SameRows DEF ExpireSession, accountHistory
  <1>4. CASE Elsewhere
    <2>1. resets' = resets
      BY <1>4, ElsewhereSessions
    <2>2. ASSUME NEW j \in Jobs, Work(j) \/ JobFault(j)
          PROVE  Later(links')
      BY <2>2, SameRows, IssuedRows, FaultRows DEF Work, TakeJob, IssueLink, MailLink
    <2>3. ASSUME NEW k \in DOMAIN links, HourPasses(k)
          PROVE  Later(links')
      BY <2>3, AgedRows DEF HourPasses, Aged
    <2>4. CASE WorkerCrash
      BY <2>1, <2>4, SameRows DEF WorkerCrash
    <2> QED
      BY <1>4, <2>1, <2>2, <2>3, <2>4 DEF Elsewhere
  <1>5. CASE UNCHANGED accountVars
    BY <1>5, SameRows DEF accountVars, accountHistory
  <1> QED
    BY <1>1, <1>2, <1>3, <1>4, <1>5 DEF AccountsNext, Elsewhere

LEMMA BurnStep ==
  ASSUME LinksOK, ResetsBurn, [AccountsNext]_accountVars
  PROVE  ResetsBurn'
  <1>1. Len(links) \in Nat /\ \A i \in DOMAIN resets : resets[i].issued \in Nat
    <2> DEFINE S == [link : Nat, issued : Nat]
    <2>1. \A i \in DOMAIN resets : resets[i] \in S
      <3>1. resets \in Seq(S)
        BY DEF LinksOK, ResetsOK
      <3> HIDE DEF S
      <3> QED
        BY <3>1
    <2> QED
      BY <2>1, LinkRows
  <1>2. CASE ~\E r \in Calls : CommitReset(r)
    <2>1. Later(links') /\ resets' = resets
      BY <1>2, LinksLater
    <2>2. Len(links') \in Nat /\ Len(links) <= Len(links')
      BY <2>1 DEF Later
    <2>3. ASSUME NEW i \in DOMAIN resets
          PROVE  /\ resets[i].issued <= Len(links')
                 /\ \A k \in 1..resets[i].issued : links'[k].used
      BY <1>1, <2>1, <2>2 DEF Later, ResetsBurn
    <2> QED
      BY <2>1, <2>3 DEF ResetsBurn, LinksDieOnReset
  <1>3. ASSUME NEW r \in Calls, CommitReset(r)
        PROVE  ResetsBurn'
    <2> DEFINE k == arg[r]  m == Len(resets) + 1
    <2>1. /\ links' = Burned /\ resets' = Append(resets, [link |-> k, issued |-> Len(links)])
          /\ CallAt(r, "resetting") /\ ~links[k].used
      BY <1>3 DEF CommitReset, Consumable, Usable
    <2>2. k \in 1..Len(links) /\ Len(resets) \in Nat /\ DOMAIN resets = 1..Len(resets)
      BY <2>1, LinkRows DEF LinksOK, ResetsOK
    <2>3. Len(links') = Len(links) /\ \A i \in 1..Len(links) : links'[i].used
      BY <2>1, BurnedRows
    <2>4. [link |-> k, issued |-> Len(links)] \in [link : Nat, issued : Nat]
      BY <1>1, <2>2
    <2>5. /\ DOMAIN resets' = 1..m
          /\ \A i \in 1..Len(resets) : resets'[i] = resets[i]
          /\ resets'[m] = [link |-> k, issued |-> Len(links)]
      BY <2>1, <2>2, <2>4, AppendProperties, LenProperties DEF LinksOK, ResetsOK
    <2>6. \A i \in 1..Len(resets) : k > resets[i].issued
      <3> SUFFICES ASSUME NEW i \in 1..Len(resets), ~(k > resets[i].issued) PROVE FALSE
        OBVIOUS
      <3>1. resets[i].issued \in Nat /\ k \in 1..resets[i].issued
        BY <1>1, <2>2
      <3>2. links[k].used
        BY <2>2, <3>1 DEF ResetsBurn
      <3> QED
        BY <2>1, <3>2
    <2>7. ASSUME NEW i \in DOMAIN resets', NEW n \in DOMAIN resets', i < n
          PROVE  resets'[n].link > resets'[i].issued
      <3>1. i \in 1..Len(resets)
        BY <2>2, <2>5, <2>7
      <3>2. CASE n = m
        <4>1. resets'[n].link = k /\ resets'[i].issued = resets[i].issued
          BY <2>5, <3>1, <3>2
        <4> HIDE DEF k
        <4> QED
          BY <2>6, <3>1, <4>1
      <3>3. CASE n # m
        <4>1. n \in 1..Len(resets)
          BY <2>2, <2>5, <3>3
        <4> QED
          BY <2>2, <2>5, <2>7, <3>1, <4>1 DEF ResetsBurn, LinksDieOnReset
      <3> QED
        BY <3>2, <3>3
    <2>8. ASSUME NEW i \in DOMAIN resets'
          PROVE  resets'[i].issued \in Nat /\ resets'[i].issued <= Len(links)
      <3>1. CASE i = m
        BY <1>1, <2>5, <3>1
      <3>2. CASE i # m
        <4>1. i \in 1..Len(resets)
          BY <2>2, <2>5, <3>2
        <4> QED
          BY <1>1, <2>2, <2>5, <4>1 DEF ResetsBurn
      <3> QED
        BY <3>1, <3>2
    <2> QED
      BY <1>1, <2>3, <2>7, <2>8 DEF ResetsBurn, LinksDieOnReset
  <1> QED
    BY <1>2, <1>3

-----------------------------------------------------------------------------
(* The ceiling, overrun by the concurrency of the worker at most.          *)

LEMMA FreshFinite ==
  ASSUME LinksOK
  PROVE  IsFiniteSet(Fresh) /\ Cardinality(Fresh) \in Nat
  <1>1. Fresh \subseteq 1..Len(links) /\ 1 \in Int /\ Len(links) \in Int
    BY LinkRows DEF Fresh
  <1>2. IsFiniteSet(1..Len(links))
    BY <1>1, FS_Interval
  <1> QED
    BY <1>1, <1>2, FS_Subset, FS_CardinalityType

LEMMA IssuingFinite ==
  ASSUME Ceiling
  PROVE  /\ IsFiniteSet(Issuing) /\ Cardinality(Issuing) \in Nat
         /\ Cardinality(Running) \in Nat /\ Cardinality(Issuing) <= Cardinality(Running)
  <1>1. Issuing \subseteq Running
    BY DEF Issuing, Running
  <1> QED
    BY <1>1, FS_Subset, FS_CardinalityType DEF Ceiling

\* No more links of the hour, no more jobs that run.
LEMMA CeilingKept ==
  ASSUME LinksOK, Ceiling, Running' \subseteq Running, Issuing' \subseteq Issuing,
         Fresh' \subseteq Fresh
  PROVE  Ceiling'
  <1>1. /\ Cardinality(Fresh) \in Nat /\ Cardinality(Issuing) \in Nat
        /\ Cardinality(Running) \in Nat
    BY FreshFinite, IssuingFinite
  <1>2. IsFiniteSet(Running') /\ Cardinality(Running') <= Cardinality(Running)
    BY FS_Subset DEF Ceiling
  <1>3. Cardinality(Issuing') <= Cardinality(Issuing) /\ IsFiniteSet(Issuing')
    BY IssuingFinite, FS_Subset
  <1>4. Cardinality(Fresh') <= Cardinality(Fresh) /\ IsFiniteSet(Fresh')
    BY FreshFinite, FS_Subset
  <1>5. /\ Cardinality(Fresh') \in Nat /\ Cardinality(Issuing') \in Nat
        /\ Cardinality(Running') \in Nat
    BY <1>2, <1>3, <1>4, FS_CardinalityType
  <1> QED
    BY <1>1, <1>2, <1>3, <1>4, <1>5, AccountConstants DEF Ceiling

\* A job past its count issues a link: one job fewer is still to issue.
LEMMA CeilingTraded ==
  ASSUME LinksOK, Ceiling, Running' \subseteq Running, NEW j \in Issuing,
         Issuing' = Issuing \ {j}, links' = Append(links, NewLink)
  PROVE  Ceiling'
  <1>1. /\ Cardinality(Fresh) \in Nat /\ Cardinality(Issuing) \in Nat
        /\ Cardinality(Running) \in Nat /\ IsFiniteSet(Issuing) /\ IsFiniteSet(Fresh)
    BY FreshFinite, IssuingFinite
  <1>2. /\ IsFiniteSet(Running') /\ Cardinality(Running') <= Cardinality(Running)
        /\ Cardinality(Running') \in Nat
    BY FS_Subset, FS_CardinalityType DEF Ceiling
  <1>3. Cardinality(Issuing') = Cardinality(Issuing) - 1
    BY <1>1, FS_RemoveElement
  <1>4. Fresh' \subseteq Fresh \cup {Len(links) + 1}
    BY IssuedRows, LinkRows DEF Fresh, Later
  <1>5. /\ IsFiniteSet(Fresh \cup {Len(links) + 1})
        /\ Cardinality(Fresh \cup {Len(links) + 1}) \in Nat
        /\ Cardinality(Fresh \cup {Len(links) + 1}) <= Cardinality(Fresh) + 1
    <2>1. /\ IsFiniteSet(Fresh \cup {Len(links) + 1})
          /\ Cardinality(Fresh \cup {Len(links) + 1}) \in
                {Cardinality(Fresh), Cardinality(Fresh) + 1}
      BY <1>1, FS_AddElement
    <2> QED
      BY <1>1, <2>1
  <1>6. Cardinality(Fresh') <= Cardinality(Fresh) + 1 /\ Cardinality(Fresh') \in Nat
    BY <1>1, <1>4, <1>5, FS_Subset, FS_CardinalityType
  <1> QED
    BY <1>1, <1>2, <1>3, <1>6, AccountConstants DEF Ceiling

\* A job starts below the ceiling, and the worker had a handler to spare.
LEMMA CeilingTaken ==
  ASSUME LinksOK, Ceiling, NEW j \in Jobs, TakeJob(j)
  PROVE  Ceiling'
  <1>1. /\ jobStep[j] = "waiting" /\ Cardinality(Running) < Concurrency /\ links' = links
        /\ jobStep' = [jobStep EXCEPT ![j] = IF Cardinality(Fresh) >= MaxPerHour THEN "done"
                                             ELSE "issuing"]
    BY DEF TakeJob
  <1>2. Fresh' = Fresh
    BY <1>1 DEF Fresh
  <1>3. CASE Cardinality(Fresh) >= MaxPerHour
    <2>1. Running' = Running /\ Issuing' = Issuing
      BY <1>1, <1>3 DEF Running, Issuing, LinksOK, JobsOK
    <2> QED
      BY <1>2, <2>1, CeilingKept
  <1>4. CASE ~(Cardinality(Fresh) >= MaxPerHour)
    <2>1. Running' = Running \cup {j} /\ j \notin Running /\ Issuing' \subseteq Running'
      BY <1>1, <1>4 DEF Running, Issuing, LinksOK, JobsOK
    <2>2. /\ Cardinality(Fresh) \in Nat /\ Cardinality(Running) \in Nat
          /\ IsFiniteSet(Running)
      BY FreshFinite, IssuingFinite DEF Ceiling
    <2>3. IsFiniteSet(Running') /\ Cardinality(Running') = Cardinality(Running) + 1
      BY <2>1, <2>2, FS_AddElement
    <2>4. Cardinality(Issuing') <= Cardinality(Running') /\ Cardinality(Issuing') \in Nat
      BY <2>1, <2>3, FS_Subset, FS_CardinalityType
    <2>5. Cardinality(Issuing') <= Concurrency /\ Cardinality(Running') <= Concurrency
      BY <1>1, <2>2, <2>3, <2>4, AccountConstants
    <2>6. Cardinality(Fresh') <= MaxPerHour - 1 /\ Cardinality(Fresh') \in Nat
      BY <1>2, <1>4, <2>2, AccountConstants
    <2> QED
      BY <2>3, <2>4, <2>5, <2>6, AccountConstants DEF Ceiling
  <1> QED
    BY <1>3, <1>4

LEMMA CeilingStep ==
  ASSUME SessionsOK, LinksOK, Ceiling, [AccountsNext]_accountVars
  PROVE  Ceiling'
  <1>1. ASSUME UNCHANGED <<links, jobStep>>
        PROVE  Ceiling'
    BY <1>1, CeilingKept DEF Running, Issuing, Fresh
  <1>2. ASSUME NEW j \in Jobs, IssueLink(j)
        PROVE  Ceiling'
    <2>1. /\ jobStep[j] = "issuing" /\ links' = Append(links, NewLink)
          /\ jobStep' = [jobStep EXCEPT ![j] = "mailing"]
      BY <1>2 DEF IssueLink
    <2>2. j \in Issuing /\ Running' \subseteq Running /\ Issuing' = Issuing \ {j}
      BY <2>1 DEF Running, Issuing, LinksOK, JobsOK
    <2> QED
      BY <2>1, <2>2, CeilingTraded
  <1>3. ASSUME NEW j \in Jobs, MailLink(j)
        PROVE  Ceiling'
    <2>1. /\ jobStep[j] = "mailing" /\ links' = links
          /\ jobStep' = [jobStep EXCEPT ![j] = "done"]
      BY <1>3 DEF MailLink
    <2>2. Running' \subseteq Running /\ Issuing' \subseteq Issuing /\ Fresh' \subseteq Fresh
      BY <2>1 DEF Running, Issuing, Fresh, LinksOK, JobsOK
    <2> QED
      BY <2>2, CeilingKept
  <1>4. ASSUME NEW j \in Jobs, JobFault(j)
        PROVE  Ceiling'
    <2>1. \E s \in {"waiting", "done"} : jobStep' = [jobStep EXCEPT ![j] = s]
      BY <1>4 DEF JobFault, Retry
    <2>2. Running' \subseteq Running /\ Issuing' = Issuing \ {j}
      BY <2>1 DEF Running, Issuing, LinksOK, JobsOK
    <2>3. CASE links' = links
      BY <2>2, <2>3, CeilingKept DEF Fresh
    <2>4. CASE jobStep[j] = "issuing" /\ links' = Append(links, NewLink)
      <3>1. j \in Issuing
        BY <2>4 DEF Issuing
      <3> QED
        BY <2>2, <2>4, <3>1, CeilingTraded
    <2> QED
      BY <1>4, <2>3, <2>4, FaultRows
  <1>5. CASE WorkerCrash
    <2>1. /\ links' = links
          /\ jobStep' = [j \in Jobs |-> IF j \in Running THEN "waiting" ELSE jobStep[j]]
      BY <1>5 DEF WorkerCrash
    <2>2. \A j \in Jobs : jobStep'[j] \in {"issuing", "mailing"} => j \in Running /\ FALSE
      BY <2>1 DEF Running
    <2>3. Running' = {} /\ Issuing' = {}
      BY <2>2 DEF Running, Issuing
    <2> QED
      BY <2>1, <2>3, CeilingKept DEF Fresh
  <1>6. ASSUME NEW k \in DOMAIN links, HourPasses(k)
        PROVE  Ceiling'
    <2>1. links' = Aged(k) /\ jobStep' = jobStep
      BY <1>6 DEF HourPasses, Aged, jobs
    <2>2. Fresh' \subseteq Fresh
      BY <2>1, AgedRows, LinkRows DEF Fresh, Later
    <2> QED
      BY <2>1, <2>2, CeilingKept DEF Running, Issuing
  <1>7. ASSUME NEW r \in Calls, CommitReset(r)
        PROVE  Ceiling'
    <2>1. links' = Burned /\ jobStep' = jobStep
      BY <1>7 DEF CommitReset, jobs
    <2>2. Fresh' \subseteq Fresh
      BY <2>1, BurnedRows, LinkRows DEF Fresh, Later
    <2> QED
      BY <2>1, <2>2, CeilingKept DEF Running, Issuing
  <1>8. ASSUME NEW r \in Calls,
               Session(r) \/ PasswordChange(r) \/ RefuseReset(r) \/ CallCutShort(r)
               \/ \E k \in mailedLinks : Reset(r, k)
        PROVE  Ceiling'
    BY <1>1, <1>8, SessionLinks DEF LinksStay, jobs
  <1>9. ASSUME NEW r \in Calls, PasswordReset(r)
        PROVE  Ceiling'
    BY <1>7, <1>8, <1>9 DEF PasswordReset
  <1>10. ASSUME NEW t \in Ids, ExpireSession(t)
         PROVE  Ceiling'
    BY <1>1, <1>10 DEF ExpireSession, jobs
  <1>11. ASSUME NEW j \in Jobs, Work(j)
         PROVE  Ceiling'
    BY <1>2, <1>3, <1>11, CeilingTaken DEF Work
  <1>12. CASE UNCHANGED accountVars
    BY <1>1, <1>12 DEF accountVars, jobs
  <1> QED
    BY <1>4, <1>5, <1>6, <1>8, <1>9, <1>10, <1>11, <1>12 DEF AccountsNext

-----------------------------------------------------------------------------
(* One refresh per token.                                                  *)

\* No token is in two refreshes at once that are past their check.
OneRefreshPerToken ==
    \A r, q \in Calls : CallAt(r, "rotating") /\ CallAt(q, "rotating") /\ arg[r] = arg[q] => r = q

\* A token that is live or about to be replaced: the family goes on from here.
Current(t) == Live(t) \/ \E r \in Calls : CallAt(r, "rotating") /\ arg[r] = t

OneCurrent == \A t, u \in Ids : Current(t) /\ Current(u) /\ Family(t) = Family(u) => t = u

LEMMA NoMoreCurrent ==
  ASSUME OneCurrent, Ids' = Ids,
         \A t \in Ids : sessions'[t].family = sessions[t].family,
         \A t \in Ids : Current(t)' => Current(t)
  PROVE  OneCurrent'
  BY DEF OneCurrent, Family

\* A request goes on or ends and creates no token: what it is about to replace is live.
LEMMA CurrentKept ==
  ASSUME SessionsOK, OneCurrent, NEW r \in Calls, Ids' = Ids,
         \A t \in Ids : /\ sessions'[t].family = sessions[t].family
                        /\ ~sessions'[t].revoked => Live(t),
         \A q \in Calls \ {r} : callStep'[q] = callStep[q] /\ arg'[q] = arg[q],
         callStep'[r] = "rotating" => arg'[r] \in Ids /\ Live(arg'[r])
  PROVE  OneCurrent'
  <1>1. \A t \in Ids : Current(t)' => Current(t)
    BY DEF Current, Live, CallAt
  <1> QED
    BY <1>1, NoMoreCurrent

LEMMA OneCurrentInit == AccountsInit => OneCurrent
  <1> SUFFICES ASSUME AccountsInit PROVE OneCurrent
    OBVIOUS
  <1>1. Ids = {1}
    BY DEF AccountsInit, Ids
  <1> QED
    BY <1>1 DEF OneCurrent

LEMMA OneCurrentStep ==
  ASSUME SessionsOK, LinksOK, OneCurrent, OneRefreshPerToken, [AccountsNext]_accountVars
  PROVE  OneCurrent'
  <1>1. ASSUME UNCHANGED <<sessions, callStep, arg>> PROVE OneCurrent'
    BY <1>1 DEF OneCurrent, Current, Live, Family, Ids, CallAt
  \* Checks: "refresh" goes on with a live token.
  <1>2. ASSUME NEW r \in Calls,
               \/ Login(r)
               \/ \E t \in Ids : Refresh(r, t) \/ Logout(r, t)
               \/ \E t \in Ids \cup {0} : Change(r, t)
               \/ \E k \in mailedLinks : Reset(r, k)
        PROVE  OneCurrent'
    <2>1. sessions' = sessions /\ Ids' = Ids
      BY <1>2 DEF Login, Refresh, Logout, Change, Reset, Ids
    <2>2. \E s \in CallSteps, x \in Nat \cup Passwords :
             CallTo(r, s) /\ About(r, x) /\ (s = "rotating" => x \in Ids /\ Live(x))
      <3>1. \A k \in Ids \cup {0} : k \in Nat
        BY SessionRows
      <3>2. CASE Login(r)
        BY <3>2 DEF Login, CallSteps
      <3>3. CASE \E t \in Ids : Refresh(r, t)
        BY <3>1, <3>3 DEF Refresh, CallSteps
      <3>4. CASE \E t \in Ids : Logout(r, t)
        BY <3>1, <3>4 DEF Logout, CallSteps
      <3>5. CASE \E t \in Ids \cup {0} : Change(r, t)
        BY <3>1, <3>5 DEF Change, CallSteps
      <3>6. CASE \E k \in mailedLinks : Reset(r, k)
        BY <3>6 DEF Reset, CallSteps, LinksOK, JobsOK
      <3> QED
        BY <1>2, <3>2, <3>3, <3>4, <3>5, <3>6
    <2>3. PICK s \in CallSteps, x \in Nat \cup Passwords :
             CallTo(r, s) /\ About(r, x) /\ (s = "rotating" => x \in Ids /\ Live(x))
      BY <2>2
    <2>4. callStep'[r] = s /\ \A q \in Calls \ {r} : callStep'[q] = callStep[q]
      BY <2>3, StepTo
    <2>5. arg'[r] = x /\ \A q \in Calls \ {r} : arg'[q] = arg[q]
      BY <2>3 DEF About, SessionsOK, RequestsOK
    <2> QED
      BY <2>1, <2>3, <2>4, <2>5, CurrentKept DEF Live
  \* Writes that create no token.
  <1>3. ASSUME NEW r \in Calls, NEW s \in {"done", "changed"}, CallTo(r, s), arg' = arg,
               sessions' = sessions \/ \E S \in {{arg[r]}, Ids \ {arg[r]}, Ids, InFamily(Family(arg[r]))} :
                                          sessions' = TokensRevoked(S)
        PROVE  OneCurrent'
    <2>1. callStep'[r] = s /\ \A q \in Calls \ {r} : callStep'[q] = callStep[q]
      BY <1>3, StepTo DEF CallSteps
    <2>2. /\ Ids' = Ids
          /\ \A t \in Ids : /\ sessions'[t].family = sessions[t].family
                            /\ ~sessions'[t].revoked => Live(t)
      BY <1>3, RevokedRows DEF Ids, Live, Family
    <2> QED
      BY <1>3, <2>1, <2>2, CurrentKept
  <1>4. ASSUME NEW r \in Calls,
               CloseFamily(r) \/ RevokeById(r) \/ LogoutAll(r) \/ RevokeOthers(r) \/ CommitReset(r)
        PROVE  OneCurrent'
    <2>1. CallTo(r, "done") /\ arg' = arg
      BY <1>4 DEF CloseFamily, RevokeById, LogoutAll, RevokeOthers, CommitReset
    <2>2. \E S \in {{arg[r]}, Ids \ {arg[r]}, Ids, InFamily(Family(arg[r]))} :
             sessions' = TokensRevoked(S)
      BY <1>4 DEF CloseFamily, RevokeById, LogoutAll, RevokeOthers, CommitReset, EndAllSessions
    <2> QED
      BY <1>3, <2>1, <2>2
  <1>5. ASSUME NEW r \in Calls, WritePassword(r) \/ RefuseReset(r) \/ CallCutShort(r)
        PROVE  OneCurrent'
    <2>1. sessions' = sessions /\ arg' = arg /\ (CallTo(r, "changed") \/ CallTo(r, "done"))
      BY <1>5 DEF WritePassword, RefuseReset, CallCutShort
    <2> QED
      BY <1>3, <2>1
  \* login: the first token of a family of its own.
  <1>6. ASSUME NEW r \in Calls, IssueSession(r) PROVE OneCurrent'
    <2> DEFINE n == Len(sessions) + 1
    <2>1. /\ sessions' = Append(sessions, NewSession(n)) /\ opened' = Append(opened, arg[r])
          /\ arg[r] \in Passwords /\ CallTo(r, "done") /\ arg' = arg
      BY <1>6 DEF IssueSession, Creates, SessionsOK, RequestsOK
    <2>2. sessions \in Seq(RefreshToken) /\ \A t \in Ids : sessions[t].family = Family(t)
      BY DEF SessionsOK, RowsOK, Family
    <2>3. /\ Ids' = Ids \cup {n} /\ \A t \in Ids : sessions'[t] = sessions[t]
          /\ sessions'[n] = NewSession(n)
      BY <2>1, <2>2, GrownRows
    <2>4. callStep'[r] = "done" /\ \A q \in Calls \ {r} : callStep'[q] = callStep[q]
      BY <2>1, StepTo DEF CallSteps
    <2>5. n \notin Ids /\ \A t \in Ids : Family(t) \in Ids
      BY SessionRows DEF Family
    <2>6. \A t \in Ids : Current(t)' => Current(t)
      BY <2>1, <2>3, <2>4 DEF Current, Live, CallAt
    <2>7. sessions'[n].family = n /\ \A t \in Ids : sessions'[t].family = Family(t)
      BY <2>3 DEF Family, NewSession
    <2> HIDE DEF n
    <2>8. \A t \in Ids : sessions'[t].family # n
      BY <2>5, <2>7
    <2>9. ASSUME NEW t \in Ids', NEW u \in Ids', Current(t)', Current(u)', Family(t)' = Family(u)'
          PROVE  t = u
      <3>1. sessions'[t].family = sessions'[u].family
        BY <2>9 DEF Family
      <3>2. CASE t \in Ids /\ u \in Ids
        BY <2>6, <2>7, <2>9, <3>1, <3>2 DEF OneCurrent
      <3>3. CASE t = n \/ u = n
        BY <2>3, <2>7, <2>8, <3>1, <3>3
      <3> QED
        BY <2>3, <2>9, <3>2, <3>3
    <2> QED
      BY <2>9 DEF OneCurrent
  \* refresh: the successor takes the place of the token.
  <1>7. ASSUME NEW r \in Calls, Rotate(r) PROVE OneCurrent'
    <2> DEFINE n == Len(sessions) + 1  old == arg[r]  f == Family(old)
    <2>1. old \in Ids /\ f \in Ids /\ opened[old] \in Passwords /\ CallAt(r, "rotating")
      BY <1>7, SessionRows DEF Rotate, SessionsOK, RequestsOK, CallAt, Family
    <2>2. /\ sessions' = Append(TokensRevoked({old}), NewSession(f))
          /\ opened' = Append(opened, opened[old])
          /\ CallTo(r, "done") /\ arg' = arg
      BY <1>7 DEF Rotate, Creates, Replaced
    <2>3. /\ TokensRevoked({old}) \in Seq(RefreshToken)
          /\ Len(TokensRevoked({old})) = Len(sessions)
          /\ \A t \in Ids : /\ TokensRevoked({old})[t].family = Family(t)
                            /\ ~TokensRevoked({old})[t].revoked => Live(t) /\ t \notin {old}
      BY RevokedRows
    <2>4. /\ Ids' = Ids \cup {n} /\ \A t \in Ids : sessions'[t] = TokensRevoked({old})[t]
          /\ sessions'[n] = NewSession(f)
      <3> DEFINE base == TokensRevoked({old})
      <3> HIDE DEF base, old, f
      <3>1. base \in Seq(RefreshToken) /\ Len(base) = Len(sessions)
            /\ \A t \in Ids : base[t].family = Family(t)
        BY <2>3 DEF base
      <3>2. sessions' = Append(base, NewSession(f))
        BY <2>2 DEF base
      <3>3. /\ Ids' = Ids \cup {n} /\ \A t \in Ids : sessions'[t] = base[t]
            /\ sessions'[n] = NewSession(f)
        BY <2>1, <2>2, <3>1, <3>2, GrownRows
      <3> QED
        BY <3>3 DEF base
    <2>5. callStep'[r] = "done" /\ \A q \in Calls \ {r} : callStep'[q] = callStep[q]
      BY <2>2, StepTo DEF CallSteps
    <2>6. n \notin Ids
      BY SessionRows
    <2>7. Current(old)
      BY <2>1 DEF Current
    <2>8. \A q \in Calls \ {r} : CallAt(q, "rotating") => arg[q] # old
      BY <2>1 DEF OneRefreshPerToken
    <2>9. \A t \in Ids : Current(t)' => Current(t) /\ t # old
      <3> HIDE DEF old, f
      <3>1. \A t \in Ids : Live(t)' => Live(t) /\ t # old
        BY <2>3, <2>4 DEF Live
      <3>2. \A t \in Ids : (\E q \in Calls : CallAt(q, "rotating") /\ arg[q] = t)'
                             => t # old /\ \E q \in Calls : CallAt(q, "rotating") /\ arg[q] = t
        BY <2>2, <2>5, <2>8 DEF CallAt
      <3> QED
        BY <3>1, <3>2 DEF Current
    <2>10. sessions'[n].family = f /\ \A t \in Ids : sessions'[t].family = Family(t)
      <3> DEFINE base == TokensRevoked({old})
      <3>1. \A t \in Ids : base[t].family = Family(t) /\ sessions'[t] = base[t]
        BY <2>3, <2>4
      <3> HIDE DEF base, f
      <3> QED
        BY <2>4, <3>1 DEF NewSession
    <2>11. \A t \in Ids : Current(t)' => sessions'[t].family # f
      <3>1. f = Family(old)
        OBVIOUS
      <3> HIDE DEF old, f
      <3> QED
        BY <2>1, <2>7, <2>9, <2>10, <3>1 DEF OneCurrent
    <2> HIDE DEF n, old, f
    <2>12. ASSUME NEW t \in Ids', NEW u \in Ids', Current(t)', Current(u)', Family(t)' = Family(u)'
          PROVE  t = u
      <3>1. sessions'[t].family = sessions'[u].family
        BY <2>12 DEF Family
      <3>2. CASE t \in Ids /\ u \in Ids
        BY <2>9, <2>10, <2>12, <3>1, <3>2 DEF OneCurrent
      <3>3. CASE t = n \/ u = n
        BY <2>4, <2>10, <2>11, <2>12, <3>1, <3>3
      <3> QED
        BY <2>4, <2>12, <3>2, <3>3
    <2> QED
      BY <2>12 DEF OneCurrent
  <1>8. ASSUME NEW t \in Ids, ExpireSession(t) PROVE OneCurrent'
    <2>1. /\ Ids' = Ids
          /\ \A u \in Ids : /\ sessions'[u].family = sessions[u].family
                            /\ sessions'[u].revoked = sessions[u].revoked
      BY <1>8, ExpiredRows
    <2>2. UNCHANGED <<callStep, arg>>
      BY <1>8 DEF ExpireSession
    <2>3. \A u \in Ids : Current(u)' => Current(u)
      BY <2>1, <2>2 DEF Current, Live, CallAt
    <2> QED
      BY <2>1, <2>3, NoMoreCurrent
  <1>9. CASE Elsewhere
    BY <1>1, <1>9, ElsewhereSessions
  <1>10. CASE UNCHANGED accountVars
    BY <1>1, <1>10 DEF accountVars
  <1>11. ASSUME NEW r \in Calls,
                Session(r) \/ PasswordChange(r) \/ PasswordReset(r) \/ CallCutShort(r)
         PROVE  OneCurrent'
    BY <1>2, <1>4, <1>5, <1>6, <1>7, <1>11 DEF Session, PasswordChange, PasswordReset
  <1> QED
    BY <1>8, <1>9, <1>10, <1>11 DEF AccountsNext, Elsewhere

-----------------------------------------------------------------------------
(* The theorems.                                                           *)

LEMMA InvInit == AccountsInit => Inv
  <1> SUFFICES ASSUME AccountsInit PROVE Inv
    OBVIOUS
  <1>1. SessionsOK
    <2> DEFINE x == [family |-> 1, revoked |-> FALSE, expired |-> FALSE]
    <2>1. x \in RefreshToken /\ x.family = 1
      BY DEF RefreshToken
    <2>2. sessions = <<x>>
      BY DEF AccountsInit
    <2> HIDE DEF x
    <2>3. /\ sessions \in Seq(RefreshToken) /\ Len(sessions) = 1 /\ Ids = {1}
          /\ sessions[1] = x
      BY <2>1, <2>2 DEF Ids
    <2>4. opened \in Seq(Passwords) /\ Len(opened) = 1 /\ password \in Passwords
      BY DEF AccountsInit, Passwords
    <2>5. RowsOK
      <3>1. \A t \in Ids : sessions[t].family \in 1..t
        BY <2>1, <2>3
      <3>2. ended \subseteq Ids /\ straddlers \subseteq Ids /\ crossing \subseteq Calls
        BY DEF AccountsInit
      <3>3. unfinished \in BOOLEAN
        BY DEF AccountsInit
      <3> QED
        BY <2>3, <2>4, <3>1, <3>2, <3>3 DEF RowsOK
    <2>6. RequestsOK
      BY DEF RequestsOK, AccountsInit, CallAt, CallSteps
    <2> QED
      BY <2>5, <2>6 DEF SessionsOK
  <1>2. LinksOK
    <2>1. JobsOK
      BY AccountConstants DEF JobsOK, AccountsInit
    <2>2. ResetsOK
      BY DEF ResetsOK, AccountsInit, CallAt
    <2> QED
      BY <2>1, <2>2 DEF LinksOK
  <1>3. SoundSessions
    <2>1. Ids = {1} /\ opened[1] = password /\ ended = {}
      BY DEF AccountsInit, Ids
    <2> QED
      BY <2>1 DEF AccountsInit, SoundSessions, Sound, CallAt
  <1>4. ResetsBurn
    BY DEF AccountsInit, ResetsBurn, LinksDieOnReset
  <1>5. Ceiling
    <2>1. Running = {} /\ Issuing = {} /\ Fresh = {}
      BY DEF AccountsInit, Running, Issuing, Fresh
    <2> QED
      BY <2>1, FS_EmptySet, AccountConstants DEF Ceiling
  <1> QED
    BY <1>1, <1>2, <1>3, <1>4, <1>5 DEF Inv

LEMMA InvStep == Inv /\ [AccountsNext]_accountVars => Inv'
  BY SessionsStep, LinksStep, SoundStep, BurnStep, CeilingStep DEF Inv

\* The inductive invariant holds of every behaviour of the account.
THEOREM InvHolds == AccountsSpec => []Inv
  BY InvInit, InvStep, PTL DEF AccountsSpec

\* The rows of one account and its requests and jobs are well formed whatever comes of
\* them (auth.repository.ts, account-tokens.service.ts).
THEOREM TypeCorrect == AccountsSpec => []AccountsTypeOK
  <1>1. Inv => AccountsTypeOK
    BY DEF Inv, SessionsOK, RowsOK, RequestsOK, LinksOK, JobsOK, ResetsOK, Link, AccountsTypeOK
  <1> QED
    BY <1>1, InvHolds, PTL

\* auth.service.ts, refresh, logoutAll and changePassword, and resetPassword: a family
\* ended by a reuse, a logout everywhere, a new password or a reset has no live token,
\* but those of a refresh that was past its check by then, and of its successors.
THEOREM EndedFamiliesStayEnded == AccountsSpec => []EndedStaysEnded
  <1>1. Inv => EndedStaysEnded
    BY DEF Inv, SoundSessions, Sound, EndedStaysEnded
  <1> QED
    BY <1>1, InvHolds, PTL

\* users.service.ts, changePassword, and password-reset.service.ts: every live session
\* rests on the password in force, with the exceptions that the property names.
THEOREM LiveSessionsMatchPassword == AccountsSpec => []SessionsMatchPassword
  <1>1. Inv => SessionsMatchPassword
    BY DEF Inv, SoundSessions, Sound, Excused, SessionsMatchPassword
  <1> QED
    BY <1>1, InvHolds, PTL

\* account-tokens.service.ts, consume and invalidateOutstanding in one transaction: of
\* the links there are when a reset commits, none resets the password again.
THEOREM UsedLinksAreDead == AccountsSpec => []LinksDieOnReset
  <1>1. Inv => LinksDieOnReset
    BY DEF Inv, ResetsBurn
  <1> QED
    BY <1>1, InvHolds, PTL

\* The worker's count of the links of the last hour, read before its write: whatever is
\* retried or crashes, the links of an hour exceed the ceiling by the handlers that run
\* at once, less one.
THEOREM CeilingOverrunBounded == AccountsSpec => []CeilingOverrun
  <1>1. Inv => CeilingOverrun
    <2> SUFFICES ASSUME Inv PROVE CeilingOverrun
      OBVIOUS
    <2>1. Cardinality(Fresh) \in Nat /\ Cardinality(Issuing) \in Nat
      BY FreshFinite, IssuingFinite DEF Inv
    <2> QED
      BY <2>1, AccountConstants DEF Inv, Ceiling, CeilingOverrun
  <1> QED
    BY <1>1, InvHolds, PTL

\* ADR 0003: where no token is presented twice at once, a family has one live token at
\* most, whatever else overlaps with the refresh: only two refreshes of one token, both
\* past the check of authService.refresh, fork a family.
THEOREM OneLiveTokenAlone == AccountsSpec /\ []OneRefreshPerToken => []OneLiveTokenPerFamily
  <1>1. OneCurrent => OneLiveTokenPerFamily
    <2> SUFFICES ASSUME OneCurrent, NEW f \in Ids
                 PROVE  Cardinality({t \in InFamily(f) : Live(t)}) <= 1
      BY DEF OneLiveTokenPerFamily
    <2> DEFINE L == {t \in InFamily(f) : Live(t)}
    <2>1. \A t, u \in L : t = u
      BY DEF OneCurrent, Current, InFamily
    <2> HIDE DEF L
    <2>2. CASE L = {}
      BY <2>2, FS_EmptySet DEF L
    <2>3. CASE L # {}
      <3>1. PICK t : L = {t}
        BY <2>1, <2>3
      <3> QED
        BY <3>1, FS_Singleton DEF L
    <2> QED
      BY <2>2, <2>3
  <1>2. Inv /\ OneCurrent /\ OneRefreshPerToken /\ [AccountsNext]_accountVars => OneCurrent'
    BY OneCurrentStep DEF Inv
  <1> QED
    BY <1>1, <1>2, OneCurrentInit, InvHolds, PTL DEF AccountsSpec
=============================================================================
