# Formal models of the tasks platform

TLA+ modules, TLC runs and TLAPS proofs about the server side of this
repository: the API (`apps/api`), the worker (`apps/worker`) and the code they
share (`packages/shared`). Paths below are relative to the repository root.

## The system

A multi-tenant task service. The API is a stateless Express process (any number
of replicas) over Postgres (Prisma, READ COMMITTED) and Redis. The worker
(again any number of replicas) polls an outbox table in Postgres and consumes
three BullMQ queues in Redis. Processes share nothing but the two stores, so all
that is hard is in the interleaving of their statements, in the commands that
fail half-way, and in the crash of one between two statements.

| Component | State | Operations | Talks to | Correct when |
|---|---|---|---|---|
| Outbox dispatcher (`apps/worker/src/dispatcher`) | `OutboxEvent` rows | poll, claim, fan out, stop | endpoints (reads), delivery queue (adds) | an event is claimed once, no endpoint gets two jobs, no event stays pending |
| Webhook delivery (`apps/worker/src/services/webhook-delivery.service.ts`) | `WebhookDelivery` rows, `consecutiveFailures`, `enabled`, BullMQ job state | attempt, retry, count an exhausted chain, disable | receiver (HTTP), endpoints | a completed job was delivered, the counter counts exhausted chains in a row |
| Webhook endpoints (`apps/api/src/modules/webhooks`) | `WebhookEndpoint` rows | create, update, enable, disable, remove, test send, check of the URL | dispatcher and delivery through the table | enabling is a fresh start; exactly the blocks set aside are refused |
| Tasks and activity (`modules/tasks`, `modules/activity`, `modules/outbox`) | `Task`, `TaskActivity`, `OutboxEvent` rows, `Project.taskCounter` | create, patch, assign, unassign, delete | outbox (same transaction) | numbers without gaps, no lost update, log agrees with rows |
| Labels, comments (`modules/labels`, `modules/comments`) | `Label`, `TaskLabel`, `Comment` rows | create, rename, erase labels, set a task's labels, comment | activity | the label set is the one last asked for, a deleted comment stays deleted |
| Projects (`modules/projects`) | `Project` rows | create, archive, remove | tasks | keys unique, removed projects invisible |
| Sessions (`modules/auth`) | `RefreshToken` rows | register, login, refresh, logout, revoke all | users | one live token for each family, revoking leaves none |
| Account tokens (`packages/shared/src/account-tokens`, `modules/password-reset`, `modules/email-verification`) | `VerificationToken`, `PasswordResetToken` rows | request, issue, check, consume | sessions, e-mail queue | a token works once, ceilings hold |
| Members, organizations (`modules/members`, `modules/organizations`) | `Organization`, `Membership` rows | create and delete an organization, change role, remove, leave, transfer ownership | invitations, tasks | exactly one OWNER, changes come from above |
| Invitations (`modules/invitations`) | `Invitation` rows | create, revoke, accept | members, e-mail queue | one pending for each address, one admission for each, none after revocation |
| API keys (`modules/api-keys`) | `ApiKey` rows | create, revoke, authenticate | permission matrix | scopes within the creator's and the catalog |
| Permission matrix (`shared/authorization`) | none | checks | all handlers | roles are ordered as documented |
| Rate limiter (`shared/http/rate-limit.middleware.ts`) | Redis counters | count a request | Redis | a window lets no more through than its maximum, and ends |
| Pagination (`shared/pagination`) | none | cursor pages | lists | a walk sees what stays, once |
| Error mapping (`shared/errors`) | none | error to status | all handlers | an answer tells whether something was changed |

Hard behaviours: overlapping polls and replicas (dispatcher), the window between
the commit in Postgres and the adds in Redis (dispatcher), values read before a
POST of seconds and used after it (delivery), a decision in one statement and its
effect in the next (delivery, tasks, members, invitations), work nobody awaits
(delivery, shutdown), checks on a row read by a middleware followed by an
unconditional write (tasks, members, sessions, comments), a count that decides and
is outdated when its effect is written (ceilings of links), sets replaced at READ
COMMITTED (labels), pages of a list that changes (all lists), two Redis commands of
which the second is lost (rate limiter). `PROJECT.json` lists them at
their lines, with the properties that watch them.

## Modules

| Module | What it models |
|---|---|
| `OutboxDispatcher` | the outbox table, the ticks of every worker process, endpoint subscriptions, test sends, faults, crashes, shutdown |
| `OutboxPromise` | the abstract outbox: record, claim, hand over, each at most once |
| `OutboxDispatcherProofs` | theorems about `OutboxDispatcher` |
| `WebhookDelivery` | delivery jobs, their attempts and retries, the delivery log, the failure counter and automatic disabling, administrators |
| `WebhookUrl` | the check of a webhook's URL, and its reference: the address blocks set aside |
| `WebhookSignature` | how a delivery is signed and what a receiver takes for signed |
| `WebhookProofs` | theorems about `WebhookDelivery`, `WebhookUrl` and `WebhookSignature` |
| `Pagination` | cursor pages: Prisma's `findMany` as the lists use it, `buildPage` |
| `PaginationProofs` | lemmas about the order of a list, its pages and walks, for `TasksProofs` and `WorkspaceProofs` |
| `Tasks` | the tasks of one project, the requests on them, and walks through their lists |
| `AuditedField` | the abstract audited field: a value and a log of its changes |
| `TasksProofs` | theorems about `Tasks`, with the refinement of `AuditedField` |
| `Accounts` | the credentials of one account: password, refresh-token families, password-reset links and the worker jobs that issue them |
| `AccountsProofs` | theorems about `Accounts` |
| `Permissions` | the permission matrix, ranks, the catalog of API-key scopes, actors |
| `Problems` | the errors of the handlers and the status each is answered with |
| `Organization` | one organization: its creation, members, invitations and keys, and the requests on them (uses `Permissions`, `Problems`) |
| `OrganizationProofs` | theorems about `Organization` |
| `Workspace` | labels, comments and projects, the labels of one task, and walks through all lists (uses `Permissions`, `Pagination`) |
| `WorkspaceProofs` | theorems about `Workspace`, and about `MCWorkspace`, which runs it beside `EmailVerification` |
| `RateLimiter` | the attempts of one address in one bucket |
| `EmailVerification` | the verification links of one account; verifying goes through `RateLimiter`, whose state it extends |
| `EmailVerificationProofs` | theorems about `RateLimiter` and `EmailVerification` |
| `MC*` | values of the constants for TLC |

### How state and actions correspond to the code

**OutboxDispatcher.** `recorded`, `dispatched` and `attempts` are the
`OutboxEvent` rows (a row is numbered by its `createdAt` order). `phase`,
`batch`, `event` and `targets` are the locals of one call of
`dispatchOutboxBatch`; each `await` of it is a step: `Claim` (the SELECT ... FOR
UPDATE SKIP LOCKED), `CommitClaim` (updateMany and commit), `ReadEndpoints`
(findMany for one event), `AddJob` (queue.add for one endpoint). A claim with
an open transaction holds row locks (`Locked`), which other claims skip. The
timer of a process does not wait for the last cycle, so a process has several
ticks; `inFlight` is the one `stop()` will await. `jobs` counts what was added
to the queue, per event and endpoint. `listening` is what `findMany` can tell of
the endpoints: which types an enabled one wants. A rejected Redis command may
have been executed (`QueueFault`), and so may the commit (`CommitAnswerLost`).

**WebhookDelivery.** A job is waiting, active, completed or failed in BullMQ
(external, modelled from `index.ts`, `queues.ts` and the processor). `step` is
where the handler of an active job is: `StartAttempt` (both reads and the skip),
`Post` (fetch, in which the receiver may take the event and the answer still be
an error), `RecordDelivery`, `ResetFailures`, `Return` (resolve or throw; BullMQ
counts the attempt and the `failed` listener starts). `chain` is
`recordChainExhausted`: `CountExhausted` and `DisableEndpoint` are its two
statements, awaited by nobody. A crash sends active jobs back to the queue with
the attempt not counted. Backoff delays are not modelled: a retry may come at
any time. A job found stalled twice is failed by BullMQ; the model stays below
that with at most one crash.

**Tasks.** `row` has the columns the properties tell apart; title, description,
priority and due date are written and logged the way `status` is, without the
`completedAt` side effect. A request on a task is a read (`requireTask`) with
all its permission checks, then one transaction. `request[r].read` is
`req.task`. A transaction on one task is a single step because its first
statement takes the row lock and re-evaluates its WHERE after a wait. Creation
is two steps, because the lock on the counter row is held between them. The
version a client sends is one some answer has shown it. (A client that guesses
a version from the future is outside the model: with one, `completedAt` and the
diff could be computed from an older row than the one replaced.) Every activity
entry stands also for its outbox event, inserted by the same call of
`activityService.record` in the same transaction. Members stay members, and a
`Stranger` is never assigned. One client walks through a list (`StartWalk`,
`NextPage`); `touched` and `unsure` are the history of what left the list meanwhile.

**Pagination.** A list is the rows that match (`Listed`) in an order over the rows of
the table (`Place`). `findMany` is external: Prisma looks the cursor's row up in the
table, whether or not it still matches, and `skip: 1` drops the first row from there
on, the cursor's own or, if that no longer matches, the one after it. So a walk whose
cursor's row left the list skips a row: the properties except exactly these walks.

**Accounts.** `sessions` and `links` are the `RefreshToken` and
`PasswordResetToken` rows in order of creation, so a row's number says which is
older. A request of `authController`, `usersController.changePassword` or
`resetPassword` is at most three steps, one for each stretch between awaits that
matter: the look and its checks (`Login`, `Refresh`, `Logout`, `Change`, `Reset`),
then the write (`IssueSession`, `Rotate`, `CloseFamily`, `RevokeById`, `WritePassword`
and `RevokeOthers`, `CommitReset`). A request may present any token, link or
password there ever was. A transaction is one step, its commit: what it wrote is
invisible before, its updates by condition wait for locked rows and look again,
and a statement of another request between its first write and its commit acts as
if before it or after it. A deadlock victim (two resets by different links) is a
`CallCutShort`. `TakeJob`, `IssueLink` and `MailLink` are
`handlePasswordResetRequest`; the link that is only mailed once `queue.add` took
it is what a user can present. The links' lifetime and the ceiling's window are
both an hour: `HourPasses` ends both. The account exists, is active and knows one
address; unknown tokens and addresses change nothing and are left out. `opened`,
`ended`, `crossing`, `straddlers`, `resets` and `unfinished` are history.

**Organization.** `members`, `invitations` and `keys` are the rows, `organization` the
row of the organization. A request passes `requireAuth`, `requireMembership` and
`requirePermission` in one step (`Arrive`: `Passes`, then `ArriveAsUser` or
`ArriveWithKey`), after which it acts on the role read there; then each lookup is a
step and each write is a step: `UpdateRole`, `Remove`, `Leave`, `TransferOwnership` and
`FindToRevoke` decide, `SetRole`, `DeleteRow`, `CommitTransfer` and `RevokeInvitation`
write by id. Creating an invitation is `CheckInvitee`, `FindPending`, `Retire` (of an
expired one), `InsertInvitation` (under the partial unique index) and `MailInvitation`;
accepting is `Accept` and the transaction `Join`. A write to a row that has gone fails
(`RowHasGone`, `StillThere`: P2025), and so does a second membership
(`JoinedAlready`); both are answered 500. Creating the organization is two statements
outside a transaction, so `CutShort` may leave it without an owner (`orphaned`).
`overtaken` are requests that read what another has written since, `stale` the writes
such requests made, `admitted` how often an invitation let somebody in.

**Workspace.** Requests on labels, comments and projects look (`requireLabel`,
`requireComment`, `requireProject`, the lookup of a name or key), and then write by id
under the unique indexes. `setTaskLabels` is a transaction at READ COMMITTED whose
statements interleave with others: `ListForTask` reads the labels before,
`StartDelete` takes the snapshot of the DELETE, `FinishDelete` has waited for the rows
another transaction holds (`LockedRows`) and skips those that have gone. A row that was
inserted in the place of one that has gone is another row (`TaskLabelRow` tells them apart
by the entry of their transaction), which the DELETE does not see. `Replace` waits with its
INSERT for rows of its labels in the hands of others; then it inserts, records the entry and
commits, or, if a row of one of its labels stands, is refused by the primary key (P2002)
and rolled back. `editor` of a comment stands for its text: who wrote that last. `since` and `from` in a request are history:
how long the log was when it read the labels and when its DELETE began. Comments and their entries, and
walks through the five lists, complete the module.

**RateLimiter, EmailVerification.** `gate` is where an attempt is between INCR, PEXPIRE
and its handler. A command that failed may have been executed. `Verify` is the handler
behind it; `Resend`, `CountRecent`, `Issue` and `Mail` are the awaits of `resend`, and
the registration is a sending past its checks. `TimePasses` takes links out of the
hour's count and, if a day has passed, out of their lifetime.

**WebhookUrl.** A URL is what the WHATWG parser makes of it (external): a protocol, a
host that is a name, an IPv4 or an IPv6 address, and whether it carries credentials.
Only the last group of an IPv6 text may be dotted, as `isIPv6` has it. Bit masks are
modelled by the arithmetic they do.

**WebhookSignature.** HMAC-SHA256 is ideal: equal only for equal inputs. A header is its
parts between the commas, as `verifyWebhookSignature` splits it; of two parts with one key
the last counts (the `Map`), and a hexadecimal text counts up to its first other character
(`Buffer.from`). Timestamps are whole numbers, as the signer writes them.

Definitions marked FAULTY are wrong versions of the definition below them: a
dropped condition, a missing reset, a swapped order. No action uses them; each
was put in the place of the right one once, and TLC found the property in this
table violated.

| Wrong version | Replaces | Noticed by |
|---|---|---|
| `ClaimableUncommitted` (reads uncommitted rows) | `Claimable` | `OutboxDispatcher!TypeOK` |
| `ClaimableLockedToo` (no SKIP LOCKED) | `Claimable` | `ClaimedOnce` |
| `ClaimableDispatchedToo` (no dispatchedAt condition) | `Claimable` | `AtMostOneJob` |
| `AddJobFirstOnly` (one endpoint for each event) | `AddJob` | `LostOnlyIfCutShort` |
| `OldestFullBatch` (waits for a whole batch) | `Oldest` | `EventuallyHandedOver` |
| `AddJobAgain` (endpoint not crossed off) | `AddJob` | `ImplementsPromise` |
| `ReturnRetryingAlways` (no limit of attempts) | `Return` | `WebhookDelivery!TypeOK` |
| `ReturnWithoutCounting` (attempt not counted) | `Return` | `AttemptRowOnce` |
| `ReturnLeavingActive` (failed job not put back) | `Return` | `EveryChainEnds` |
| `PostIgnoringStatus` (error answer taken for success) | `Post` | `CompletedMeansDelivered` |
| `RecordDeliveryOfFailure` (only failures logged) | `RecordDelivery` | `CompletedMeansDelivered` |
| `ReturnCountingAttempts` (every failed attempt is a chain) | `Return` | `FailuresAreExhaustedChains` |
| `CountExhaustedLate` (one chain too many) | `CountExhausted` | `EventuallyDisabled` |
| `PatchedUnset` (field left out is written) | `Patched` | `Tasks!TypeOK` |
| `AbortKeepingNumber` (increment outside the transaction) | `Abort` | `NumberedWithoutGaps` |
| `CompletedNeverCleared` | `Completed` | `CompletedWhileDone` |
| `AssignedSameVersion` (version not incremented) | `Assigned` | `VersionNamesContent` |
| `AssigneeEntriesNotNobody` (unassign not logged) | `AssigneeEntries` | `LogTellsAssignee` |
| `WriteUpdateAnyVersion` (last writer wins) | `WriteUpdate` | `StatusIsAudited` |
| `AbortKeepingLock` (lock survives the rollback) | `Abort` | `EveryRequestAnswered` |
| `TakeJobResuming` (retry skips the issuing) | `TakeJob` | `AccountsTypeOK` |
| `CloseToken` (reuse ends one token only) | `CloseFamily` | `EndedStaysEnded` |
| `CommitResetOnly` (reset leaves the sessions) | `CommitReset` | `SessionsMatchPassword` |
| `ConsumeAnyway` (consume without its condition) | `Consumable` | `LinksDieOnReset` |
| `TakeAnyJob` (ceiling not checked) | `TakeJob` | `CeilingOverrun` |
| `buildPageFromNext` (cursor is the first row of the next page) | `buildPage` | `ListSeesWhatStays` |
| `findManyInclusive` (no `skip: 1`) | `findMany` | `WalkSeesWhatStays` |
| `InsertUnindexed` (no partial unique index) | `InsertInvitation` | `Organization!TypeOK` |
| `LeaveAnyway` (the owner may leave) | `Leave` | `SoleOwner` |
| `AcceptAgain` (acceptedAt not looked at) | `Accept` | `AdmittedOnce` |
| `CheckRoleOnly` (members may be invited) | `CheckInvitee` | `PendingInvitations` |
| `API_KEY_WRITE_SCOPES_Inviting` (keys may be granted invitations) | `API_KEY_WRITE_SCOPES` | `KeysAdministerNothing` |
| `canManageEqual` (rank not below is enough) | `canManageRole` | `ChangesFromAbove` |
| `FindPendingByIndex` (the index alone refuses a second invitation) | `FindPending` | `AnswersTell` |
| `InsertLabelUnindexed` (no unique index on the folded name) | `InsertLabel` | `MCWorkspace!TypeOK` |
| `ReplaceAdding` (labels added, not replaced) | `Replace` | `LabelsAsAsked` |
| `EditWritingBack` (the row that was read is written back) | `EditComment` | `CommentsSettle` |
| `SetExpiryLate` (expiry set by the second attempt) | `SetExpiry` | `LimiterWindow` |
| `CountOneMore` (ceiling off by one) | `CountRecent` | `VerificationCeiling` |
| `VerifyOne` (other links not invalidated) | `Verify` | `VerifiedBurnsLinks` |

## Runs

| Run | Checks | Shows |
|---|---|---|
| `dispatcher` | 4 invariants, `EventuallyHandedOver`, `ImplementsPromise` | claims exclude each other; a job is added once across faults, crashes and restarts; an event is lost only where a command or process of its tick failed; the outbox keeps catching up; the dispatcher implements `OutboxPromise` |
| `dispatcher_loss` | `LossNeedsCrash`, violated | docs/DEBT.md says the loss needs a crash; one `queue.add` rejected after the claim was committed suffices, and takes the rest of the claimed batch with it. Only Redis fails in this run (`Failing`), so that the trace is about the add |
| `dispatcher_shutdown` | `ShutdownCutsNoTick`, violated | the comment of `startOutboxDispatcher` says that shutdown never cuts a dispatch cycle in half; `stop()` awaits the newest tick only. An older one has claimed an event and waits for its next await, a newer one finds nothing to claim and ends, `stop()` resolves, and `process.exit` follows: no fault, no crash |
| `delivery` | 4 invariants, `EveryChainEnds`, `EventuallyDisabled` | queue, log, counter and disabling agree; every chain ends. `MCWebhookDelivery` also ASSUMEs, hence TLC evaluates, that `WebhookUrl` refuses the IPv4 and IPv6 blocks set aside at their boundaries, and no others, in every text of an address, that it expands every text of its samples, and that `WebhookSignature` takes what was signed and nothing else, for all headers of up to two parts |
| `delivery_in_a_row` | `InARow`, violated | a success whose handler had read the counter as 0 does not reset it, so failures that are not in a row disable the endpoint |
| `delivery_fresh_chance` | `FreshChance`, violated | the disabling update, decided before an administrator re-enabled the endpoint, disables it at once |
| `tasks` | 6 invariants, `StatusIsAudited`, `EveryRequestAnswered` | numbering, optimistic locking, completedAt and the log stay right under interleaving and rollback; the status implements `AuditedField`; a client that walks a list sees every task that stays in it once |
| `tasks_self_assign` | `SelfAssignTakesUnassigned`, violated | two members claim one unassigned task; the second takes it from the first |
| `people` | 10 invariants, `ChangesFromAbove`, `AnswersTell` | of `Accounts`: whatever ends sessions (reuse, reset, logout-all, password change) ends them all, but for what requests past their check create; a reset link dies with the first reset, by whichever link; the ceiling is overrun by concurrent handlers only, and by how much. Of `Organization`, in behaviours of its own: how far stale reads go: each overlapping transfer may add one OWNER and each overlapping removal, departure or role change take one away, nothing else does; an invitation admits once but for acceptances past their check; a refusal has changed nothing and nobody is answered 500 for what they asked alone. That the roles are nested is an ASSUME of `MCOrganization` |
| `accounts_rotation` | `OneLiveTokenPerFamily`, violated | two refreshes of one token at once fork its family, and neither counts as reuse |
| `organization_owner` | `ExactlyOneOwner`, violated | two transfers by the founder at once leave two OWNERs |
| `workspace` | 6 invariants, `CommentsSettle` | replacements of a label set leave the one last asked for, but for what they merge at READ COMMITTED; deleted comments stay deleted; walks through five lists see what stays once; the limiter's window holds and ends; links stay under their ceiling but for outdated counts, and die when one is consumed |

### Bounds

- `Dispatcher.cfg`: two replicas, one with two overlapping ticks; two events of
  one type and two endpoints; one fault, one crash or shutdown, one
  subscription change. Two ticks of one process and a third of another are what
  a claim, its lock and `stop()` can tell apart; batches of two let a fault
  strike after one event of a batch is done. 327,264 states. `DispatcherLoss.cfg`: only
  Redis fails (`Failing`), no crash or shutdown. `DispatcherShutdown.cfg`: nothing fails
  and no subscription changes; one shutdown.
- `Delivery.cfg`: two jobs to one endpoint, two attempts each, the limit at two
  chains, one fault, one crash or shutdown, two administrators' requests (so
  that disable and enable can both strike between two statements). About
  385,000 states. `DeliveryInARow.cfg` needs three chains of one attempt and no
  fault; `DeliveryFreshChance.cfg` two chains and two requests.
- `Tasks.cfg`: two requests under way, four in all, two tasks; a member, an
  administrator and an API key with their real grants. Four requests are one
  creation and three writes, the shortest run in which a status goes to DONE and
  back while another write interferes; two creations race for the counter. Starting a
  walk through a list counts as a request; its pages have one task. 244,056 states.
  `TasksSelfAssign.cfg`: one task, two members.
- `People.cfg`: `Accounts` and `Organization`, which share no row, in one run, in
  behaviours of their own (`moves` says whose). `Accounts`: three API requests of any kind,
  all of them possibly under way at once (a race needs two, and its victim or its witness
  is the third), two reset jobs with two attempts each under a ceiling of one, two handlers
  at once, one fault, one expiry of a session or of a link. The account starts as
  registration leaves it. `Organization`: three people, three requests of any kind at once,
  two invitations, one key, one failed command; a request is given ADMIN or MEMBER, a key
  one scope it may have or one it may not. The organization does not exist yet, or stands
  with its founder and possibly a second member. Three requests are two that race and one
  that acts on what they leave. Requests, the jobs of one and the people but the founder of
  the other are interchangeable (`SYMMETRY`; no liveness is checked). 2,113,526 states:
  1,736,392 and 377,134. `AccountsRotation.cfg`: no job, fault or expiry.
  `OrganizationOwner.cfg`: two requests, one invitation, no key and no fault.
- `Workspace.cfg`: three requests or walks at once on two labels, two comments and two
  projects, with room for one more of each; pages of one row, so that every row but the
  last is a cursor; one rollback. `EmailVerification` is checked in the same run, in
  behaviours of its own (`moves` says whose): three sendings under a ceiling of two,
  three attempts of which the limiter lets two through, one fault of each kind, one
  passage of time. 411,865 states, requests and sendings interchangeable (`SYMMETRY`).

TLC is told not to report deadlock for deliveries, tasks, accounts, the organization and
the workspace, whose runs end when every job or request is done.

### Fairness

- Dispatcher: each tick's step (`WF`), since timers keep firing and a pending
  await resolves or rejects; the steps of a shutdown; and `Start`. The last is an
  assumption about whoever operates the worker: docs/DEBT.md notes that no restart
  policy is set for it. Clients and faults have no fairness.
- Delivery: each job's handler steps, since `fetch` has a timeout and BullMQ takes
  a waiting job when its delay is over, and each listener's promise.
- Tasks: each request's own steps; a row lock goes to the requests that wait in
  turn, and there are finitely many.
- Accounts, organization, workspace: none; only safety is checked.

## Proofs

`OutboxDispatcherProofs` proves, for any number of workers, ticks, events, types
and endpoints and any bounds, from `DispatcherConstants` alone:

- `TypeCorrect`: `Spec => []TypeOK`.
- `InvHolds`: `Spec => []Inv`, the inductive invariant. `AtMostOneJob` is not
  inductive: nothing in it says that the job about to be added is not there. `Inv`
  adds `PhaseShape` (which locals a tick has in which phase), `WorkApart` (no two
  ticks hold one event, and what is being claimed is not dispatched),
  `OwedHasNoJob` (an event that is pending, held by a tick or awaiting its test send
  has no job yet for the endpoints still to come) and `AttemptsCountClaims`
  (`attempts` is 1 exactly for an event a tick has claimed). TLC checked `Inv` as an
  invariant of the `dispatcher` run before it was proved.
- `EventsClaimedOnce` and `JobsAddedOnce`: `ClaimedOnce` and `AtMostOneJob`.
- `DispatcherKeepsPromise`: every step is a step of `OutboxPromise` or a stutter;
  the refinement is the identity on `recorded`, `dispatched` and `jobs`.

- `LostIfCutShort`: `LostOnlyIfCutShort`. The invariant `Kept` says who still owes a
  job: for every claimed event that was not cut short and every endpoint that wanted it
  ever since, the job is there or a tick is on its way to it (`HandedOver`), and findMany
  will give that endpoint (`SteadyOnes`).
- `ShutdownCutsNoLoneTick`, for which `Kept` adds that a process awaits a tick of its own
  and does not stop before that is over, and `LossWithoutFaultsNeedsCrash`: see "Where the refuted statements hold".

The other modules have one inductive invariant each, checked by TLC on the module's run
before it was proved, and theorems that draw the run's properties from it. All are for
every value of the constants that the module's named assumption allows.

`WebhookProofs`, about `WebhookDelivery` and from `DeliveryConstants`. `InvHolds` proves
`Inv == TypeOK /\ QueueShape /\ RowsFit /\ SuccessKept /\ FailuresCounted`, from which
`TypeCorrect`, `RowsOnce`, `CompletedJobsDelivered` and `FailuresAreFailedJobs` follow.
That a completed job was delivered needs what a handler on its way from `Post` to
`Return` knows (`SuccessKept`); that the counter stays within the failed jobs needs that those
whose chain is still to be counted are not in it, and how many there were when a disabling
was decided (`FailuresCounted`).

`TasksProofs`, from `TasksConstants`. `Inv` is the type of what is stored (`StoredTyped`),
`NumberedWithoutGaps`, `CompletedWhileDone` and `LogTellsAssignee` with what makes them
inductive: a request holds a row of the task that was its content at that version
(`RequestsFit`), so one that finds the version it has read finds the content it has read
(`VersionsNameContents`), and the completedAt it computed from there fits the status it
leaves. `TypeCorrect` is the whole of `TypeOK`.
`LogNamesAssignee` proves both halves of `LogTellsAssignee`. That the "before" of an entry
is an assignee the task has had does not follow from `Inv`: a request may write long after
it read, so `Traced` (`AssigneesTraced`) says of every assignee that a request holds that it
is in the log by then, or is the one the task was created for.
`StatusKeepsAudit` is the refinement of `AuditedField`: every step is a change of one
status with its entry, something the abstract log is not about (`Other`), or a stutter.

`PaginationProofs` is about `findMany` and `buildPage` for any finite list. `InOrder` puts a row
at the place that the number of rows before it gives; `InOrderEnumerates` shows that this
is every row, once, in the order. From it come what a page has and leaves (`FirstPage`,
`LaterPage`) and what a client at a cursor knows while the list changes, `Abreast`: the
cursor's row is in the list, with what was seen and stayed at or before it and what is
still to be seen and stayed behind it. A page keeps that (`WalksOnAbreast`), and so does a
change of the list in which the cursor's row neither leaves nor moves (`StaysAbreast`).
`TasksProofs` and `WorkspaceProofs` have it as the invariant of their walks (`WalksFit`),
on top of `Inv`, and conclude `WalksSeeWhatStays`: `ListSeesWhatStays` for the lists of
tasks, `WalkSeesWhatStays` for the five lists of `Workspace`. That the cursor's row must not
leave is needed: there `skip: 1` drops a row the client has not seen.

`AccountsProofs`, from `AccountConstants`.
`Inv == SessionsOK /\ LinksOK /\ SoundSessions /\ ResetsBurn /\ Ceiling` gives
`TypeCorrect`, `EndedFamiliesStayEnded`, `LiveSessionsMatchPassword`, `UsedLinksAreDead`
and `CeilingOverrunBounded`. `SoundSessions` says what makes a live session right, and that
a request past its check which no revocation has met will create such a one. The overrun
of the ceiling is an argument by counting: the links of the hour and the handlers past
their count, who will each add one, are together at most the ceiling and the handlers at
once, less one (`Ceiling`).

`OrganizationProofs`, from `OrganizationConstants`. `Inv` is `RowsOK`, `RequestsOK`,
`FoundedOnce`, `StaleOnce`, `SoleOwner`, `AdmittedOnce` and `PendingInvitations`. The idea
is `Knows(r)`: what a request has read about members, invitations and names still holds
when it writes, unless another request has overtaken it. Each write is then proved twice:
of a request that knows, the property is kept by the checks of its handler; of one that was
overtaken, the exception counts the one change it makes. `ManagersStandAbove` and
`AnswersAreTrue` are the action properties `ChangesFromAbove` and `AnswersTell`, from the
same invariant.

`EmailVerificationProofs` proves `WindowHolds`, `LimiterSpec => []LimiterWindow`, from
`RateLimiterConstants`. That the attempts let through are at most the maximum is not
inductive: `LimiterInv` adds that they are finitely many and at most as many as the
counter says, and that there are none without a counter; an attempt that may still set
the expiry excludes that the key has one. From `EmailVerificationConstants` besides, it
proves `VerificationInv == LimiterInv /\ Shape /\ OwnLinks /\ Room /\ Burned` and from
that `VerificationTypeCorrect`, `WindowHoldsBeforeVerify`, `CeilingOfLinks` and
`ConsumedLinkBurnsOthers`. The ceiling rests on `Room`: the links of the last hour that
were issued on counts that still held leave room for one more, as long as a sending is
past its count and no other has outdated it. `Burned` says whose links may be usable once one was
consumed.

`WorkspaceProofs`, from `WorkspaceConstants`.
`Inv == LabelsOK /\ CommentsOK /\ ProjectsOK /\ LogOK /\ RequestsOK /\ LabelsAsAsked`
and `Foreseen(r)` of every request: a replacement under way has read what the last one
before it had left, and the rows that are not among those it has deleted were put there by
others since its DELETE began. `TypeCorrect` includes the unique indexes on names and keys
and the primary key of `TaskLabel`; `LastReplacementStands` is `LabelsAsAsked`,
`CommentsAreSettled` the action property `CommentsSettle`. The module also proves what the `workspace` run checks of its two
components together, from `MCWorkspace`: a behaviour of the run is one of `Workspace` and
one of `EmailVerification` (`RunImplementsBoth`), hence what is proved of either holds in
it, and the `TypeOK` of both (`BothTypeCorrect`).

`WebhookProofs` proves about `WebhookUrl` `RefusedBlocks`: for all four octets,
`isPrivateIPv4` holds exactly if the first 24 bits lie in one of `SpecialBlocks`. Two
lemmas turn both sides into the same intervals of the three octets (`BlocksAsIntervals`,
`TestsAsIntervals`). `TextsExpand`: `expandIPv6` gives the eight groups of an IPv6 address
from each of its texts, whatever run of zeroes is left out and whether it ends dotted.
What either side of the "::" expands to is a slice of the groups (`HexGroupsRead`,
`DottedGroupsRead`), and the zeroes between the slices complete them (`FilledIn`). From
it, `RefusedIPv6`: `isPrivateIPv6` holds exactly for the blocks of `SpecialIPv6`, each mask
being a range of the first group (`MasksAsRanges`) and a mapped address decided by
`RefusedBlocks`. About `WebhookSignature` it proves `SignatureHolds`: whatever parts a
header of any length has, its signature is taken for the secret, the time and the body it
was made for, within the tolerance, and for nothing else; `SentHolds`: what
`signWebhookPayload` makes is taken exactly within the tolerance. That the map of the
parts has a value at all needs that a set of places has a last one, which `LastPlace`
takes from the well-foundedness of `<`.

### Where the refuted statements hold

Seven runs show that a comment or document claims more than the code keeps. A theorem tells
of each one from where on the claim is right, so that the run's counterexample is known to
be the only kind there is:

| Statement | Holds if | Theorem | By |
|---|---|---|---|
| `LossNeedsCrash` | no command of Postgres or Redis has been rejected (`faults = 0`) | `LossWithoutFaultsNeedsCrash` | `CutBy`: a tick is cut short by a rejected command or the end of its process, and by nothing else |
| `ShutdownCutsNoTick` | no process ever has two ticks under way (each host has one tick) | `ShutdownCutsNoLoneTick` | `Stoppable`: a process that closes has its newest tick over, which is then its only one |
| `InARow` | a counter that a handler read as 0 is still 0 when it logs its success (`ZeroIsCurrent`) | `InARowIfCurrent` | `CountedInARow`: the counter is within the chains since the last success |
| `FreshChance` | nobody enables an endpoint between the count of a chain and the update that disables it (`EnabledInPeace`) | `FreshChanceInPeace` | `ChancesCounted`: the chances an endpoint had are at least its counter, and enough wherever a disabling was decided or done |
| `SelfAssignTakesUnassigned` | no two assignments of one task are past their check at once (`OneAtATime`) | `SelfAssignAlone` | `AssignsFit`: the assignee an assignment has read is still the one it replaces |
| `OneLiveTokenPerFamily` | no two refreshes of one token are past their check at once (`OneRefreshPerToken`) | `OneLiveTokenAlone` | `OneCurrent`: of a family's tokens that are live or being rotated there is one |
| `ExactlyOneOwner` | no other request to change a member is under way with a transfer (`TransfersAlone`) | `OneOwnerIfTransfersAlone` | `OneOwner`: no request past its lookup is about the row of the OWNER, and who transfers has it |

The hypotheses restrict the interleaving the run shows and nothing else: faults, crashes,
retries, invitations, other requests stay as they are. TLC checked each theorem before it
was proved, with the hypothesis as a constraint, on the instance of a run of its module.

### Only model-checked

- liveness, which like ENABLED is out of the prover's reach: `EventuallyHandedOver`,
  `EveryChainEnds`, `EventuallyDisabled`, `EveryRequestAnswered`;
- that the seven statements above are violated without their hypotheses: a theorem cannot
  say so, the counterexamples of the runs do.

Every invariant and every action property that a run checks is proved, for every value of
the constants.

## What the models show beside the properties

- Two replacements of a task's labels at once can leave the union of both sets
  (`LabelsAsAsked` says how much of it), though each answers with its own. If the sets
  have a label in common, the second is answered 500 instead (P2002).
- An acceptance past its check lets a person in again who was removed meanwhile, and
  after its invitation was revoked (`AdmittedOnce` excepts exactly these).
- When the e-mail job of an invitation cannot be queued, the answer is 503 and the
  invitation stays pending; the retry is refused with 409 until it expires or is revoked.
- The key of a removed project stays in the unique index and is not looked up by
  `create`: asking for it again is answered 500.
- A walk whose cursor's row left the list skips the next row.
- If PEXPIRE is lost, the counter of its address never expires.

## Not modelled

- The slug of an organization, the change of names and descriptions (organizations,
  projects, profiles), `rotateSecret`, `lastUsedAt` of keys: plain writes that no
  decision here reads back.
- Previews, single reads and the lists that have no pages (members, keys, invitations,
  endpoints), and the page list of deliveries: they change nothing.
- Hashing, JWTs, cookies, webhook payloads: a token is its row.
- HTTP parsing and validation, wording of errors, OpenAPI, logging, configuration, health
  checks, e-mail rendering and SMTP, start and stop of the API process, the web client,
  deployment files: no state of their own.
- One project, one organization, one account at a time: rows of others are never read by
  the statements modelled, whose conditions name the owner.

## Plan

Done: 1 `OutboxDispatcher` with `OutboxPromise` and proofs; 2 `WebhookDelivery` with
`WebhookUrl` and `WebhookSignature`; 3 `Tasks` with `AuditedField` and `Pagination`; 4 `Accounts`;
5 `EmailVerification` on `RateLimiter`; 6 `Organization` on `Permissions` and `Problems`;
7 `Workspace`.

There is no module that composes the dispatcher with the deliveries. The two share the
queue and the endpoint rows only, and each has the other as an environment that may do
anything: `ChangeSubscription` lets endpoints come and go under the dispatcher for whatever
reason, disabling included, and a job that waits from `Init` on under `WebhookDelivery` may
be taken at any time, as one added then. So what is stated of either holds beside the
other, and the promise of ADR 0009 is read in two parts: `LostOnlyIfCutShort` and
`AtMostOneJob` up to the queue, `CompletedMeansDelivered` and `EveryChainEnds` from there.

Left for later: members who leave while tasks are assigned to them, and requests on the
webhook endpoints themselves, which are environment in both modules.
