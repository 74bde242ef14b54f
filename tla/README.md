# TLA+ models of the TrustPost backend

TrustPost is a NestJS service for fundraising posts over PostgreSQL (Prisma),
Redis (BullMQ, locks, caches), Socket.io, Cloudinary, WayForPay and Gemini.
Several replicas of it run at once.  This directory holds TLA+ models of the
parts in which requests, webhooks, queue workers and scheduled jobs work on the
same rows and keys, TLC runs that check them on small instances, and TLAPS
proofs that hold for every value of the constants.

    tlc -config Payments.cfg MCPayments     one run (the table below)
    tlapm PaymentsProofs.tla                the proofs in one module

Paths below are relative to `src/src/modules/`; those that begin with
`infrastructure/` are relative to `src/src/`.

## The system

| Part | State it keeps | Operations | What is hard | Model |
|---|---|---|---|---|
| Payments (`payments/`, `maintenance/jobs/expired-pending-payments-cleanup.job.ts`) | `payments`, `payment_attempts`, `Post.currentAmount` | create, regenerate, checkout at the provider, webhook, listings, sweep | webhooks repeated, reordered, racing checkout, purge and sweep | `Payments`, `DonationLedger` |
| Comments and moderation (`posts/comments/`) | `comments`, `Post.totalComments`, moderation queue | create, update, delete, moderate, retry failed, clean up | job ids that collide, redelivery, stalls, read-then-write transactions | `CommentModeration` |
| Posts and their review (`posts/`, `posts/posts-review/`) | `posts`, `post_reviews`, posts queue, roles | create, update, delete, assign, decide, reassign | three writers replace the active review under READ COMMITTED | `PostReview`, `ReviewHistory` |
| Idempotency (`infrastructure/http/interceptors/`) | `idem:lock`, `idem:resp` in Redis | lookup, lock, handler, store, poll | lock expiry, process death, failing commands | `Idempotency` |
| Sessions (`auth/`, `auth/sessions/`, `maintenance/`) | `sessions` | login, OAuth login, device limit, refresh, logout, deletions, expiry | logins that run together, ids that are used again | `Sessions`, `RefreshTokens` |
| Post files and their storage (`posts/posts-files/`, `files/`, `maintenance/jobs/orphan-files.job.ts`) | `post_files`, Cloudinary's files | upload, clean up, link, choose main image, delete, orphan sweep | two stores without a transaction, a lock some requests do not take | `PostFiles`, `PostGallery` |
| Messages and their files (`message/`) | `messages`, `chat_files`, cached pages | send, edit, delete, delete a file, weekly removal | upload, then write; delete, then write; stale pages | `Messages` |
| Chats and membership (`chat/`) | `chats`, `private_chats`, `chat_members`, socket rooms, cached chats and lists | find or create, add, join, leave, hide, read, rooms | two finders of one chat; caches and rooms outlive rows | `Chats` |
| Accounts and roles (`auth/`, `auth/oauth/`, `links/`, `admin/`, `users/`, `user-role-periods/`) | `users`, `provider_accounts`, `user_role_periods`, one-time links in Redis | register, verify, reset, activate, OAuth, change role and status, delete, clean up | ways into one address race; a role read before the transaction that closes its period | `Accounts` |
| E-mail queue (`emails/`, `queues/`) | jobs, dead letters | add, process, retry, dead-letter | job ids that collide, stalls | `Accounts` |
| Rate limiting (`infrastructure/http/throttling/`) | counters and blocks in Redis or in memory | increment, fall back | several commands per increment, each may be the one that fails | `Throttler` |
| Likes and caches of posts (`posts/services/`, `posts/comments/`, `cache/`) | `post_likes`, `comment_likes`, totals, cached posts, lists and comments | read, fill, invalidate, toggle like | a fill after the invalidation, a pattern not deleted, double clicks | `PostCache` |
| Agents, e-mail templates, dashboards, metrics, health, logging, DTOs, guards, configuration | none that a property is about | | | not modelled |

The parts meet in few places.  A request passes the rate limiter, the access
token guard, the role and ownership guards and, where the client sends a key,
the idempotency interceptor, and then calls one service.  Services share rows:
a comment and a donation add to columns of their post, a purge of a post
removes its comments, reviews, payments and file rows, the removal of a user
removes all that is the user's.  They hand work to BullMQ queues (moderation,
assignment and reassignment of reviews, e-mails) whose workers write the same
rows later; scheduled jobs delete what is expired, rejected, orphaned or
abandoned.  Nothing but PostgreSQL's row locks and Redis commands orders any of
this.

What makes each modelled part correct, in one sentence each:

- *Payments*: a donation is added to its post once, save where neither row nor
  transaction id could tell the repetition, and rows, attempts and the post's
  amount tell the same story.
- *Comments*: the text that is shown was judged safe unless it was submitted while
  an earlier one was on its way, a rejection stands, every job ends.
- *Reviews*: somebody can always decide on a post that was assigned, and only a
  decision makes a post public.
- *Idempotency*: handlers of a key exclude each other, and a replay is the
  answer to the same request.
- *Sessions*: a token names the session it was made for, a refused token stays
  refused until the very same token is made again, and the number of sessions is
  bounded.
- *Post files*: the limit of files holds, a post has one main image, and no file
  is forgotten by a deletion that failed half way.
- *Messages*: what is shown has a text or a file and says which, its file rows go
  after its files or with its sender or chat, and a stale page goes with the
  request that made it stale.
- *Chats*: two users or a post have one chat, nobody else hears it, and a cached
  list is wrong only where its deletion was missed or a purged post's chat is in it.
- *Accounts*: an address has one account and nothing outlives it, the history of
  roles agrees with the role, a spent link goes, a mail is given up after its last
  attempt only.
- *Rate limiting*: no window lets more through than its limit, no counter stays
  for ever, and the process's tables are bounded.
- *Likes and caches*: a number of likes has its rows, and a copy is what the rows
  say, but for changes the code is known not to announce.

## How the models are built

A **row** is the value of functions or records of the columns that some guard or
property reads; other columns are left out.  A **request, worker or job** is an
entry in a variable that says how far it has come, with what it has read; each
`await` of the code at which another actor may act is a boundary between two
actions.  Everything between two such points is one action, with all its
writes.  A **transaction** is READ COMMITTED, the default the code uses
everywhere: its statements see what is committed when each starts, so a
transaction that reads, decides and writes is a reading step and a step that
writes and commits; a rollback writes nothing.  Row locks are guards.  **Errors**,
timeouts, processes that stop and jobs that are forgotten are actions that may
happen whenever the code may meet them.

Where two or more versions of a definition stand next to each other, such as
`NoLock` and `Unlocked`, the last is the code's; the ones before it, which
no specification uses, are what a plausible bug would make of it.  Each property
of a passing run is violated when one such variant takes the place of the code's.

### Payments

`status`, `confirmed`, `expiry`, `lastAttempt` at a payment id are the
`payments` row; `attempts` is `payment_attempts` with its unique index
(`Recorded`); `credits` counts the increments of `Post.currentAmount`.  `flow`
says where the HTTP request behind a row is: `CreatePayment` and
`RegeneratePaymentLink` insert, `RegisterInvoice`/`CheckoutReturns`/
`CheckoutAborts` are the provider's side and answer, `SaveCheckout` is
`updatePaymentCheckoutState`, `Expire` the passing of `expiredAt`.  The provider
sends, repeats and reorders (`SendWebhook`, `ReceiveWebhook`); the two webhook
transactions are `ConfirmPayment` and `DeclinePayment`, one step each, since the
insert of the attempt and the conditional UPDATE lock what they decide on.  The
sweep selects and deletes in two steps.  A webhook may carry no `transactionId`
(`NoTxn`): nothing but the status then tells its repetition, and `SaveCheckout` may
set that back.

`DonationLedger` is the abstract promise: a donation is added once, and a second
time if it was *forgotten* (its confirmation taken back) and *nameless* (approved
without a transaction id).  `credits`, `TakenBack` and `Nameless` implement it.

### CommentModeration

A comment's text is its version.  A create, an update and a retry write the row in
one step and enqueue in a later one, where the add is ignored while a job with the
comment's id exists, or fails; `PROCESSING` is written after the add.  The worker
takes a job, asks the agent, writes the verdict in a read-then-write transaction,
completes, or fails, stalls or dies at any point, up to `MaxTries` attempts.
Deletions read the row before they write; the cleanup job selects and then
deletes.  `tally` is what one comment has added to the post's total, `judgedSafe`
(auxiliary) the versions the agent called safe, `crossed` (auxiliary) those that
were submitted while a job or a request of an earlier version was under way: its
verdict may approve them.  A worker that loses its lock and goes on beside the
second delivery of its job is not modelled: a stall here is a worker that is gone.

### PostReview

A post's status, its history of review rows, the assignment job, the decision
each member of the staff is making, and the reassignment of a demoted
moderator's reviews.  Each of the three writers suspends the active reviews it
sees and inserts its own when it commits; `ids` is what it will suspend.  The
guard's role is the one in the access token, so a demoted moderator may still
decide.  Ids and `createdAt` are taken to grow together.  A moderator who is
promoted to ADMIN is not followed, and the rule that one moderator remains is
left to `Accounts`.

`ReviewHistory` is the abstract promise, in which there are no transactions: one
step closes reviews, opens later ones of the same posts and, if it is a decision,
makes the post public or not; otherwise posts are only taken back or purged.  The
rows and the posts whose status is APPROVED implement it (`ImplementsHistory`): a
transaction shows in its commit only, and two that interleave are as good as one
after the other.

### Idempotency

Requests of one key (user, route, `Idempotency-Key`).  Every Redis command is
a step, may fail, and may have been executed when it fails; a process may die
anywhere; the lock and the response may expire anywhere.  `lost` (auxiliary)
says that a lock went while its handler ran, by expiry or by a DEL of somebody
else's.

### Sessions

One user's session rows, one per device.  A login checks, looks for the device's
session, whose id it keeps, or makes a new id, signs its token (`Sign`), runs the
device limit (two statements, an error of which is logged), and upserts.  A
refresh token is a session id and the second of its signature (`Token`): the JWT
has no id of its own, so two logins that sign with one id in one second (`now`,
advanced by `Tick`) make the same token.  `RefreshTokenGuard` and the deletion
that follows are two steps.  What must hold of the user's row for a login to begin
is left out (it only keeps logins from beginning), as is how OAuth finds its
account. A login that failed has left no trace, so its name is used again.
`peak`, `overlapped` and `skipped` are auxiliary.

`RefreshTokens` is the abstract promise, which knows of no rows and no ids: a
device gets in with the token of its latest login, if with any, and what is
refused is refused until another login ends that made the same token.  `Opens` is
what the guard accepts, and with it the sessions implement the promise
(`ImplementsTokens`).

### PostFiles

`stored` and `aged` are the storage, `rows` the `post_files` of each post (a row
is told from a later one of the same key by the number of the request that
wrote it).  `LinkBegin` takes the lock on the post (`withPostLock`), and
`LinkCount`, `LinkCheckMain` and `LinkInsert` are the statements under it;
`ChooseFind`, `ChooseScan`, `ChooseClear` and `ChooseCommit` are those of
`setFileAsMainImage`, which takes row locks only.  A deletion lists, deletes in
the storage, deletes rows.  `CleanUp`, the orphan sweep and `RemovePost` act in
between; the sweep may fail after some chunks.  The limit on the sum of sizes is a
refusal (`LinkEnds`), whose arithmetic is left out; all files belong to one user;
uploads of chats are left to `Messages`.

`PostGallery` is the abstract promise, which knows of no requests, transactions or
locks: a batch of files joins a post that is there, as long as it fits; a file takes
the place of the main image; files leave when the storage has them no more, or
with their post.  Each is one step.  `ImplementsGallery` says that the statements
above, in whatever order requests, deletions, cleanups and the job run them, add up to
such steps.  `loose` are the posts whose main image was chosen by two at once
(`raced`, auxiliary), where a choice may leave another main image beside it.

### Chats

`chat` and `member` are the rows of `chats`, `private_chats` and `chat_members`
(a hidden membership is one with `is_delete`); the unique indexes are the guards
of `InsertPrivate` and `InsertPostChat`.  A request of `ChatController` is an
entry of `request`: its checks begin it, then it adds its members one by one
(`AddChatMember`), deletes the lists it names (`Invalidate`, in which a
failure is only logged), and answers through `getChat` (`Answer`), which reads the
30-second copy first and keeps what it read.  `view` is that copy, `list` the
cached list of a user's chats, `fill` the list somebody is about to cache.
`ChatGateway` is `Connect`, `Disconnect`, `JoinRoom`, `LeaveRoom` and `Typing`,
one socket per user.  `PurgePost` is the admin's purge of a post and `RemoveUser` the
removal of an account, with what their cascades take: a purged chat is `Gone`, its
id stays in cached lists and copies until these expire (`Vanished`), and nobody's
list is deleted.  `ever` (auxiliary) says who has been a member, `missed`
(auxiliary) whose list was not deleted, or too early.

### Messages

Messages of one chat.  `Upload`, `Create`, `CreateFails` and `CleanUp` are
`sendMessage`; `DeleteStored`, `DeleteRows` or `DeleteRow`, `Reread`,
`UpdateType`, `SoftDeleteMessage` the deletions; every request ends in `Purge`,
which runs after the answer.  `SelectDeleted` and `RemoveDeleted` are the weekly
job, `SweepOrphans` the storage's.  `RemoveUser` and `RemoveChat` (the purge of
the chat's post) take messages and file rows by cascade: the files stay in the
storage, as orphans for the sweep, and pages stay cached.  (Any account may go
here; in the code one with posts or comments cannot.)  A page is *current* or
*stale*, told by whether anything it shows was written since it was read.  Who is
a member is free to change at any time (`ChangeMembers`).  `cut` (auxiliary) holds
the messages on which a request stopped half way, `raced` those two requests
worked on at a time.

### Accounts

The accounts of one e-mail address, one after another: what the address has in
common (the unique index, the job id of its mails) is what can go wrong, and other
addresses matter only as the number of `Others` on the staff.  A request reads
what it needs in `Read`, and writes in the steps named after repository methods;
`ApplyLink`, `EndSessions`, `DeleteLink` are one link being used. `SetRole` is the
transaction of `changeRoles`, which works with the role that was read before it.
A change that another one overtook since it read the role is `late`: its
`closeActivePeriod` may not see the periods opened meanwhile, and its account is
in `stale` (auxiliary) from then on.  The transaction's statements are otherwise
one step, at its commit.  `TakeJob`, `MailSent`, `AttemptFails`, `WorkerDies`,
`ForgetFailure` are BullMQ and `EmailProcessor`; one may follow a link only once
it was mailed.

### Throttler

Each Redis command of `incrementInRedis` is a step, and `Fallback` may take the
place of any of them.  Lifetimes are what is left of them, and `Tick` is time.
The process's two maps are sequences in insertion order, as `Map` keeps them,
since the compaction drops the oldest.  `passed` (auxiliary) counts the hits
let through since the counter began, `cut` (auxiliary) the keys whose counter a
request left in the middle.

### PostCache

`cache` has the copy under each key of the five scopes (a post by id, public
list, a user's list, staff list, comments of a post); `View` says what the rows
show there.  Pages and filters are abstracted away: an invalidation deletes all
pages of a scope or none.  A reader's request is *fill* until it has stored what it
read; a writer's lists the patterns it has still to delete.  A copy is `spared`
(auxiliary) when a change was made that leaves it behind; the operators that set
it (`LikeLeaves`, `Silently`, `Abandon`) are the list of such changes, and
`CopiesAreCurrent` says that there is no other.  `lost` (auxiliary) holds users
whose like went with their account.

## The runs

| Run | Instance | Shows |
|---|---|---|
| `payments` | 2 payments of one post, at most 2 different webhooks, or 4 where there is one payment, each with one of 2 transaction ids or none | `ConfirmedIffSuccess`, `LedgerMatchesRows`, `CreditedOnce`, `LastAttemptBacksConfirmation`, `ConfirmationIsFinal`, and that `Payments` implements `DonationLedger` (`ImplementsLedger`) |
| `payments_live` | 1 payment, 1 id, with fairness | `WebhooksAnswered` |
| `comments` | 1 comment, 2 versions, 2 attempts, 1 request and 1 deletion at a time, with fairness | `StatusMatchesVerdict`, `ApprovedWasJudged`, `RejectionStands`, `JobsEnd` |
| `post_review` | 1 post, 2 staff and an admin, 3 reviews, 2 transactions at a time; both may be decisions while one of the staff has no reviews, nobody is demoted and no assignment waits | `NewestReviewIsActive`, `ApprovalDecidesStatus`, `PublishedByDecision`, and that `PostReview` implements `ReviewHistory` (`ImplementsHistory`) |
| `idempotency` | 3 requests of one key, two of them with one payload, with fairness | `Serialised`, `AnswersFit`, `RequestsEnd` |
| `sessions` | 3 devices, 3 logins, a limit of 1, 1 guarded request in the first of two seconds; 2 of the devices and no such request in the second | `SessionsBounded`, `LoginTokenFits`, and that `Sessions` implements `RefreshTokens` (`ImplementsTokens`) |
| `post_files` | 1 post, 3 keys, a limit of 2, 2 requests, 2 writing link requests | `AtMostMaxFiles`, `OneMainImage`, and that `PostFiles` implements `PostGallery` (`ImplementsGallery`) |
| `chats` | 3 users, two of them verified, one client, 1 post that may be purged, 2 chats, 2 requests; one of two users may be removed while the third has no part in anything and nobody has a socket, and the post may be purged where one of the two is so | `ChatsAreKept`, `ListIsCurrent` |
| `messages` | 2 users, one an admin, 1 message, 2 files, 2 requests at a time and 3 in all, removals of accounts and of the chat | `MessagesAreKept`, `RowsGoAfterFiles` |
| `accounts` | 2 accounts one after the other, 2 links, 1 Google profile, 2 requests (of which changes of a role may overtake each other), 2 attempts, 2 others of each staff role | `AccountsAreSound`, `DeadAfterAllTries` |
| `throttler` | 3 keys, one of payments, limit 1, window 2, block 1, one key remembered | `LimiterHolds`, `CountersExpire` |
| `posts_cache` | 2 users, one an admin, 1 post, 1 comment, 2 requests | `LikesAreCounted`, `CopiesAreCurrent` |

Every module's `TypeOK` is checked: by itself for payments, comments, reviews,
idempotency, sessions and post files, and as a conjunct of the invariant for the
others (`ChatsAreKept` and its like are conjunctions of the named parts).
`CHECK_DEADLOCK FALSE` is everywhere: the counters that bound an instance let it
stop, as does the system when nobody calls it.

**Why the bounds are enough.**  Payments of one post share nothing but the post,
so two show interference; two different webhooks are a decline and an approval, or
approvals with and without an id (each may be repeated without end), and four, of
one payment, are approvals and declines with one of two ids or none.  A comment
shares only the total with others, which is kept per comment; two versions are
before and after an edit, two attempts a failure and a last one.  Three reviews
are one that is replaced and two that race to replace it, be it by two decisions
at once.  Three requests of a key are a holder, a waiter and one that takes the
lock after it was lost, with another payload among them.  Three logins fill a
limit of one and overlap beyond it; two of one device sign in one second and a
third in the next, or comes from another device.  Two link requests fill a limit
of two beside a choice or a deletion; `MaxFiles = 2` with three keys is the least
in which one request fits and two do not.  Two chat ids are enough to have two
chats of one pair, three users for an intruder.  Two requests on one message are
every pair of edits and deletions; three in all also end, and begin again, after a
cut.  One address is the only thing accounts meet in; a second account after the
first is what a late request may meet; two changes of a role at a time are enough
for one to be overtaken by two others, which give back the role it had read.  Two
hits are one within a limit of one and one beyond it, and three keys overflow a
table that remembers one by two.  Copies under different keys never meet, so
`posts_cache` follows one at a time.  The proofs below need none of these bounds.

Seven instances bound themselves further with a `CONSTRAINT`, each in its MC module:
`FewWebhooks` (payments), `FewWriters` (post_review), `FewLater` (sessions) and
`FewLeave` (chats), which say what the table says, `FewOrRoles` (accounts: two
requests, jobs, sweeps and open periods at a time and one live link, or no link,
session or Google account and only changes of the role of the one account),
`OneCounter` (throttler: Redis counts one key at a time), `Small`
(posts_cache: one copy at a time, none of them followed once it is spared, and a
post at rest while its comment lives).

**Symmetry** is used for payments, transaction ids, staff, devices, logins, keys,
requests, files, links and accounts, in runs without liveness only; none of the
values permuted is told apart by its instance.

### Fairness

- *Payments*: strong fairness of receiving each webhook that is being sent and
  not accepted, and of the transaction of a received one: the provider repeats a
  webhook until it reads `accept`, and neither the network nor the database
  fails every time.  Nothing makes the provider or the payer act.
- *Comments*: weak fairness of the worker's own step for each comment
  (`Work`): BullMQ workers run, and take stalled jobs again.
- *Idempotency*: weak fairness of a request's next step, failures not
  among the steps it relies on: handlers return or throw, a wait has its timeout.

### What the code does not keep

Modelling showed behaviours that differ from what the code or its documents say,
or that one would not expect.  The models have them, and no property excludes
them:

*Payments.*  `updatePaymentCheckoutState` sets a payment back to PENDING though a
webhook has confirmed it; if its approval has no `transactionId`, the repetition
credits the post again.  The sweep deletes a payment confirmed after its SELECT,
with its credit kept; a paid payment can be regenerated; an in-process webhook
takes the transaction id, and the approval of that transaction is accepted and not
credited.

*Comments.*  An edit takes a counted comment out of APPROVED without taking it off
`Post.totalComments`, and its next approval counts it again; two deletions
decrement twice.  The job id names the comment only, so the job of an edit is
dropped while the earlier one exists, and the verdict on the old text approves the
new one (`crossed` holds these texts).  A comment whose retry could not be
enqueued stays PROCESSING; a deleted comment can be shown again by a late verdict.

*Reviews.*  A deletion leaves the reviews active, and a decision publishes the
post that its author has deleted.

*Idempotency.*  A response stored between a request's lookup and its lock is not
looked for again, and the handler runs a second time.

*Sessions.*  A login that runs beside a password reset survives it; logins at once
exceed five sessions; a token that was refused, by a logout for example, is
accepted again once another login of its device, which had read the same row and
signed in the same second, writes its session; two first logins of one device
leave a token whose session id is not the row's.

*Files.*  Two choices of a main image leave two; a file is swept, or cleaned up by
its owner, just before or after its row is written, which leaves a row without a
file.

*Chats.*  `getChat` answers from its copy first, so for 30 seconds somebody who
left may still read the chat and join its room, and the answer to adding a member,
and the `chat:upserted` made of it, may lack that member; whoever leaves stays in
the room until the socket disconnects, or leaves while the copy lives.  A
membership that is hidden still lets its user send and read messages
(`findChatMember` of `message.repo.ts` does not ask for `is_delete`).  The purge
of a post takes its chat, the removal of an account its memberships, and no cached
list or copy is deleted: lists name the purged chat until they expire.

*Messages.*  `docs/CHAT.md` has the files of deleted messages removed by the weekly
job; `deleteMessage` removes them at once.  Messages that go with their sender or
with the post of their chat leave their files in the storage, to be found by the
orphan sweep, and the pages that show them in the cache.

*Accounts.*  The mail of a second link is dropped while the job of an earlier one
exists.  `ensureStaffRemains` subtracts the role an account loses from a count
that already leaves the account out, so that two admins cannot become one; but
demotions at once each count the others, and a deletion counts nobody, so that
none may be left. An activation link enables an account that was disabled since.
The sweep deletes an account verified after its SELECT.  A link can be used twice
at once, or again after a request was cut off before its DEL.

*Likes and caches.*  The likes of a removed account stay in the total.  Verdicts,
assignments, likes (in the lists of others) and the admin's purge leave copies
as they were until they expire; `deleteManyByAdmin`, which would delete them, is
called by no endpoint.

## The proofs

Each `…Proofs` module extends its components and proves, for any constants that
meet the named assumptions, that an inductive invariant is kept by every step,
and the properties from it.  Three of the modules hold the proofs of two components
that share no state: the definitions of the second have names of their own
(`ThrottlerSpec`, `MessagesSpec`, `AccountsSpec`), and no proof about one cites the
other.

| Module | Proved | The invariant, beyond the property |
|---|---|---|
| `PaymentsProofs` | `TypeOK`, `ConfirmedIffSuccess`, `LedgerMatchesRows`, `LastAttemptBacksConfirmation`, `CreditedOnce`, `ConfirmationIsFinal`, and the refinement `ImplementsLedger` | `Consistent`: unused ids have no credit; a recorded success was sent; the approvals of an order that name a transaction name one; a credited row still has its attempt |
| `DiscussionProofs` (comments) | `TypeOK`, `StatusMatchesVerdict`, `ApprovedWasJudged`, `RejectionStands`, and `JobsRunDown`, below | a worker about to approve has a safe verdict and no rejection to overwrite; rows have a text; what is under way of a comment is about its row's text, unless that is crossed (`TextsFollow`) |
| `DiscussionProofs` (messages) | `MessagesAreKept`, `RowsGoAfterFiles` | `MessagesIInv`: what each statement of a request may rely on (`Relies`), two uploads have no file in common, and for each message or page out of step the request that will put it right, unless it was cut off or raced |
| `PostReviewProofs` | `TypeOK`, `NewestReviewIsActive`, `ApprovalDecidesStatus`, `PublishedByDecision`, and the refinement `ImplementsHistory` | ids are given in order and once; what a transaction will suspend are older reviews of its own post; only posts that are there have reviews |
| `HttpProofs` (idempotency) | `TypeOK`, `Serialised`, `AnswersFit`, and `RequestsAdvance`, below | until a lock is lost, it is that of the request whose handler runs; what returned has committed |
| `HttpProofs` (rate limiting) | `LimiterHolds`, `CountersExpire` | `LimiterInv`: a counter has counted what it let through; a counter without a lifetime is owed one by a call, unless one was cut off; a key is in each of the process's tables once, and these are one longer than their bound at most |
| `AccountsProofs` (sessions) | `TypeOK`, `LoginTokenFits`, `SessionsBounded`, and the refinement `ImplementsTokens` | a token in a row is that of a login that is over; two logins of a device that run are known to overlap; the id a login has chosen is still its row's; `Counted` and `PoliciesRead`, below |
| `AccountsProofs` (accounts) | `AccountsAreSound`, `DeadAfterAllTries` | `AccountsInv`: one account is alive, and provider accounts, sessions and open periods are of one that is; what each request has read fits what it will write; a job that has not failed has an attempt left |
| `PostFilesProofs` | `TypeOK`, `AtMostMaxFiles`, `OneMainImage`, and the refinement `ImplementsGallery` | what each request relies on: past its count a batch still fits, past its storage call the files are gone, a cleared choice holds the rows it scanned; which two requests are never at work on one post; and that a post is not removed while files are linked to it (`PostsHeld`) |
| `ChatsProofs` | `ChatsAreKept`, `ListIsCurrent` | a request adds members to a chat that is there, to a private one only its two, and owes the lists of those it adds; the list about to be cached is as fresh as the cached one |
| `PostCacheProofs` | `LikesAreCounted`, `CopiesAreCurrent` | likes are of users there are, and the lost ones of users that are gone; a writer that has not come to its queue yet has all of its patterns before it |

The invariant of `ChatsProofs` rests on one observation about `ListIsCurrent`: it
is not kept by itself, since a list read before a change is stored after it.  What
is kept is that the list *about to be* cached is the user's as well, unless a
deletion is owed or was missed, and every step that deletes a list while another
is on its way counts it as missed.

`SessionsBounded` needs the history of a login.  Take, of the logins that ran the
device limit and have written, the one whose reading is the latest: of the rows
it read, it left `MaxDevices`; whatever was written since belongs to logins that ran
when it read, or to logins whose policy failed.  `PoliciesRead` states that such a
reading exists, for the rows there are and for what each login under way is
about to leave, with an existential quantifier in place of a history variable.
That the login removes enough rows is a fact about `Oldest`, which is defined by
how many rows precede a row: it is proved from a row with the smallest set of
predecessors (`SmallestSet`), where one would otherwise use induction.

**Refinements.**  `ImplementsLedger`, `ImplementsHistory`, `ImplementsTokens` and
`ImplementsGallery` are proved step by step: each lemma takes the actions that map
to one abstract action (`TransactionAppends` all transactions that replace
reviews, `TokensStep` the clock, the signature and the end of a login,
`LinkRefines` the rows of a link request), and a last one shows that the other
actions only take away what is public or accepted, or leave what is seen alone.

Assumptions on constants are `ASSUME`s of the component modules: finite sets where
something is counted (the users who like a post, logins, staff), naturals for
bounds, at least one attempt, one message in a batch and one hit in a limit, and
values such as `None` that are not also ids or records. That an order is approved
in one transaction (`OneApprovalPerOrder`), which its approvals name or leave out,
is in `SendWebhook`: it is what the provider guarantees.

Every property of the runs is a theorem but three, which are model-checked only: the
liveness properties `WebhooksAnswered`, `JobsEnd` and `RequestsEnd`.  The prover has
no rules for fairness and ENABLED.  What two of them rest on is proved all the same:

- `JobsRunDown`: what is `Left` of a moderation job is a number between 1 and
  `MaxLeft`.  A step of the worker takes the attempt to a later phase; an attempt that
  fails or a worker that dies sends the job back to the first phase, at the price of a
  try or of the one stall that is forgiven, which are worth more than all phases
  together.  So every step at a job leaves less of it or ends it, whatever requests,
  deletions and other workers do meanwhile; and until then a job keeps the text it was
  added with.  It needs that workers are at work on active jobs only
  (`WorkersHaveJobs`).
- `RequestsAdvance`: a step of the interceptor moves one request at most, to a later
  `Stage` of seven, and what a request was answered is never changed.

That a job or request which is not at its end can take a step, and does, is the part
that the runs check.

## Not modelled

- *E-mail delivery, templates, dashboards, gauges, health checks, log lines* keep no
  state that a property could be about.  That a job sends its mail is a step of
  `Accounts`; what the mail says is not followed.
- *Agents.*  Prompts and the parsing of answers are the nondeterministic verdict of
  `CommentModeration`.  Assistants that only answer a question change nothing.
- *Controllers, DTOs, guards, filters, configuration* are stateless; where one of
  their checks matters it is a guard of an action.
- *The Redis connection manager* only retries and logs: a command that fails is an
  outcome of each command.
- *Prisma, PostgreSQL, BullMQ, Socket.IO, Cloudinary, WayForPay* are modelled by what
  the code relies on.
- *Seeds and migrations* run once, by hand.
- *Updates of one's own profile and password.*  A new password, unlike one that is
  reset, ends no session.  A new address moves an account from one address to
  another, and keeps it verified; `Accounts` follows one address, whose accounts stay.

## The plan

What is left, in this order:

1. Abstract specifications and their refinement: of `Throttler` a window that lets
   at most its limit through, of `Idempotency` a register that is written once.
2. `Messages` composed with `Chats`, in place of its free `ChangeMembers`: who may
   write into a chat and who hears it at the same time.
3. What liveness rests on for logins, chats and messages, as it is proved for
moderation jobs and idempotent requests: that what is left to do becomes less with
each step.
