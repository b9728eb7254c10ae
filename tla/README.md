# Verification of the trilo backend

Trilo is a Node/Express/Socket.IO backend (TypeScript, Drizzle over PostgreSQL,
optionally Redis with BullMQ) for paid audio and video calls between users and hosts.
Users recharge a wallet, calls and gifts move money to a host's bean balance, hosts
withdraw beans through a payout gateway, and around that there are live broadcasts,
chat, rewards, support, moderation and an admin console.  This directory holds TLA+
models of the parts where money and state can go wrong, the TLC configurations that
check them on small instances, and TLAPS proofs for every value of their constants.

Almost every handler of the program is a sequence of single SQL statements with
`await` between them; only money movements run inside a transaction.  The models
are therefore about what one handler does *between* the statements of another:
rows read and written by id later, timers that fire on ended calls, polls and
webhooks settling one payment, a process that dies half way.

## 1. Inventory

| Component (source under `src/src/`) | State | Operations | What makes it correct |
|---|---|---|---|
| Calls (`modules/calls/calls.service.ts`, `callTimers.ts`, `callReaper.ts`) | `calls` rows, `billing_ticks`, busy flags, billing intervals or BullMQ tick jobs, ringing timeouts, tick locks | initiate, accept, reject, cancel/hang up, admin end, lost connection, ring expiry, billing tick, low-balance end, reaper | totals equal the ledger, ticks are charged once each, a call ends and its timers with it, an end is not overridden |
| Call media (`callMedia.service.ts`, `callMediaReports.service.ts`) | media provider and session ids on the call | SFU sessions, one-way fallback to Agora | never falls back twice or after the end |
| Wallets and ledger (`modules/wallet/wallet.service.ts`) | `wallets`, `host_wallets`, `ledger_entries` | transfer, debit, credit, adjustments, reconciliation | no overdraft; every balance is the sum of its ledger; an idempotency key moves money once |
| Withdrawals (`modules/withdrawals`, `lib/payout.ts`, payout webhook) | `withdrawal_requests`, recorded transfer ids | request, decide, start the transfer, poll, webhook, reversal, dev stub | beans leave once, return at most once, never both paid and returned, payouts settle |
| Recharges and VIP (`recharge.service.ts`, `vip.service.ts`, payment webhook) | `recharge_txns`, `vip_purchases`, `vip_subscriptions` | initiate, record the order, poll, webhook, claim, dev resolve, cancel VIP | a paid order counts once and only if paid; VIP days add up |
| Gifts and chat (`modules/gifts`, `modules/chat`, `moderation/blocks.service.ts`) | conversations, messages, gifts, gift requests, blocks | send, upload, gift, request, decline, block | what is stored is paid for, once; an accepted request was a gift |
| Live broadcasts (`modules/live`, `realtime/socket.ts`) | broadcasts, viewer rows, SFU sessions, grace timers | start, join, leave, publish, subscribe, end, abandoned check | one live broadcast a host, no viewer on an ended one, an abandoned one ends, video pulled exists |
| Presence (`hosts/presence.store.ts`, `onlineSessions.service.ts`, the sweep) | online flag, session rows, sockets | toggle, connect, disconnect, sweep | no session stays open for a host who is gone |
| Authentication (`modules/auth`, `users/users.service.ts`) | user, profile and wallet rows, refresh tokens, OTP rows | sign up, log in, refresh, log out | an account has its wallet; a barred account loses every session |
| Payout methods (`hosts/payoutMethods.service.ts`) | method rows, primary flag | add, delete, promote | exactly one primary method while there is one |
| KYC, accounts (`users/kyc.service.ts`, `admin.service.ts`) | submissions, copied status, account status | submit, decide, suspend, delete | an approved account has an approved submission |
| Rewards (`hosts/rewards.service.ts`) | configurations, settlements, payouts | configure, rank, settle, sweep | a period is settled once, over all its sales, and none is left out |
| Moderation, fraud (`modules/moderation`) | login and capture events, reports, blocks | record, escalate at a threshold, file, resolve | an automated report has its evidence |
| Support (`modules/support`) | tickets, messages, bot runs and reruns | open, write, answer, close, reopen, hand over, restart | an owner is heard; the bot yields to people and keeps to its limit |
| Levels, referrals, follows, gallery (`modules/hosts`) | lifetime beans, price level; single rows | pick a level, level up; single-row operations | the level screen and the prices follow the same table |
| Earnings, statistics, insights, admin dashboard (`earnings.service.ts`, `dailyStats.service.ts`, `insights.service.ts`, `admin.service.ts`) | none of their own | sums over ledger, ticks, calls, gifts, messages, sessions | screens that show one figure from different tables agree |
| Settings, notifications, HTTP shell, schema | configuration | parsing, pushes | not the subject of this project |

How they interact.  Billing ticks, gifts and paid messages call the same
`transferUserToHost`; withdrawals debit and credit the host's beans; recharges
credit the user's wallet.  All money goes through a row lock and an
idempotency key with a unique index, and all *statuses* are changed by plain
UPDATEs, sometimes guarded by the old status, often by id alone.  The gateway
(Cashfree) talks to the service through order and transfer calls, webhooks it
retries unless answered, and lookups that the app's polls trigger.  With
`REDIS_URL` set several instances share timers through BullMQ; without it there
is one process with `setInterval`.

What is hard: read-then-write by id (calls, decisions, KYC, support),
check-then-insert without a constraint (busy host, live broadcast, frequency
cap, first VIP subscription), timers against ends, duplicated or late jobs and
webhooks, crashes between statements, and counters compared for equality.
`PROJECT.json` lists each hazard at its line.

## 2. Plan

Modelled, in this order:

1. `CallLifecycle`, `MCCalls`, `CallLifecycle_proofs`
2. `Withdrawal`, `PayoutContract` (the abstract specification it implements),
   `MCWithdrawal`, `Withdrawal_proofs`
3. `Payment`, `MCPayment`, `Payment_proofs`
4. `Handlers` (what the modules below share), `Presence`, `Live` (extends it: both
   hang on the socket's disconnect), `MCLive`, `Live_proofs`
5. `Accounts`, `PayoutMethods`, composed in `MCAccounts`; `Accounts_proofs`
6. `Chat` and `Support`, composed in `MCConversations`; `Conversations_proofs`
7. `HostLedger`, `Rewards` (extends it), `Reports` (extends that), `Figures`,
   composed in `MCReports`; `Reports_proofs`
8. `Sums`, the lemmas about sums over sets that the proofs about money share

The proofs follow the models in the same order, the books of `Reports` last, since
they rest on every other movement of money in that module.

The number of runs is kept small on purpose.  A module whose configuration is
fixed at the start keeps it in a variable (`Payment`'s `deployment`), or its
checking module does and instantiates it for either value (`MCCalls`, with Redis or
without; `MCWithdrawal`, with the gateway or the stub), and safety and liveness share
a run where the instance is small enough.  Components that share little state are
checked in one run, a `part` chosen at the start saying which of them acts.

## 3. Modules and code

The models share one idiom.  `task` holds the handlers in flight: a slot is
`idle` or stands before the next database statement of its handler with the
values that handler has read.  Each action is the code from one `await` on a
database, queue or gateway call to the next; a transaction is one action, unless
its locks are the point (`VipClaim`, `VipActivate`).  Slots bound the number of
concurrent handlers and nothing else.

The modules whose runs take a `part` at a time (`MCAccounts`, `MCConversations`,
`MCReports`) also have a specification of their own, `AccountSpec`, `PayoutSpec`,
`ChatSpec`, `SupportSpec`, `RewardsSpec`, with all their requests at once.  It allows
every behaviour of the parts and more, and the theorems are about it.

A few variables and fields are history: the program has no such state, no action's
guard reads it, and it is there to state what a property is about.  Their comments
say so (`after` and `late` in `Live`, `disturbed` and `deleted` in `PayoutMethods`,
`covered`, `onTime` and `lost` in `Support`).

`CallLifecycle`, `Withdrawal` and `Payment` declare it themselves; the other
modules take it from `Handlers`: `Start` a handler in a free slot, go `Step` by
step, `Done`, and `TasksLost` when the process restarts.

### CallLifecycle

`call` is the `calls` table; `wallet`, `hostBeans` and `ledger` (pairs of call
and tick number, the unique keys of `calls.service.ts:609`) are the money; `bill`
is the total announced when the call completed; `busy` the flag last broadcast
for a host; `billing`, `ringTimer`, `ticking` the timers, pending tick jobs and
tick locks; `stale` the rows old enough for the reaper.

* `InitiateStart` .. `InitiateArm` are `initiateCall` statement by statement:
  host busy, user busy, balance, insert, arm the ringing timeout.
* `AcceptRead/Write/StartBilling`, `RejectRead/Write`, `HangUpRead`,
  `CancelWrite`, `HangUpWrite`, `BusyOff`, `AdminRead`, `AdminCancelWrite`,
  `AdminEndWrite`, `LostRead/Write`, `RingFires`, `ExpireWrite`: the ends.  A
  write by id alone has no guard on the row, one with `WHERE status = ..` has it.
* `TickFires`, `TickSkipped`, then `TickNotOngoing`, `TickCharges`,
  `TickDuplicate`, `TickCannotPay`, `PoorWrite`, `PoorBusyOff`, `ChainNextTick`:
  a billing tick from the lock to the next job.  `TickCharges` computes the
  totals from the row the tick *read*, as the code does.
* `GrowStale`, `ReapStart` .. `ReapDone`: the reaper, row by row.
* `ProcessCrash` (no Redis: timers go) and `InstanceCrash` (Redis: one instance
  dies, its stalled jobs are handed out again or given up); `LockExpires`.

Abstracted: `initiateCall`'s account, block, online and price checks pass; the
rate and commission are drawn from constants and snapshotted in the row; which
sockets are connected is not tracked, so a lost connection may be reported at
any time; a change of a timer map happens in the step of the statement before
it; the wallet starts finite and is not recharged; notifications, the collusion
check and media do not touch this state.  BullMQ's merging of jobs that fall due
together is not modelled (more jobs, never fewer, than the code has), and a
statement the database still finishes for a process that has died counts as
either done or not done at the crash.

### Withdrawal and PayoutContract

`request` is `withdrawal_requests` (`sent`: the transfer id is recorded), `beans`
and `ledger` the host wallet and its idempotency keys, `recent` the requests in
the frequency policy's window.  `transfer` and `webhook` are Cashfree's side.
`RequestCount`/`RequestInsert` are `requestWithdrawal`, the count before the
transaction and the transaction; `Initiate`, `Lookup`, `Record` are
`initiatePayoutForRequest` with the lookup it makes after an error; `DecideRead`,
`RejectWrite`, `ApproveWrite` are `decideWithdrawal`; `Poll`, `WebhookArrives`,
`Sync`, `MarkPaid`, `MarkFailed` settle a payout; `DevResolvePayout` is the stub.

`PayoutContract` is what the host is promised and knows no gateway, handler or
fault: beans are held when asked for, then paid out or given back, once.
`Contract` in `Withdrawal` maps statuses to deals, and `KeepsContract` is the
contract's specification under that mapping.

Abstracted: KYC, payout-method, minimum and fee checks pass; a POST that
answered with an error has been accepted or refused by the time of the lookup;
apart from crashes the database does not fail; the service does not change
between stub and gateway while requests are open; `RequestCount` reserves an id,
so that an insert never lacks one (a bound of the model).

### Payment

`order` is both `recharge_txns` and `vip_purchases`, which live the same life;
`balance` and `ledger` are the wallet, `days` and `cancelled` the VIP
subscriptions, `gateway` and `webhook` Cashfree's side, `deployment` how the
service is configured.  `InitiateInsert`, `CreateCashfreeOrder`,
`InitiateRecord`, `InitiateGiveUp` initiate; `Poll`, `WebhookArrives`, `Lookup`,
`LookupFails` sync; `RechargeSuccess` is the claim with its credit in one
transaction; `VipClaim` and `VipActivate` are one transaction split at the
subscription read FOR UPDATE, so that the lock waits (`Locked`, `Claimed`) can be
seen; `MarkFailed`, `DevResolve`, `CancelVipSubscription` are the rest.

Abstracted: plans and packages exist and are active; no subscription runs out
within a behaviour (days are counted from the start); an order's id reaches the
app only in the answer to its initiation, and dev-resolve is used after it;
dev-credit, which adds money without an order, is in `HostLedger`.

### Presence and Live

`online` is the flag in Redis or memory, `session` the rows of
`host_online_sessions` (open ones `fresh` or `stale` for the sweep), `conn` the
sockets and `armed` the grace timers.  `markHostOnline` .. `InsertSession` and
`markHostOffline` .. `SetOffline` are the toggle, flag and row being separate
writes; `Disconnect`, `CheckFlag`, `CheckSockets`, `ArmGraceTimers` the socket's
disconnect handler; `SweepStart` .. `SweepEnd` the sweep, row by row, with the
questions it asks in between.  In `Live`, `broadcast`, `view` and `sfu` are the
broadcasts, the viewer rows and Cloudflare's sessions; starts, ends, joins,
leaves, publishing and subscribing are read and written in the steps of
`live.service.ts` and `liveMedia.service.ts`, `GraceFires` and `GraceSockets` are
`checkAbandonedBroadcast`.  Nothing keeps two toggles or two starts of a host apart,
in the code or here: a start remembers how many broadcasts there were when it looked
(`after`), which tells starts that crossed from those that did not.  A broadcast may
be published again, with a new SFU session.  Abstracted: comments, gift totals,
notifications and the Agora channel; a tab's socket connects at any time.

### Accounts and PayoutMethods

`status`, `wallet`, `token`, `kyc`, `submission`, `login`, `capture`, `report` are
the tables, an account standing for its phone and role.  `logInVerifiedPhone` ..
`issueTokenPair` sign up and in and look at the device; `rotateRefreshToken`,
`RevokeOld`, `ReadStatus` are a refresh; `setAccountStatus`, `SetStatus`,
`revokeAllRefreshTokensForUser` a suspension; `createSubmission`,
`InsertSubmission`, `decideKyc`, `decideSubmission`, `DecideRow`, `DecideUser` the
KYC decision that writes two tables; `logCaptureEvent`, `CountCaptures`,
`ReportCapture` and `CountAccounts`, `ReportDevice` insert an event, count, and
report if the count *equals* the threshold; `resolveReport` may go on to suspend.
A revoked token's id is used again, which nothing can tell (no revoked token
comes back).  `PayoutMethods` has the rows of one host and the several statements
of adding, deleting with its promotion, and making one primary, of any number of
requests at once: a deletion may find its row gone, and promotes or not by what it
had read.  `disturbed` says that requests have crossed, or a restart has cut one
short, since the rows were last right; `deleted` that the host has ever asked for a
deletion.  Abstracted: codes and their expiry, documents, profile fields.

### Chat and Support

`Chat` counts the messages of a pair by kind, with its gifts, gift requests,
blocks and both wallets.  `findOrCreateConversation` looks for a block once and
is followed by find, insert (the pair is unique), the photo's check, and the
write: `sendPaidUserMessage` and `GiftTransaction` pay in their own transaction.
A gift or a refusal then answers the latest request (`LatestGiftRequest`,
`RespondToGiftRequest`: read, then write by id).  `Support` keeps each ticket's
`history` as who wrote what, and the two marks of the bot, in Redis or in memory:
`scheduleBotReply` starts a run or asks for a rerun, `getCurrentBotConfig`,
`ReadTicket`, `ReadHistory`, `AskModel`, `RunTools`, `Recheck`, `MarkNeedsAgent`,
`addBotMessage` are a run, `replyAsBotSafely` its failure, `FinishRun` the script
that ends it or starts the next; `LockExpires` the lock's five minutes.  A run
carries how many messages it had read (`seen`), and `covered` keeps the most that a
bot's message was written with.  `botOn` is false where there is no
`ANTHROPIC_API_KEY` or the admin has switched the bot off: then nothing is answered
and nothing handed over.  Any call of a run may fail (`ReplyFails`), the hand-over
after it too, which is only logged (`replyAsBotSafely`), and so may the request or
Redis before a run starts or as it ends (`RunLost`).
Abstracted: what is said; an admin who reopens a closed ticket or switches the
bot on again deals with what was missed; prices do not change meanwhile.

### HostLedger, Rewards, Reports, Figures

`HostLedger` is every movement of wallets and ledger with the rows written beside
it: a sale reads its price and commission, a transaction begins (`began`), and
commits later (`SaleCommits`), its rows dated by the beginning as PostgreSQL's
`now()` dates them.  `Clock` counts instants and lets no transaction run longer
than `MaxTransaction`.  A call's status is written by id: `acceptCall` and
`endCall` may find the call otherwise than their handler had read it, so that a call
answered and billed may be marked missed or rejected (`CallLifecycle` has those
handlers step by step).  Levels,
prices, commission rates, adjustments, the withdrawal's two halves and rewards move
the same variables.  `Rewards` adds
configurations and sweeps: `StartSweep` fixes the cutoff, each
`settleClosedRewardPeriods` step settles one period in one transaction (the
unique settlement row makes the second instance insert nothing), newest first,
days before weeks.  `Reports` changes nothing: its operators are the queries of
the host's and the admin's screens over those tables, and its properties say
where their figures must agree.  The history shows the newest `HistoryLimit` calls
and gifts (200 in the code).  `Figures` has two computations done in code over
fetched rows, merging online intervals, for the day that is not over and for past
days (`isToday`), and the smallest announced withdrawal, checked against their
definitions over all bounded inputs.  Abstracted: the value
of a bean does not change, so beans stand for the paise shown; time zones other
than the host's; rates of voice and video are one `TickCost`; the history is that of
all time, without the items of broadcasts and the 10,000 rows of a date range; ids
are distinct without being named.

## 4. Runs

| Run | Instance | Shows |
|---|---|---|
| `calls` | 1 call, 2 handlers, money for two ticks, 1 crash; without Redis, or with it and duplicated jobs and expired locks | `TypeOK` (no overdraft), `LedgerMatchesTotals`, `BillShortByOneTickAtMost`, `MoneyConserved`, `GuardedEndsYield`, `TicksOneByOne`, and under fairness `CallsEnd`, `TimersStop` |
| `withdrawals` | 2 requests, 2 handlers, one decision at a time; the gateway with a crash, a failed lookup and a lost webhook, or the stub with a crash | `NeverPaidAndReturned`, `ReturnedOnce`, `BalanceIsLedger`, and the refinement `KeepsContract` |
| `withdrawals_settle` | 1 request, 3 handlers, a lost webhook | `PaidWasTransferred`, and under fairness `PayoutsSettle`, `ReversalsReturn` |
| `withdrawals_twice` | 1 request, two decisions at once | violated: beans returned twice |
| `payments` | 2 orders of 1 user, 2 handlers, 3 deployments, 1 fault | `RechargedOnce`, `SucceededWasPaid`, `VipDaysDelivered`, `SettledForGood`, and under fairness `PaidIsCredited` |
| `payments_first_vip` | 2 orders of a user with no subscription | violated: days of one purchase lost |
| `hosting` | 1 host with 2 tabs, 2 handlers, a restart; either 2 sessions and 2 timers, or 2 broadcasts, a viewer and a timer, or a broadcast with a viewer published to 2 SFU sessions | `SecondStartsRefused`, `GoneWithTheBroadcast`, `PulledTracksExist`, and under fairness `SessionsEndWithPresence`, `AbandonedEnds` |
| `hosting_two_starts` | 1 host, 2 handlers, 3 broadcasts, no faults | violated: two live broadcasts |
| `accounts` | 2 accounts, 3 payout methods, 2 handlers, a restart, thresholds of 2; one of sessions, KYC, devices, captures, payout methods | `EveryAccountHasItsWallet`, `ApprovedWasApproved`, `SignalsHaveEvidence`, `OnePrimary`, and under fairness `SuspendedLosesSessions` |
| `payouts_crossed` | 3 payout methods, 2 handlers | violated: two primary methods |
| `conversations` | 1 pair with money for a message and a gift, 2 handlers, without blocks, or with 1 gift request and no failing photo; 1 ticket with 3 messages of people, 1 bot reply, 2 model calls, 2 handlers, with Redis, an expired lock and a restart, or the bot switched off | `PaidForExactly`, `AcceptedWereGifts`, `BotKeepsItsPlace`, and under fairness `OwnerHeard` |
| `reports` | 1 user, 2 hosts, 2 handlers or instances, days of 1 instant and weeks of 2, 5 ledger rows, a restart; sales, corrections, rewards, or figures over 3 activities and 2 slabs | `WalletsReconcile`, `RanksAreFinal`, `ReportsAgree`, `OnlineTimeIsUnion`, `MinimumIsLeast`, and under fairness `RewardsSettle` |

Where a run does not list a type invariant it is the first conjunct of an
invariant of the run (`RechargedOnce`, `SecondStartsRefused`,
`EveryAccountHasItsWallet`, `OnePrimary`, `PaidForExactly`, `BotKeepsItsPlace`,
`WalletsReconcile`, `BalanceIsLedger`).

Every property of a passing run has a mutant in `PROJECT.json`, a plausible slip
in one mapped definition with which TLC finds that property violated under the
run's own configuration.

Why the bounds are enough.  Every race the hazards name is between two handlers
of one call, request, order, host, account, pair or ticket, so two slots let it
happen; `withdrawals_settle` has a third for a poll and a webhook beside the
handler that starts the transfer.  A second request or order
shares the host's balance or the user's subscription.  The wallet pays for one
tick or two, so that the low-balance end is always near (`initiateCall` wants a
minute's money, six ticks; at 2 paise a minute, where a tick's price is rounded up
to a paisa, that minute is two ticks long).  One crash reaches every
pair of statements; a second would only start from a state the first can leave.
Three messages on a ticket, one bot reply, two model calls and one expired lock let
a message come at every step of a run, a rerun follow, and two runs of the bot
overlap; how far past the limit any number of them can go is a theorem (section 5).
A history of one row is cut as soon as a host has a second gift.  Two SFU sessions
are a publish and the one that replaces it.
A payout method more than two lets a deletion choose which to promote; thresholds
of 2 are the least that two concurrent events can step over; one bot reply is
the least limit a rerun can exceed; a clock of four instants with a grace of one
sees a sale committed after its day ended, two days and a week settled by two
instances, and a sweep cut short between them; an adjustment larger than the
balance makes the next sale fail; three intervals are enough to nest, touch and
overlap.  Commissions of 30 and 50 % with beans of 2 paise make every floor lose
something.
`Tasks`, `MaxCrashes`, `MaxOutages`, `MaxLostWebhooks`, `MaxFaults`,
`MaxDeciding`, the `Limits` of `hosting`, the other constants named `Max..` (save
levels, model calls, replies and the span of a report, which are the code's) and
the finite sets of ids are the only bounds; the proofs have none of them except
where stated.

`CHECK_DEADLOCK FALSE` is in every configuration: ids are finite and each is used
once, so an instance comes to rest when all its calls, requests, orders or
messages are spent.

### Fairness

* Calls: a handler that has started runs on (`WF` of `Continue`), armed timers
  and jobs fire (`SF` of `RingFires`, `TickFires`), the reaper's interval comes
  round (`SF` of `ReapStart`), an untouched row ages, a lock's TTL passes.
  These are strong because they need a free slot, which the event loop does not
  run out of.  No request, hang-up or crash is ever promised.
* Withdrawals: handlers run on; Cashfree settles a transfer it has accepted and
  keeps delivering a webhook it has not given up on; somebody looks at a request
  that is still `processing` (`GET /withdrawals` and the admin screen sync it).
* Payments: handlers run on, and the app polls after checkout, as the comment in
  `wallet.routes.ts` over the sync says it does.  Delivery of webhooks is *not*
  assumed: `PaidIsCredited` is about the poll making up for a lost one.
* Hosting: handlers run on (`WF`), the sweep's interval and the grace timers fire
  while the process lives (`SF`, again for the slot), an open session nobody
  touches grows stale.  Hosts need never come back.
* Accounts: handlers run on; whoever holds a token refreshes it, as the access
  token lasts minutes.  A session nobody refreshes ends by itself with that.
* Support: a run of the bot goes on, since its calls have timeouts.  No
  agent, owner or admin is promised; `OwnerHeard` is the code's own doing.
* Reports: a server with a sale or a sweep to go on with does some of it (`WF` of
  `Working`); sweeps start again as their interval says.

### Where code and comments disagree

Four runs expect a violation, and each quotes a comment in its finding:

* `withdrawals_twice`: two admins decide at once; the rejection's reversal and
  the failed payout's reversal have different keys, so both go through.  With
  two decisions in flight `NeverPaidAndReturned` and `KeepsContract` fail in the
  same way, which is why `withdrawals` and three theorems assume one;
  `BalancesAreLedgers` holds for any number of them.
* `payments_first_vip`: FOR UPDATE finds no row to lock, both purchases insert
  a subscription and the two run side by side.
* `hosting_two_starts`: two starts both look before either inserts, with no lock and
  no unique constraint, and the host has two live broadcasts.  `SecondStartsRefused`
  is what remains true: of two live broadcasts, the later one's start had looked
  before the earlier was there.  `AbandonedEnds` is about broadcasts that no other
  start has crossed, since the grace check ends one.
* `payouts_crossed`: two first methods added at once are both primary, and a deletion
  of the method that another request makes primary leaves none.  `OnePrimary` is what
  remains true: requests that come one after the other leave one, and a host who has
  never deleted a method has at least one.

Others seen in the same models and kept to prose:

* Calls.  Cancel, reject and expiry write `missed` or `rejected` by id, over a
  call accepted and billed since they read it (`calls.service.ts:401` against the
  comment at 77, "never connected"), which also leaves the busy flag set with no
  call, and the dashboard's revenue, which sums completed calls, without what the
  user paid ("a "ringing"/"missed" call never billed anything", `admin.service.ts:398`).
  `RevenueIsDebits`, a part of `ReportsAgree`, is what remains true: revenue and
  debits differ by the bills of calls that are not completed, and by nothing else.
  The busy check precedes the insert with no constraint behind it, so two
  callers can both reach a free host (line 237, against the test at
  `calls.test.ts:119`).  A tick that read the call before an admin's forced end
  still charges it (601 against the comment at 429; `BillShortByOneTickAtMost`
  bounds it); a hang-up that read the call before the forced end overwrites its
  reason (411 against 431).
* Withdrawals.  The frequency cap is counted before the insert, so two
  simultaneous requests exceed it (`withdrawal.service.ts:175`); an approved
  request stays approved when the lookup after a failed POST fails too, or the
  process dies before `Record`, since polls ask only for `processing` rows (line
  233); a reversal after `paid` is learnt from its webhook alone, hence the
  exception in `ReversalsReturn` (line 295).
* Hosting.  Two toggles in flight at once leave two open sessions, until the host
  goes offline or the sweep finds him gone, and a join that read `live` before the
  end keeps an open viewer row for good; "the two can never disagree"
  (`onlineSessions.service.ts:6-9`) holds only up to the sweep.  The grace check
  may end a broadcast started after a reconnect.
* Accounts.  "Only ever one pending submission" (`admin.service.ts:39`) and a user
  status that mirrors the latest submission fail when a decision and a new
  submission overlap; two admins may leave an approved account with a rejected
  submission.  `setAccountStatus` may reactivate a deleted account.  The threshold
  report "fires exactly once" (`fraud.service.ts:58`) or never, when two events
  are inserted before either is counted.  A restart between a deletion and its
  promotion leaves a host with no primary method (`payoutMethods.service.ts:44-51`).
* Conversations.  "A message arriving mid-run queues one more run, so two quick
  messages get one answer covering both" (`supportBot.service.ts:379`) fails for a
  message that comes after a run has read the history (274) and before it writes: the
  rerun finds the bot's message last (279) and ends, and the owner waits for good.
  `OwnerHeard` is what remains true: a message that came while no run was writing,
  with less of the ticket read, is answered by a run that has read it or is put
  before a person.  It excuses tickets after a restart, which loses runs for good,
  and those of which a failing database or Redis lost a run or a hand-over
  (`Excused`), as nothing in the code tries those again.
  A message in flight passes a block made meanwhile
  (`chat.service.ts:30`).  An agent's answer between `Recheck` and `MarkNeedsAgent`
  leaves the ticket marked as needing one; the run lock's five minutes are less than
  the model calls may take, hence `expiries` in `BotKeepsItsPlace`; a run that ends
  frees the lock of another that has taken it since (the script deletes the key
  whoever holds it, `supportBot.service.ts:396`), so one expiry lets two runs answer
  from histories neither of which has the other's answer; an owner's message whose
  `reopens` was read before the ticket was closed leaves it on a closed ticket
  (`support.service.ts:119`).
* Reports.  A new slab set replaces the old one "in its entirety, not a mix"
  (`admin.service.ts:219-224`) only if it covers every amount: amounts it leaves
  out fall through to older slabs, and `getMinimumWithdrawalBeans` ("can never
  disagree with the rule") then announces nothing, or more than the least amount
  accepted; `maxBeans` is inclusive where the comment has it exclusive.  Hence the
  premise of `MinimumIsLeast`.  The dashboard's upper bound is inclusive, the
  insights' exclusive.  The earnings breakdown leaves paid messages out.  A
  statement ordered by `created_at` has rows in the order their transactions
  began, so its running balance may look out of order.

## 5. Proofs

Eight modules hold theorems; `tlapm X_proofs.tla` (and `tlapm Sums.tla`) checks every
leaf of one with SMT, Zenon and LS4.  The assumptions are the named ones of the
models about their constants, and the premises a theorem states.

| Module | Theorems about properties of the runs |
|---|---|
| `CallLifecycle_proofs` | `TypeCorrect`, `LedgerIsExact`, `TicksMoveOneByOne`, `ForcedEndsYield`, `BillIsNearlyRight`, `MoneyIsConserved` |
| `Withdrawal_proofs` | `TypeCorrect`, `PaidIsTransferred`, `NeverBoth`, `ReturnedAtMostOnce`, `Implements`, `BalancesAreLedgers` |
| `Payment_proofs` | `TypeCorrect`, `SuccessIsPaid`, `SettledStaysSettled`, `RechargesAreExact`, `VipDaysAddUp` |
| `Live_proofs` | `TypeCorrect`, `OnlyCrossingStarts`, `ViewersGo`, `PullsFindTracks` |
| `Accounts_proofs` | `WalletsFollow`, `ApprovalsRest`, `ReportsRest`, `PrimaryRests` |
| `Conversations_proofs` | `GiftsWereGiven`, `StoredIsPaid`, `BotKeepsPlace` |
| `Reports_proofs` | `WalletsAlwaysReconcile`, `RanksStayFinal`, `ReportsAlwaysAgree`, `MinimumAnnounced` |

**CallLifecycle_proofs.**  `Invariant` proves `Spec => []IInv`, where `IInv` is
`TypeOK`, `RowsOK`, `TimersOK` and `TasksOK`.  `LedgerMatchesTotals` alone is not
inductive: a tick commits totals computed from a row it read earlier, and what saves
them is that a tick whose copy is old carries a tick number whose key is taken.  So
`TasksOK` says of each handler in flight how the row it remembers compares with the
row now: same parties and rate, at most as many ticks, totals that fit its own tick
count; and `RowsOK` says which keys the ledger holds of each call.  From it follow
`TypeCorrect` (no overdraft), `LedgerIsExact` and, as an action property,
`TicksMoveOneByOne`, for any number of calls, users, hosts, handlers and crashes, with
or without Redis.  `ForcedEndsYield` adds which reasons a hang-up in flight can write
(`HangUpsOK`).  `BillIsNearlyRight` adds, of a completed call whose bill is short
(`BillOK`), that it is short by the price of one tick and that whatever tick still
under way had read it as ongoing carries a number that has been charged: the first of
them to commit takes the number from the others.  `MoneyIsConserved` adds up: each
`TickCharges` moves one caller's wallet, one host's beans and the totals of one call
by the same amounts, and the calls placed so far are finitely many.

**Withdrawal_proofs.**  `Invariance` proves `TypeOK`, `HandlersOK` and
`PaidWasTransferred` together: a payout is marked paid from an answer obtained
earlier, so the invariant must say what such a handler knows, namely that the transfer
has been paid and can only have been reversed since.  `TypeCorrect` and
`PaidIsTransferred` need no further assumption.  `NeverBoth`, `ReturnedAtMostOnce` and
`Implements` (the refinement of `PayoutContract`) are proved under
`IsFiniteSet(Tasks)` and `MaxDeciding <= 1`; their invariant `OInv` adds that at most
one handler at a time takes a request forward (`OneDriver`), what each handler relies
on about the request and its transfer (`Relies`), and which ledger keys a request of
each status has used (`Accounted`).  `withdrawals_twice` shows that the assumption on
`MaxDeciding` cannot be dropped.  `BalancesAreLedgers` has no such premise: its `LInv`
says that every entry of the finite ledger is about an existing request, which keeps
its host and amount, so each new key moves the balance by what it adds to the sum, and
a collision moves neither.

**Sums.**  The sums of the models are the community modules' `SumFunctionOnSet`, a
recursion over subsets.  The library's induction theorems cannot be instantiated
here; its well-foundedness of the strict subsets of a finite set can be cited, so
each lemma is an argument by a smallest counterexample: among the subsets of a
finite set that violate it, some have no violating subset of their own.  `SumsExist`
and `SumsAgree` justify the recursion in this way; from it follow that an element
can be taken out or added (`SumWithout`, `SumWith`), that equal terms give equal sums
(`SameSum`), and that changing one term changes the sum by that much (`SumUpdated`).
The screens need more of them: sums over two sets paired one to one are equal
(`SumPaired`), a set split over days, hosts or kinds adds up to its parts
(`SumOfUnion`, `SumOfParts`), two terms or a difference for each element
(`SumOfSums`, `SumOfDifferences`), and what rounding down loses of each stays between
nothing and one less than the divisor (`SumOfRemainders`).

**Payment_proofs.**  `IInv` has, per order, that its key is in the ledger exactly when
it is a recharge that succeeded, and in production that success means the gateway was
paid; per handler, that what it read at the gateway was so and still is; and that no
two handlers initiate one order or hold one purchase row (`TasksApart`).
`RechargesAreExact` sums over the orders of a user.  `VipDaysAddUp` assumes
`InitialDays # 0`, a user who has had a subscription, because FOR UPDATE then has a
row to wait on: its invariant `VipOK` says that one activation at most has locked a
subscription, and that the expiry it read is the one that is there;
`payments_first_vip` shows the assumption cannot be dropped.

**Live_proofs.**  The difficulty is between handlers: `Starts` says of every
start, in flight or through, that of the broadcasts there were when it looked none of
the host's is live, then or later, since ended ones stay ended; `Refs` and `Rows` that
the rows a handler or another row names exist, and that SFU sessions named for
pulling have tracks; `Timers` counts the handlers that will still arm a timer against
the bound.  `GoneWithTheBroadcast` is itself a conjunct.

**Accounts_proofs.**  A handler that reports has counted its threshold of events, and
events are never deleted (`Sound`, `Reports`); one that is about to copy a decision to
the account has written it to the submission, where it stands unless a second admin
decided too (`Decided`, `Approvals`); an account without a wallet is being given one
or was cut short by a restart (`Wallets`).  For payout methods `PayoutInv` has a part for
any requests and one for calm.  Whatever crosses, ids are distinct and a request in
flight names an id of its own (`Distinct`, `Fresh`), and the rows of a host who deletes
nothing always have a primary one (`Kept`).  While nothing has been disturbed (`Calm`)
one request is in flight (`Alone`), it still sees what it read (`StillTrue`), at most
one row is primary (`OnlyOne`), and none only while a deletion promotes
(`Promoting`).

**Conversations_proofs.**  `GiftsWereGiven` counts, for a pair, the accepted requests
and the handlers about to accept one against the gifts.  `StoredIsPaid` needs
`IsFiniteSet(Users)` and `IsFiniteSet(Hosts)`, as its property sums over them: each
commit moves one pair's rows and one user's and host's wallets alike.  For the bot,
`SupportInv` counts per ticket and against `expiries`: the runs
in flight are at most that many and the holder of the lock; so are the bot's
messages after an agent's with the runs that may still write one.  Before a person is
asked for, its answers and the runs that may add one stay within the limit and
`expiries`; from then on only runs already past their reading of the ticket can write.
This proof found a mistake in the property.  `BotKeepsItsPlace` had bounded the bot's
messages by the limit, the note that a person was asked for, and one more per expiry;
it is two, since the run whose lock expired and the one that took over may both write
an answer at the limit and then both write the note.  The run `conversations`
cannot tell, because three messages of people are too few to bring that about; the
theorem does not depend on it.

**Reports_proofs.**  `WalletsAlwaysReconcile` needs `IsFiniteSet(Users)` and
`IsFiniteSet(Hosts)`: the opening rows and the winners of a period are entered one
after another.  Its invariant `BooksInv` adds to the property the types of all rows
and of every sale in flight (`BooksTyped`: a price and a commission that leave a host
no less than nothing), that each balance is the sum of its owner's rows (`BalancesOK`),
and of the levels that those told and those a handler is about to tell are, without a
restart, exactly the levels above the first (`LevelsTold`).  Two handlers may carry a
host over two levels and report them in the other order; each tells the span it
crossed.  A settlement enters one row per winner, and `WinnersTyped` shows of
`rankHosts` that a host is a winner once at most.  `RanksStayFinal` rests on time: a
row bears the time its transaction began, transactions last `MaxTransaction` at most,
and a sweep settles only periods that ended `Grace` ago, so every row still to come
lies after them (`LaterRows`, `BeansFixed`), and so does every configuration still to be
saved (`ConfigFixed`).  `RanksInv` says this of each settlement (`SettledRight`), of the
sales in flight and of the sweeps, whose next period ends by the start of the last one
(`TasksInTime`, `PreviousPeriod`), and that a host's rewards add up to those of its
wins.  The proof uses `MaxTransaction <= Grace`, which is what the code's comment at
`SETTLE_GRACE_MS` claims, and `Grace > 0`: without it a configuration saved in the
instant of a settlement would count for what was just ranked.

`ReportsAlwaysAgree`, again for finitely many users and hosts, is about tables whose
agreement no constraint of the database keeps: `call_billing_ticks`,
`gift_transactions`, paid messages, the totals on a call, and the ledger.  `SalesInv`
says how they correspond in every state.  The host credits in the ledger for calls are
paired one to one with the ticks, and those for gifts with the gifts, each with the
beans that its price and the commission then in force leave, and the time its
transaction began (`Entered`); a host's `CallBeans` are what its ledger holds of
calls; and what users were debited for sales, with the totals of the calls, the
prices of the gifts and the charges of the messages, makes zero (`SalesBooked`).
`RowsRight` adds that no row gives a host beans worth more than was paid, none is
dated in the future, and a tick about to commit still has its call's commission, which
is fixed when the call is placed.  Each sale writes its row and both its ledger
entries in one transaction, so it extends the pairing by one (`TickBooked`,
`GiftBooked`, `MessageBooked`); every other movement writes entries of other kinds
(`MovementSales`, `SettleSales`).  From the pairing, sums over ledger credits become
sums over ticks and gifts, which gives the history, while it has room for
every row, and the breakdown (`BreakdownsPaid`: exact but for the remainder of each
division); the split over days
gives the summaries and the insights, the split over hosts the top earners, and the
balance of zero the dashboard's revenue, short of the debits by the totals of the
calls that are not completed, however they ended (`RevenuesAgree`).  The level screen and the
rewards screen follow from the types and the invariant of the books.

`MinimumAnnounced` is about `Figures` and has no steps: for slabs of any number and
any bounds in a finite set, `getMinimumWithdrawalBeans` is an accepted amount, and if
no two slabs overlap, or the newest form a set that covers every amount once, the
least one.  The argument takes an accepted amount, the newest slab covering it, and
shows that this slab's own candidate is accepted and no larger.

Only model-checked: all liveness (`CallsEnd`, `TimersStop`, `PayoutsSettle`,
`ReversalsReturn`, `PaidIsCredited`, `SessionsEndWithPresence`, `AbandonedEnds`,
`SuspendedLosesSessions`, `OwnerHeard`, `RewardsSettle`), since fairness and ENABLED
are beyond the prover; and `OnlineTimeIsUnion`, which sorts intervals and folds over
them: the definition of `SortSeq` says nothing of two intervals that start together
(TLC's own implementation orders them, as JavaScript's stable sort does), and what the
fold computes is an induction over the data.  No module declares a RECURSIVE operator.

## 6. Not modelled

Parts of modelled components: the switch of a call from peer-to-peer to Agora (one
guarded UPDATE of a column no modelled step reads), call media reports, ratings
and the signalling relay; OTP codes, their attempts and rate limits; documents,
age checks and profile fields; the collusion signal, grievances and the block
list's screens; help articles and lookups of the support bot beyond the outcome of
a model call; the gift catalogue; comments on a broadcast; bean rates that change;
referral codes (two first requests at once each write one, and the later stays),
follows and gallery; admin roles, app settings, the audit log and broadcast
messages; paging and CSV.  Most are single statements under a unique constraint.

Whole components: notifications and push (nothing depends on what they keep), the
HTTP shell, configuration and external adapters (pure I/O), migrations, seeds and
backfills (run once, before the system).  `PROJECT.json` names them with their
files.
