# Naivolt in TLA+

Naivolt is a Nigerian wallet: customers hold naira in a double-entry ledger, top it up by card, receive crypto deposits
found by chain watchers, pay naira out to their bank, and buy virtual phone numbers that receive one verification code.
The mobile, web and admin clients are user interfaces; what decides anything is in `src/backend-rs` (Rust, axum,
Postgres). This directory holds TLA+ modules of those parts, the TLC runs that check them on small instances, and TLAPS
proofs of the most important results. The reference is the code; where a document or a comment says something else, a
run shows the difference or section 6 describes it.

Paths below are relative to `src/backend-rs/crates` unless they start with `src/`.

## 1. The system

### Parts, their state and what they do

| part | state | operations | modelled by |
|---|---|---|---|
| ledger (`ledger/src`) | `ledger_journals`, `ledger_entries`, `ledger_accounts` | draft, check and post a balanced journal once per idempotency key | `Ledger`; the other modules take a posting as one step |
| number orders (`api/src/number_routes.rs`, `number_order_transitions.rs`, `number_reconciler.rs`, `admin_recovery.rs`) | `number_orders` with a claim and a lease, `number_messages` | purchase, poll, cancel, sweep, recovery of an unknown purchase, operator recheck and refund | `NumberOrders`, `Escrow` |
| number suppliers (`number_provider.rs`, `number_smspool.rs`, `number_activate.rs`) | activations and SMS, at the supplier; adapters that classify replies | buy, check, cancel, recover | `NumberSupplier`, `SupplierReplies` |
| offers and selling switches (`number_offers.rs`, `number_sell.rs`, part of `number_catalog.rs`, the offer loop of `number_routes.rs`) | `number_offers`, `number_offer_sources`, `number_sell_providers` | mirror supplier stock, list, switch a supplier on or off, go from source to source until one sells | `Shop`, `Pricing` |
| number catalogue (`number_catalog.rs`) | `number_countries`, `number_prices` | sweep 5SIM's countries and prices | `PriceList`, `Pricing` |
| operator alerts (`number_reconciler.rs`) | `operator_alerts` | raise, claim, mail, mark, put off | `AlertOutbox` |
| provider slots (`number_reconciler.rs`) | ten leased rows | claim, release | a check in `NumberOrders` may always find them taken |
| EVM deposit watcher (`watcher/src`) | `deposits`, the cursor in `chain_cursors` | scan, record, credit, follow or reverse after a reorganisation | `DepositWatcher`, `EvmChain` (external) |
| watcher RPC client (`watcher/src/rpc.rs`, `evm.rs`) | the window of blocks, counts of failures | retry, classify an error, narrow and widen the window | `LogScan` |
| TRON deposit watcher (`watcher/src/tron.rs`) | the same tables, an in-memory time | sweep each address since the last sweep | `TronWatcher` |
| naira top-ups (`funding_routes.rs`, `funding_reconciler.rs`, `funding_provider.rs`) | `ngn_deposits` | create, confirm, sweep, abandon | `NairaAccount` |
| payouts (`payout_routes.rs`) | `payouts`, `payout_usage_24h` | check the cap, reserve | `NairaAccount`; the destination in `Payees` |
| bank accounts (`bank_routes.rs`, `payout_provider.rs`) | `bank_accounts` | name enquiry, save, remove | `Payees` |
| sessions (`auth_routes.rs`, `auth/src/session.rs`) | `sessions` in families | start, refresh, unlock, log out, revoke on reuse | `Sessions` |
| one-time codes (`auth_routes.rs`, `auth/src/otp.rs`) | `otp_challenges` | send with a cooldown, replace, try, use up | `SignIn` |
| identity resolution (`auth_routes.rs`, `auth/src/identity.rs`, `oidc.rs`) | `users`, `identities` | resolve, attach, create, refuse; edit a profile's address | `SignIn` |
| Google's keys (`google_keys.rs`) | a cache | look up, fetch, store | `GoogleKeys` |
| operators, members and audit log (`admin_recovery.rs`, `operator.rs`, `admin_routes.rs`) | `operators`, `operator_sessions`, `admin_members`, `audit_log`, lock-outs in memory | enrol, sign in, invite, revoke, act and leave a row | `Operators` |
| KYC (`kyc_routes.rs`, `auth/src/tier.rs`) | `kyc_verifications`, `users.kyc_tier` | submit; the reviewer is outside | `Reviews` |
| gift cards (`giftcard_routes.rs`) | `gift_card_submissions`, `gift_card_rates` | submit at a rate, replay | `Reviews` |
| PIN, profile, portfolio, limits, activity | single rows and reads | an edited address is in `SignIn`, a PIN in `Sessions` | partly |
| push tokens, rates, addresses and signer, assets and chains, HTTP boundary, notifications, configuration, development tools, clients, deployment | | | not modelled (section 5) |

`PROJECT.json` lists every part with its sources and, for what is left out, the reason.

### How they interact

* HTTP handlers, the reconciler's workers, the funding sweep, the catalogue sweep, the alert loops and the watchers are
  separate tasks, in one or several processes, that share nothing but Postgres (except the operators' lock-outs, the
  cache of Google's keys and the TRON watcher's time, which are in memory). Each statement or transaction is atomic;
  between two of them anything else may run. A handler is dropped when its connection closes, a process may stop
  anywhere, and background tasks start again.
* Mutual exclusion is by row locks inside a transaction (`SELECT … FOR UPDATE` on the naira account, the order, the
  challenge, the token), by unique keys (journals, live challenges, identities, profiles), and, around supplier calls
  and mails, by a claim: a random token with a lease of a minute in the row. A lease may lapse while its holder runs.
* Everything that moves money posts a journal in its own transaction (`Ledger`): orders, top-ups, payouts and the two
  watchers.
* The shop's sweep makes the offers an order is made from; an order's money and later life are `NumberOrders`' business.
  A sign-in ends in a session: `SignIn` extends `Sessions`.
* Suppliers, card provider, bank, Google and chain nodes are asked over HTTP; a call may fail, be lost after it took
  effect, or be answered late.

### What is hard

Two tasks on one order in an order nobody tested; a decision from a row read before its claim or its lock was taken; a
lease that lapses during a supplier call; a crash between a supplier's sale and its record; an SMS that arrives during a
refund; a sale that answers like a refusal; reorganisations, lagging nodes and restarts between recording, crediting and
saving the cursor; a transfer listed late; one charge confirmed by a page and by two sweeps; a batch that never drains;
a limit checked before the lock; a transaction that waits for another that rolls back; a token that is exchanged while
its family is revoked; two first sign-ins of one person; an old answer stored over a newer one; a client that hangs up
between two statements of one action. `PROJECT.json` lists them as hazards, each at its line with the properties that
would catch it.

### What makes each part correct

* ledger: whoever was told that an event is posted finds one whole, balanced journal for it.
* number orders: reserved money is earned or returned, once; the journals agree with the row; nobody else writes an
  order while the buyer's lease is live; one supplier activation is on one order; refunds happen only for the reason
  they state; nothing stays in limbo for ever.
* shop and catalogue: what is listed can be bought; a number a supplier sold is on its order, handed back, or under
  review; the catalogue is 5SIM's, whatever it was before.
* alerts: an alert that counts as delivered was, and is mailed once unless an answer was lost or a claim outlived.
* deposits: every transfer deep enough is credited exactly once; a credit is undone only when its transaction is gone;
  no transfer is passed over; the scan reaches the tip.
* naira: a charge that was taken is credited once, in the end, and no other is; payouts stay within the balance and the
  daily cap; they go to the account the bank named.
* signing in: a code is compared with a bounded number of wrong ones, and works alone; one person is one user; nobody is
  linked by what was merely typed; one token of a login is live; a key Google withdrew fades.
* people at the desk and people served: guesses at the authenticator are bounded; the log tells of what happened; no
  tier is skipped; a quote binds.

## 2. The modules

In every module an action is what the code does between two points at which something else may run: two awaits on the
outside world, or two statements that are not in one transaction, or, inside a transaction, two places at which it may
wait for another one. Where only that a transaction is atomic matters it is one action.

### Escrow — the abstract ledger of a purchase

`money[i]` is with the customer, held, earned or returned. `Hold`, `Earn` and `Return` are its only steps, so a price
is never both earned and returned, nor twice. `NumberOrders` implements it (`ImplementsEscrow`): the place of an order's
price is computed from the idempotency keys in `ledger_journals` (`MoneyOf`).

### NumberSupplier — the supplier behind the adapters

An activation is unsold, open or closed, has received some SMS, readable (`"code"`) or not (`"text"`), and has a time
until which it is held. `Answer` is the `ActivationCheck` the adapters return. All activations are of one product in one
country and of one supplier: that is the case in which recovery by country and product is ambiguous.

### NumberOrders — the life of an order

| variable | code |
|---|---|
| `order[o]` | the `number_orders` row: status, `provider_order_id` (`pid`), claim token and whether its lease is live, `provider_purchase_started_at` (`started`), `created_at`, `expires_at`, whether the activation is open, the inbox, review and failure reasons |
| `buyer[o]` | the program counter of the `create_order` call and the activation it bought |
| `task[t]` | any other handler or worker: its job, its order, the fields it read before its claim (`pid`, what it will do `then`), its claim, the supplier's answer |
| `posted`, `balance`, `payable`, `revenue` | journals by idempotency key and the three kinds of account they move |
| `now`, `crashes` | a coarse clock, and a bound |

One action is what a handler does between two awaits on the outside world; a database transaction is one action.
`Reserve` … `GiveBack` are `create_order`; a buy whose answer holds no order (`BuyUnreadable`) is looked up in the
supplier's history, whose newest entry it takes (`RecoverRecentBuy`). `Sweep`, `Poll`, `Cancel`, `Recheck` and
`OperatorRefund` are the reads with which the other jobs begin; `TryClaim`, `CheckAnswers`, `Apply` and so on are what
they share, as the code shares it. `Lapse` ends a lease at any moment, `LoseBuyer` and `LoseTask` drop a handler.

`ApplyCheck` is `apply_check`: it updates the inbox, settles on the first code, extends or closes the activation,
refunds an empty order that ended and reviews one with an unreadable SMS. `ApplyRefund` is `apply_inner`'s refund with
its checks of status and claim. `Due` and `Needs` are the sweep's query.

Left out: the ten provider slots (`CheckBusy` may always find them taken), `reconcile_next_at` (any order may be due),
the loop over offers and sources (one buy succeeds, is rejected, is ambiguous or looked up; the loop is in `Shop`),
alert and audit rows (in `AlertOutbox` and `Operators`), and a replay of a purchase (an order stands for its user and
key). `apply`, `deliver`, `deliver_claimed` and `check_from_legacy_deliver` are reached only from tests.
`src/docs/NUMBERS.md` section 3 still says that "there is no worker"; the reconciler is one, and it is modelled.

### EvmChain and DepositWatcher — crypto deposits

`EvmChain` has a head, one hash per height (the number of the reorganisation that made it, so an old fork does not
come back) and the place of each transaction: block and log index. `DepositWatcher` is `supervise` and `watch_evm`:
`Start` loads the cursor and clamps it (`LookBack`), `BeginPass` reads the head, `Scan` reads logs of a window of any
size the adaptive code may choose, from a node that may lag by `MaxLag` blocks, `HandleTransfer` records a transfer
and `CreditTransfer` credits it if it is deep enough, `PendingDeposits` and `AdvancePending` credit the others,
`CheckReorgs` compares the hashes of the credited rows in the window and `Locate` follows or reverses each, `EndPass`
saves the cursor. `Stop` is a crash or a pass that returned an error. An error that the code logs and passes over
counts in `errors`.

`deposits` is keyed as in the table, by transaction and log index; `journals` by `(key, "credit" | "reverse")`; `owed`
is what the ledger owes, in transfers. `began` remembers the cursor of the first start for the properties, and
`buried` the transactions that a reorganisation moved into a block the scan had passed (`Passed`): nothing but a
restart reads it again.

### NairaAccount — top-ups and payouts

`intents` are `ngn_deposits` rows, `charge` is what the provider knows (nothing, open, paid, failed), `place` the
order of creation that `ORDER BY created_at` follows. `Confirm` is a page that reads its intent, `Verify` the
provider's answer or its failure, `Settle` what `settle` writes; the sweep runs the same steps as `Sweeper` over the
queue `Select` read, then `Abandon`. `CheckPayout` reads the usage and the cap, `ReservePayout` is the transaction
that locks the account and posts. `journals` has the kind of the journal under each key of the whole table
(`ledger_journals.idempotency_key` is unique over all kinds): a top-up's key is made of its reference, a payout's is
the client's header as it came (`ClientKey`), so requests may share one and other journals (`Foreign`,
`PostElsewhere`) may have it. `Post` replays whatever it finds, and `InsertPayout` makes the row when that journal has
none. The PIN and the tier are fixed; the bank account is in `Payees`. Nothing in this commit moves a payout on after
its reservation (the background job its comments mention does not exist), so a payout stays reserved.

Three assumptions: a charge that was paid or declined stays so; the provider takes the amount that was asked; the money
a customer has is what was topped up (deposits and orders are in the other modules).

### Ledger — what a posting is

`Draft` with `Sound` is `JournalBuilder::build`: at least two entries, none of zero, each asset balanced, the kinds
that may touch custody only. `InsertJournal`, `InsertEntry`, `CommitPosted` and `CommitReplay` are the statements of
`Journal::post` inside a caller's transaction: the row of the journal, then an entry at a time. A second poster of the
key waits at the row until the first commits (and then replays) or rolls back (and then inserts). `answered` remembers
the keys somebody was told are posted. `Ledger` is why the other modules may post in one step.

### Sessions and SignIn — getting in

`Sessions` is the table of refresh tokens. A request looks at its token only when nobody has locked it, `Decide`s as
`evaluate_refresh` does, and commits later: rotation spends the token and issues the next one; reuse and logout revoke
the family with one `UPDATE`, which sees the rows committed when it began (`seen`) and waits for those others have
locked. Any transaction may roll back.

`SignIn` extends it with codes and accounts. `request_otp` is taken apart at each row it may wait for: `LookLatest` (the
latest challenge, locked, or none to lock), `DeleteBegins`/`DeleteEnds`, `InsertChallenge` (the unique index on the live
challenge of a destination), `SendCode` (the message, then the commit). `verify_otp` is `VerifyOtp`, one of
`TooLate`/`Refuse`/`GuessWrong`/`GuessRight`, then `Resolve` and `Enter` or `CreateUser`, with the session in the same
transaction. `wrong` counts comparisons, which the table does not; `patches` counts edited profiles. Which of two unique
columns refuses a user first does not matter and is one action (`CreateRefused`); a transaction that fails anywhere is
`Fail`.

### GoogleKeys — the cached key set

A sign-in that finds no fresh key fetches the set without a lock, within the client's timeout, and stores what it gets
as fetched now. `withdrawn` is when Google took a key out, `oldest` how long after it the key was still accepted. The
signature itself is left out: a token names a key, and is accepted if the key is known.

### Operators — the desk

Membership, the authenticator with its lockout in memory (read before, written after the code is checked), sessions
(`seats`), invitations and revocation, and the actions that leave a row in `audit_log` with the hash of the row before.
No handler here opens a transaction, so each statement is an action and a client that hangs up stops between any two.
What an action does to an order is in `NumberOrders`; here an order (`cases`) is held or closed and has a claim. The
owner's poll and the workers (`Elsewhere`) settle, refund or put it off whoever's claim is on it. `Current` is what
`apply_inner` asks of a token; it asks before it looks at the status, and an order that is closed already is no error
(`ApplyRefund` goes on to its audit row). That no false row comes of it rests on the closing of an order, which takes
the token off (`Close`).

### Reviews, Payees — what waits for a person, and where money goes

`Reviews`: `SubmitReads` the tier, `SubmitLooks` for a verification in flight, `Submit` decides and inserts (a trigger
asks for an approved row before a tier rises); `CardReads` a replay, `CardPriced` the rate, `CardInserted` writes or
replays. The reviewer is external, known by the columns made for him.
`Payees`: a request asks the bank for the name on an account and writes the row later; a payout reads its destination
and is reserved later. `said` remembers every name the bank ever gave.

### TronWatcher and LogScan — the other two scans

`TronWatcher`: a sweep asks TronGrid for each address since `since`, which is a day before the first sweep and later a
slack before the start of the sweep before; TronGrid lists a transfer, and knows its block, a little late. One page is
read of a list (`PageLimit`, 200 in the code), any of them, and the tokens that are not `Ours` are dropped from it
afterwards; `skipped` remembers what found no room. Heights are times. `LogScan`: the window of blocks of `watch_evm`,
the endpoint's `limit` on it, the client's retries, the classification of an error, and the failures after which the
watcher starts over.

### AlertOutbox, Shop, SupplierReplies, Pricing, PriceList — selling numbers

`AlertOutbox`: `operator_alerts` with claims of a minute and back-off; `excused` counts mails whose answer or mark was
lost or whose claim lapsed before the mark.

`SupplierReplies` is what the three adapters make of a supplier's reply to a purchase and to a check: every status class
and every word they tell apart, and what the app may hear when a number was sold, a server error or a proxy's page
included. `Shop` uses it: a market that moves, the operators' switches with their seed, the sweep
that mirrors stock into sources and offers supplier by supplier, the list, and `create_order`'s loop from source to
source, with pins, hand-backs and deaths of its handler. Numbers are named by the order they were sold for. What 5SIM
sold and the app could not read is looked up in 5SIM's history (`RecoverRecentBuy`), which may give any number sold in
that country, another order's too; `paged` remembers the sales SMSPool's gateway answered for with a page that reads as
out of stock. `PriceList` is the sweep of countries and prices, with the
first-key-wins rule and the hysteresis of five per cent. `Pricing` is the arithmetic both use.

## 3. The runs

| run | expects | shows |
|---|---|---|
| `number_orders` | pass | one order, its purchase and two more handlers of all five kinds: `JournalsMatchStatus`, `IdentifiersKnown`, `ExpiredInboxEmpty`, `PurchaseFenced`, `TerminalIsFinal`, `ImplementsEscrow` |
| `number_orders_two_buys` | pass | two purchases against a balance for one at a time, no operators: `NoOverdraft`, `MoneyAddsUp`, `NotStartedIsTrue`, `UnknownIsSwept` |
| `number_orders_liveness` | pass | `EventuallyResolved`, `DeliveredCloses` under fairness, with a lost handler |
| `number_orders_recovery` | violation of `ActivationServesOneOrder` | recovery gives an order the activation of another whose handler has not recorded it yet |
| `deposits` | pass | `BalanceMatchesRows`, `NothingMissed`, `ReversedWasGone`, `StayingIsCredited` with a reorganisation, a lagging node, a swallowed error and a restart |
| `deposits_moved_log` | violation of `CreditedOnce` | a reorganisation that changes the log's index makes a second row of one transaction |
| `naira` | pass | `BalanceAddsUp`, `CreditedWasCharged`, `AbandonedWasNotPaid`, `PaidIsCredited` with a failed call and dropped handlers |
| `naira_batch` | violation of `AbandonedWasNotPaid` | unpaid top-ups fill every batch, and a paid one behind them is given up |
| `naira_cap` | violation of `CapHolds` | two payouts checked before either is reserved |
| `accounts` | pass | the parts about people: `AllTypeOK`, `GuessesBounded`, `OneLiveCode`, `OneUserPerChannel`, `LinkedByProof` (sign-in), `OneLiveToken` (sessions), `WithdrawnKeyFades` (Google's keys), `TotpTriesBounded`, `AuditedWasRefunded` (operators), `EarnedStepByStep`, `QuoteIsBinding` (reviews), `PayeesAreTheBanks` (payees) |
| `workers` | pass | the parts that work by themselves: `AllTypeOK`, `SweptIsRecorded` (TRON), `ScanEndsAtTip` (log scan, liveness), `MailedOncePerClaim` (alerts), `SoldIsAccounted`, `ListedCanBeBought` (shop), `CatalogueConverges` (catalogue), `AnswerStands` (ledger) |
| `tron_batch` | violation of `EveryRecipientIsPaid` | a TRON transaction that pays two of our addresses is credited to the first only |

`accounts` and `workers` explore several parts that share no state side by side: a variable `part` is chosen at the
start and only that part moves, so the run is the union of the parts' runs and no product of them. The environment's
choices of the other parts are fixed then, which changes nothing about the one that moves. In `workers` the shop is
three parts: `shelves` (market, switches, sweep) with three events, `order` (market, sweep, an order) with two of
which the second is a handler's end, and `orders` (two orders that buy from the opening stock), where one may find the
other's number in the history. In `accounts` the desk is two parts: `seats` (authenticator, lockout, sessions and
members, while no order is acted on) and `operators` (everything, while no code is wrong). `ScanEndsAtTip` is
`LogScan`'s `ScanCatchesUp` for the part `scan`.

Every property of a passing run has a mutant of the code in `PROJECT.json` that violates it. Every violation is a
finding there, with the sentence of the code or its documents that it contradicts.

Deadlock is not checked: an order ends, a clock and a chain are bounded, and then nothing need happen.

### Bounds, and why they are enough

* orders: the interesting races need a purchase and two others, so one order with two tasks, or two orders and no
  operators where they compete (for a balance, or for an activation). `MaxTime = 3`, `HoldTime = 1` and `ConfirmBy = 1`
  let a hold end, be extended, and the confirmation window of an unknown purchase pass. `MaxCrashes` is 1 in the
  liveness run; the others reach the same rows by a purchase that simply does not go on. `Misheard`, the orders whose
  purchase may be answered unreadably, is all of them but in the recovery run: there it is empty, so that what the run
  shows is the sweep's recovery. Tasks are symmetric where no
  liveness property is checked.
* deposits: `MinConfirmations = 3`, `ScanOverlap = 1`, `ReorgDepth = 2`, `MaxLag = 1`, `MaxWindow = 2`, `MaxHead = 5`:
  the scan wraps over several windows, a deposit is recorded, waits and is credited, and every step of a pass can meet
  the reorganisation, one swallowed error and one stop. Two transfers, one below the minimum. The reorganisation
  is deeper than the overlap, as the code's own numbers are, and `NothingMissed` sets apart what it moves behind the
  scan. A node lags by no more than the overlap (section 4). The violation run drops what its counterexample does not
  need.
* naira: two top-ups and two payouts, one of them under a key another journal may take, one page handler besides the
  sweep; `AbandonAfter = 4` of `MaxTime = 5` ticks. The strict comparisons of the window, on both sides of 24 hours,
  are kept. A tick is hours and a sweep minutes, so a sweep ends in every tick. That excludes an outage of a day,
  after which the first sweep gives up what it never asked about (section 6).
* accounts: two requests at a time in every part, which is what each of its races needs. Sign-in has one address, one
  number, a Google account with that address, two codes, two entries and an edited profile; a code can expire, be
  replaced and run out of attempts (`MaxAttempts = 1`). Sessions have three tokens and two clients: one rotates while
  the other revokes, and the third row is the next token. Google's keys have a clock of 6 against a cache of 2, a
  refetch of 1 and a timeout of 1, so a slow answer is stored after a newer one and is used to its end. Operators have
  two members, one order, two keys to refund it under, a lockout after one failure, a lease of 1 in a clock of 2, so
  that a claim lapses, is replaced or is taken away by the owner's poll. The lockout counts within one process: a
  restart begins the count again.
* workers: TRON has a transfer and one in some other token, which also pays a second address, a page of one, a slack
  of 1 and an index lag of 1 (the code's five minutes against TronGrid's seconds), one loss and one restart. The last
  sweep that ended began at most `MaxGap` ago, an outage included; that this and the slack are within the day the
  first sweep looks back is assumed in `TronConstants`. The scan meets endpoints that serve 1, 2, 3 and 8 blocks
  against an overlap of 1 and a window of at most 6. The shop has three suppliers, four things on sale at two costs,
  and two orders. The catalogue has two keys that claim one code and a third. The ledger has three posters of two keys
  and a draft for each way to be unsound.

### Fairness, and why the code justifies it

* orders: the clock advances and leases lapse (weak); handlers go on (weak on `Continue`); the sweep, which runs every
  few seconds in every worker, comes back to an order whose claim is free again and again (strong, because other
  handlers take it in between); a supplier that is asked again and again answers some time (strong on
  `CheckAnswers`); and from some time on no worker outlives its lease, since a supplier call times out after 20 seconds
  and a lease after 60 (`EventuallyTimely`). Nothing is assumed of customers, of operators, or that a purchase ends.
  The liveness run has no cancel job: a customer who cancels for ever would satisfy the fairness of `CheckAnswers` by
  the checks of the cancels.
* deposits: blocks keep coming, and `supervise` restarts a watcher that stops (weak on `Mine` and on `WatcherStep`).
  Stops, errors and reorganisations are bounded.
* log scan: the same of `NewBlock` and `ScanProgress`; failed attempts and restarts are bounded, refusals are not.
* naira: the sweep runs on a timer (weak), time passes (strong: a sweep disables the clock while it runs).

What the liveness properties leave out is part of them: `StayingIsCredited` holds while no error was swallowed and
excludes a deposit that was reversed before (WATCHERS.md says a reversed deposit is never revisited); `PaidIsCredited`
leaves out a top-up whose window ends after the clock or whose key another journal may have; `EventuallyResolved`
accepts a review without a code, which waits for a person; `ScanCatchesUp` is about endpoints that serve more than the
overlap.

## 4. The proofs

Every safety invariant and every action property that a passing run checks is proved as a theorem of its specification,
for every value of the constants that the named assumptions allow.

| module | theorem | says | assumes |
|---|---|---|---|
| `NumberOrders_proofs` | `TypeCorrect` | `Spec => [](TypeOK /\ IdentifiersKnown)` | `NumberOrdersAssumption` |
| | `JournalsCorrect` | `Spec => []JournalsMatchStatus` | |
| | `NeverOverdrawn` | `Spec => []NoOverdraft` | |
| | `MoneyConserved` | `Spec => []MoneyAddsUp` | |
| | `ExpiredEmpty` | `Spec => []ExpiredInboxEmpty` | |
| | `TerminalFinal` | `Spec => TerminalIsFinal` | |
| | `EscrowImplemented` | `Spec => ImplementsEscrow` | |
| | `BuyersAreFenced` | `Spec => PurchaseFenced` | |
| | `CalledOffNeverStarted` | `Spec => []NotStartedIsTrue` | no job is a recheck |
| | `DoubtsAreSwept` | `Spec => []UnknownIsSwept` | no job is a recheck |
| | `SharedByRecoveryOnly` | `Spec /\ AdoptsUnshared /\ LooksUpUnshared => []ActivationServesOneOrder` | neither recovery takes an activation another order has or is about to record |
| `DepositWatcher_proofs` | `OwedMatchesRows` | `Spec => []BalanceMatchesRows` | `WatcherConstants` |
| | `ReversalJustified` | `Spec => ReversedWasGone` | |
| | `NoTransferIsMissed` | `Spec => []NothingMissed` | and `OverlapIsEnough` |
| | `CreditedOnceInPlace` | `Spec /\ []LogsKeep(idx) => []CreditedOnce` | a log keeps its index wherever it is mined again |
| `NairaAccount_proofs` | `CreditsCharged` | `Spec => []CreditedWasCharged` | `NairaConstants` |
| | `MovesOnce` | `Spec => OneMovePerKey` | |
| | `BalanceExact` | `Spec => []BalanceAddsUp` | |
| | `AbandonedUnpaid` | `Spec => []AbandonedWasNotPaid` | and `SweepsAreEnough` |
| | `CapHoldsAlone` | `Spec /\ []OnePayer => []CapHolds` | one payout at a time is between its check and its debit |
| `SignIn_proofs` | `OneTokenLives` | `SessionsSpec => []OneLiveToken` | `SessionsConstants` |
| | `GuessesStop` | `Spec => []GuessesBounded` | `SignInConstants` |
| | `CodesAlone` | `Spec => []OneLiveCode` | |
| | `CodesWorkOnce` | `Spec => CodeWorksOnce` | |
| | `ChannelsOfOne` | `Spec => []OneUserPerChannel` | |
| | `LinksByProof` | `Spec => []LinkedByProof` | |
| | `SessionsRefined` | `Spec => SessionsSpec` | |
| | `SessionsTyped` | `SessionsSpec => []SessionsTypeOK` | `SessionsConstants` |
| | `SignInTyped` | `Spec => []TypeOK` | both |
| | `WithdrawnFades` | `GoogleKeysSpec => []WithdrawnKeyFades` | `GoogleKeysConstants` |
| | `KeysTyped` | `GoogleKeysSpec => []GoogleKeysTypeOK` | |
| `Accounts_proofs` | `TiersEarned` | `ReviewsSpec => []EarnedStepByStep` | `ReviewsConstants` |
| | `QuotesBind` | `ReviewsSpec => []QuoteIsBinding` | |
| | `LogTellsNoTale` | `OperatorsSpec => []AuditedWasRefunded` | `OperatorsConstants` |
| | `LockoutHolds` | `OperatorsSpec => []TotpTriesBounded` | |
| | `PayeesStay` | `PayeesSpec => []PayeesAreTheBanks` | |
| | `ReviewsTyped`, `OperatorsTyped`, `PayeesTyped` | each specification keeps its types | their constants; some account of a bank |
| | `PeopleMoveAlone` | `AllSpec` (of `MCAccounts`) implies each part's specification | `SignInConstants` |
| | `PeopleTyped` | `AllSpec => []AllTypeOK` | all of the above |
| `Shop_proofs` | `CatalogueSettles` | `PriceListSpec => []CatalogueConverges` | `PriceListConstants` |
| | `SalesStayKnown` | `ShopSpec => []SoldIsAccounted` | `ShopConstants` |
| | `ListIsForSale` | `ShopSpec => []ListedCanBeBought` | and `PricingConstants` |
| | `OnlySoldGoesBack` | `ShopSpec => []OnlySold`: what is handed back was sold; an order that waits names a sold number and its seller, and one of its own unless 5SIM sold it | `ShopConstants` |
| | `PriceListTyped` | `PriceListSpec => []PriceListTypeOK` | `PriceListConstants` |
| | `ShopTyped` | `ShopSpec => []ShopTypeOK` | `ShopConstants`, `NameOrder`; SKUs, finite in number |
| `Workers_proofs` | `AnswersStand` | `LedgerSpec => []AnswerStands` | `LedgerConstants` |
| | `PostedStays` | `LedgerSpec => PostedIsFinal` | |
| | `AlertsMailedOnce` | `AlertSpec => []MailedOncePerClaim` | `AlertConstants` |
| | `SweepsMissNothing` | `TronSpec => []SweptIsRecorded` | `TronConstants` |
| | `TronOwesItsRows` | `TronSpec => []TronOwesRows` | |
| | `OneRecipientIsPaid` | `TronSpec => []EveryRecipientIsPaid` | each transaction pays one address |
| | `RefusalsEnd` | `LogScanSpec => [](LogScanTypeOK /\ RefusedIsWide)` | `LogScanConstants` |
| | `LedgerTyped`, `AlertTyped`, `TronTyped` | each specification keeps its types | their constants; orders under review, wallets |
| | `WorkersMoveAlone` | `AllSpec` (of `MCWorkers`) implies each part's specification | |
| | `WorkersTyped` | `AllSpec => []AllTypeOK` | all of the above |

TLC evaluates each module's assumption in the runs, and each inductive invariant below was checked by TLC on the runs'
instances before it was proved. `FiniteNumbers` holds what the others use of numbers and sums: a non-empty set of
numbers that is finite, or bounded, has a least and a greatest member, a sum over a finite set grows by what is added
to the set, equal numbers have equal sums, and a part sums to no more than the whole. These follow from the axioms of
`CHOOSE` and of finite functions, by taking a least counterexample, so no theorem that takes an operator is needed.

### What is assumed beyond the types of constants

* `OverlapIsEnough`: a node lags by no more than `ScanOverlap`, what the comment at `scan_overlap`
  (`watcher/src/network.rs:73`) sizes it for. With a lag of 2 and an overlap of 1, TLC finds a transfer that is passed
  over. Reorganisations are not bounded by it.
* `SweepsAreEnough`: the top-ups fit one batch of the funding sweep, and the provider fails fewer calls than sweeps run
  between the end of a checkout link and the end of the window. `naira_batch` shows what happens without the first.
* `CalledOffNeverStarted` and `DoubtsAreSwept` are about processes in which nobody rechecks: an operator's recheck
  breaks both properties (section 6).
* The promises of four of the violation runs hold under one condition each, which names what those runs exploit and
  the code does not ensure: `AdoptsUnshared` (the sweep's recovery looks for other orders in one statement and writes
  in another) with `LooksUpUnshared` (the purchase's own, `recover_recent_buy`, looks for none), `LogsKeep` (a row is
  keyed by the index of its log, which a new block may change), `OnePayer` (the cap is checked before the account is
  locked), and one address to a transaction (`tron.rs` keeps one row for each). The fifth, `naira_batch`, is
  `SweepsAreEnough`. These theorems say that nothing else can break the promise.
* Orders have an owner and a positive price, the markers for NULL are no identifiers, the holders of claims are told
  apart; `MaxGap` keeps two sweeps of the TRON watcher within the day the first sweep looks back; the keys of 5SIM's
  countries come in one order without repetition. Loops, desks, transfers and costs are finite in number where one of
  them is counted or a largest is taken; there may be any number of everything else.

### The arguments

* Number orders. The type invariant is not inductive alone: a task that applies an answer writes the activation it
  remembers into the row, so what it remembers must be an activation. `IdentifiersKnown` says that, and the two are
  inductive together. For the money, `RowChange(o)` lists the few things any action may do to one row and
  `MoneyChange(o)` the few things it may do to the journals of that order and to its owner's balance; one lemma per
  transition of `number_order_transitions.rs` shows that it does nothing else, `EveryStep` puts them together over the
  disjuncts of `Next`, and the theorems up to the escrow are short arguments from the two. `MoneyConserved` adds that a
  step moves one order from one of the sets it sums over to another.
* The claims on orders. `Touches(t, o)` lists what a handler may do to a row and its claim, `Buys(o)` what the purchase
  may: whoever writes a row holds its claim and gives it up in the same step, or takes one nobody holds; only the
  customer's poll writes without, and only on a row with its activation. With `ClaimInv` (a row without an activation
  never had one, and an order whose buyer holds the lease is as the buyer reserved it) this gives `BuyersAreFenced`.
  `ReadInv` then says that what the sweep read when it claimed a row still stands while it holds the claim: it reads and
  claims in one statement. A recheck does not, which is where the proof stops with operators.
* One order for an activation. An activation that was sold has at most one holder: the order that has recorded it, or
  the one whose purchase is about to (`HeldInv`). A purchase is handed a new one; only
  a recovery, the sweep's or that of a purchase answered unreadably, takes one from the supplier's history.
* Deposits. `WatcherInv` says of each key that its journals agree with its row (`Journaled`), that what is owed is the
  number of confirmed rows, and that what a pass holds in its queue is as it read it, each row once (`QueueInv`):
  without the last, a row advanced twice could be credited twice. `ReversalJustified` is the step property of the same
  invariant. For `NothingMissed`, `ScanInv` keeps the scan behind the head, and `FoundInv` says that all that is
  behind the overlap of the saved cursor, of the running one, and after the scan of the end of the window, has a row
  or is in the queue. What is that far behind was not hidden by a lag (`ScanFinds`) and, unless it is `buried`, was
  not moved there (`NotBuriedStays`). For `CreditedOnceInPlace`, rows and queue are at the index the chain keeps
  (`RowsInPlace`), so a transaction has one.
* Naira. A caller hears an answer in one step and writes it in another: `HeardStands` says that it is still so, which
  needs that a charge begins with its row (`ChargeHasRow`). Whoever makes a journal books its amount, and who finds
  one moves nothing (`BookSteps`), so the balance is two sums over journals by their kind; a payout's row can only be
  without its reservation where the journal is of another kind. `SweepInv` bounds the age of a paid top-up that is
  still pending by the errors there were: a sweep ends in every tick, and of each row it should have closed it has the
  row still in its queue, is asking, or has an error to show (`Excused`). So the errors run out before the window
  does. For the cap, what was paid in the last 24 hours and what the one request past its check will add fit together
  (`CapInv`); time only takes payouts out of the window.
* Log scan. A window of one block asks for at most that block and the overlap, so an endpoint that serves more than the
  overlap never refuses it: what it refuses can be halved (`RefusedIsWide`).
* Ledger. What an unfinished transaction may rely on (`Prepared`: its draft is sound; its key is free while it inserts,
  taken when it replays) is inductive with the fact that one key has one inserter at a time (`OneInserter`).
* Alerts. A mail is answered for by the alert, being delivered or held by a loop about to mark it, or it is excused, and
  a loop still to mail an alert it no longer holds was excused beforehand (`Accounted`).
* TRON. While a sweep runs, a transfer that landed a slack before it began and was not left off a page is recorded,
  was found, or pays an address still to be asked for (`InHand`); a day before a restart is not after the last sweep
  that ended. `TronOwesItsRows` is the book of the watcher: a credit and the row that says `confirmed` are one
  transaction (`DueInv`).
* Shop. Of the numbers sold for an order and not hidden by a gateway's page there is at most one while it is still
  looking, and then it is looked up, in doubt, or what the order holds, unless it holds another's out of 5SIM's
  history (`Owns`, `Holds`, `SaleInv`). While the sweep follows the switches, sources of the suppliers it has passed
  belong to those it found on (`Followed`), each listed source is in the offer of its cost (`StallInv`), and a dearer
  number is not sold cheaper, so what is listed passes every refusal of `create_order`.
* Catalogue. A code's first key always sells under it, and once it does no other takes over; codes the sweep has passed
  agree with the list as long as nothing disturbs it (`PriceInv`). A row that is written is within the hysteresis.
* Sessions. A row is locked by one request at a time (`LocksExclude`), and what a request decided about its token still
  stands when it commits (`Decided`).
* Signing in. Whoever is about to send a code deletes with it every other live code of the destination, and nobody
  else is sending there (`Sending`); with `Counted` and `OneOpen` that is inductive (`CodeInv`). A code's row is held
  by one request at a time, and what that request remembers of it still stands (`LockInv`): nobody gets in by a code
  that was used or replaced, so a code works once (`CodesWorkOnce`). A request links only a user who has an identity
  of the same channel (`LinkInv`); while no profile is edited a profile holds what its user proved, and no two hold
  the same (`ProfileInv`). A claim proves at most one channel (`OneChannel`), which is why two claims that share one
  prove the same. `SessionsRefined` shows that signing in uses the table of sessions only as `Sessions` allows, so
  `OneTokenLives` holds there too.
* Google's keys. A set counts as fetched when it is stored, so a withdrawn key in the cache may look younger than its
  withdrawal, but by no more than a fetch can last (`KeysInv` with `InTime`).
* Reviews. What a submission remembers of the tier was earned, and so was every tier below the one a row asks for
  (`KycInv`); a key without a row has had no answer (`CardsInv`).
* Operators. A token is only on an order that is held, so whoever's token is current finds the order open; a refund
  row is owed by one request alone, the one that closed the order, since an order is held at most once (`LogInv`). A
  code that may still be wrong was let in while a failure was to spare, and takes the place of its request when it
  fails (`Spared`).
* Payees. An id belongs to one number and is never given out again, so what a request read about an id stays about that
  number, whether the row is there or not (`PayeesInv`).

* Side by side. `MCAccounts` and `MCWorkers` explore parts that share no state. A step of one is a stutter of the others
  (`PeopleMoveAlone`, `WorkersMoveAlone`), so each theorem about a part is one about the run that explores it. The part
  "sessions" starts sessions for users who did not sign in, and is `Sessions` alone; signing in is explored in its own.
  The types follow part by part: most are conjuncts of the invariants above, and what is left are bounds of clocks and
  counters, of prices (`PriceBounds`), of what a sweep counts (`ShopBounds`) and of what requests remember (`DesksFit`,
  `PayeeBounds`). A type that holds a default (the first code, an address, an account) needs that there is one.

### Model-checked only

Liveness (`EventuallyResolved`, `DeliveredCloses`, `PaidIsCredited`, `ScanEndsAtTip`, `StayingIsCredited`): TLAPS proves
neither fairness nor ENABLED. What a recursive definition computes for every input is out of its reach as well, and no
theorem depends on one.

## 5. Not modelled

* Provider slots: ten leased rows that bound how many supplier calls run at once. In `NumberOrders` a check may always
  find them taken, which is more than they can do.
* The hash of a PIN, access tokens, cookies, the arithmetic of signatures, key derivation (`wallet`, `signer.rs`):
  pure functions, cryptography or state no table knows. Their outcome is an input of the modules.
* Rates (`pricing.rs`, `rate_routes.rs`): a cached quotation; nothing in this commit trades at it. Assets and chains are
  enumerations. Push tokens are one upsert. Portfolio, limits and activity only read.
* The HTTP boundary (headers, CORS, a library's token buckets), configuration, start-up, notifications (I/O), test
  support, development tools, the clients and deployment.
* A watcher's cached tables of addresses and contracts, the decoding of logs and transactions, and the formats of
  supplier replies (only what they say is kept).

## 6. Other disagreements met while modelling

The runs with a violation show five. Met on the way, from reading the code beside the models, and without a run of
their own (`src/backend-rs/crates/api/src` unless said otherwise):

* A cancel decides from the identifier and the message count it read before it took the claim (`number_routes.rs:1069`
  and `1079`): an SMS that came in between is refunded away with the order.
* An operator's recheck decides from `provider_purchase_started_at` as it was before its claim
  (`admin_recovery.rs:620`), so with an operator an order may be refunded as not started although its purchase did
  start; `NotStartedIsTrue` and `UnknownIsSwept` are therefore checked without operators.
* `check_reorgs` counts its window from the head (`watcher/src/main.rs:372`), so an outage longer than the window
  hides a reorganisation of a credited block, which `watcher/src/network.rs:67` means to exclude.
* The overlap of two scans is 3 blocks on Ethereum and 10 elsewhere (`watcher/src/network.rs:82`), the reorganisations
  that the confirmations expect reach 12 and 20. One that is deeper than the overlap can move a transfer that was not
  recorded yet into a block the scan has passed. Only a start looks far enough back, and without one soon enough the
  transfer is not credited. In the module it is `buried`; without that exception TLC finds it in the `deposits` run.
* A payout whose `Idempotency-Key` is the key of a journal of another kind is a replay for the ledger, and as that
  journal has no payout, a reserved row is inserted without a debit (`payout_routes.rs:230`), where
  the comment above it says that the row is made to match its journal. A key sent again with another amount
  answers with the first payout.
* A top-up verified before it is abandoned and credited after leaves a posted journal beside a row that says abandoned.
  After an outage of a day the first funding sweep abandons rows it never asked about.
* A payout that is sent again is checked against the cap and the balance before its replay is recognised
  (`payout_routes.rs:192`).
* The `save` flag of a payout's new account (`payout_routes.rs:343`) changes nothing: `list_accounts` shows every row.
  Removing an account that a payout refers to fails on the foreign key.
* `number_catalog.rs:878` says an unconverted cost is "priced at the floor rather than at a guess", but the insert
  prices it from the unconverted cost. A country taken over by another key keeps the loser's prices, and a product
  that vanishes from a listing keeps its stock (`number_catalog.rs:274`). The sweep of offers does not apply the rule
  of the comment at `number_catalog.rs:722`: French Guiana's offers are listed under France's code.
* In `number_smspool.rs:271` the word "available" is found in "unavailable", so a gateway's page reads as no stock,
  and the order goes on to the next supplier, whether or not SMSPool sold a number. In `Shop` such a sale is `paged`;
  without that exception TLC violates `SoldIsAccounted` in the `workers` run.
* A purchase whose answer has no identifier, no phone or no order in it takes the newest order of that country and
  product from 5SIM's history and compares it with no other order (`number_provider.rs:574`, where the sweep's
  recovery does compare). Two orders may get one number; the one that was sold is then nobody's (`Swapped` in `Shop`,
  and without that exception TLC violates `SoldIsAccounted`). In `NumberOrders` it is `RecoverRecentBuy`, which the
  theorem on `ActivationServesOneOrder` excepts beside the sweep's recovery. In `NumberOrders` it is
  `RecoverRecentBuy`, which the theorem on `ActivationServesOneOrder` excepts beside the sweep's recovery.
* When a named 5SIM operator is dry the buy is repeated for any operator, but the row keeps the operator that was named.
  In `number_activate.rs:254` the first mapping wins by the supplier's code, not by product. `activate_pricing` takes a
  missing currency for dollars.
* A scan window of one block still asks for the overlap and one block more, though the error speaks of a single block
  (`watcher/src/main.rs:184`).
* Only one page of 200 of TronGrid's list is read, tokens that are not ours included, and the next sweep moves on from
  it (`watcher/src/tron.rs:130`). A transfer that was not on the page before its time has passed is never recorded:
  without the exception of `skipped`, TLC violates `SweptIsRecorded` in the `workers` run.
* A second review of one order raises no alert: the first one's key is taken (`number_reconciler.rs:318`).
* `number_sell::load` takes a second connection from the pool inside `create_order`'s transaction
  (`number_routes.rs:610`), so orders at the limit of the pool wait for each other.
