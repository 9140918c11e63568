# Verification of the transport back end

The repository is the Node.js back end of a freight platform: shippers place
orders, drivers are found for them in queues, on a market or through companies,
drive them, prove the delivery and are paid. This directory holds TLA+ models of
its core logic, the TLC configurations that check them on small instances and the
TLAPS proofs about them. The models follow the code; where the code and its own
comments disagree, section 8 says so.

Contents: [1 Inventory](#1-inventory), [2 Modules](#2-modules),
[3 Correspondence with the code](#3-correspondence-with-the-code),
[4 Abstractions](#4-abstractions), [5 Runs](#5-runs), [6 Fairness](#6-fairness),
[7 Proofs](#7-proofs), [8 Where the code and its text disagree](#8-where-the-code-and-its-text-disagree),
[9 Not modelled](#9-not-modelled), [10 What could come next](#10-what-could-come-next).

## 1 Inventory

Paths are relative to `src/`. All state lives in MySQL; processes keep none that
matters between requests, apart from the timers and the queue of evaluations of
accounts. Handlers of HTTP requests and of the timers run concurrently. Most
handlers run inside `executeInTransaction` (`Utils/DatabaseTransaction.js`), which
keeps the connection in an `AsyncLocalStorage`, so that a nested call joins the
transaction of its caller; the ones that do not, and the parts of a handler after
its transaction, run statement by statement in autocommit.

| Component | State | Operations | Hard behaviour | What makes it correct |
|---|---|---|---|---|
| **DriverQueue** (`Services/DriverQueue`) | `DriverQueue` rows: driver, status, number in the line, order, refusal count, yard number, reservation, deletion | check in, check out, enrol, remove, renumber, dispatch, offer, refuse, expire, re-dispatch, accept, follow the journey, close | a timer pass in autocommit against handlers in transactions; an accept in six parts; MAX()-based numbers | a driver in the line once; an order with one driver; nobody asked twice; offers end; pending orders and free drivers meet |
| **DriverRequest** (`Services/DriverRequest`) | `DriverRequest` and its `JourneyDecisions` row | go online and offline, accept, cancel, offer, take from street, time out | unique index on active requests; two modes (queue, market) for one driver | one active request per driver; request and decision move together |
| **Journey management** (`DriverRequest/journeyManagement`) | `Journey`, and the status of order, request, decision, entry | loading stages, start, complete | the queue entry is closed after the commit | order, decision and entry at the same stage |
| **ShipperRequest** (`Services/ShipperRequest`) | `ShipperRequest` rows | place, choose an offer, reject, cancel | cancellation at any stage; reads before the transaction | one driver per order; a closed order stays closed |
| **Status reconciliation** (`ShipperRequest/reconcileStatus.service.js`) | none of its own | compare orders with decisions, correct | the correction is computed from an earlier read | it never reopens an order; an abandoned order comes back |
| **Journey status** (`Services/JourneyStatus`) | the status columns | the updates all handlers share | four UPDATEs with different conditions | the rows of a deal move together |
| **Company contracts** (`CompanyBid`, `CompanyAssignment`, `ShipperRequestBatch`) | bids, assignments, batch | bid, accept, dismiss, assign, replace, recall, confirm, refuse, cancel a batch or part of it | a driver's request serves market and company; unique keys on it | a new assignment never collides; whoever is assigned can answer; no driver is held by an ended assignment |
| **Money** (`UserBalance`, `UserDeposit`, `UserRefund`, transfers, `Commission`) and **subscriptions** | rows with a running total; documents | deposit, approve, webhook, refund, transfer, charge, subscribe | read the last row, insert the next, without a lock; a webhook in two parts | a running total, credits once, transfers whole, a journey charged once |
| **Accounts and documents**, **bans**, **deletion and restoration** | account status, documents, bans, history | upload, review, evaluate, ban, lift, delete, restore | the status is derived from many tables by evaluations that interleave | the status agrees with what it is derived from; a restoration lifts no ban |
| **Delivery confirmation** (`Services/DeliveryConfirmation`) | confirmation with hash, previous hash, photos | submit, confirm, receipt, amend, dispute, delete | evidence before, with and after the confirmation; rows read without a lock | the hash covers all the evidence; no hash is lost |
| **Delinquency** (`UserDelinquency`, `CompanyDelinquency`, disputes, decisions, `BannedUsers`, `CompanyBan`) | cases with points, responses, rulings, bans with the cases linked to them; a company's history | report, amend, respond, rule, retract, ban, lift, approve | a moving window of points; three paths to a ban; checks without a lock or a key | a ban is earned by the cases linked to it; bans do not run side by side; evidence stays |
| **Transactions** (`Utils/DatabaseTransaction.js`) | connection, retries, timer | run, retry, time out, release | a callback that goes on after its timeout | all or nothing; connections come back; every call ends |
| Users, sessions, one-time passwords | credentials, sessions | sign in, verify, clean up | expiry | an expired or used password is refused |
| Vehicles, companies, queue organisations, prices, ratings, reports, notifications, HTTP layer, schema | records | CRUD | none of their own | – |

How they interact. Placing an order (`ShipperRequest/create`) calls the queue
(`offerToDriver`) or the market (`matching`), which create a request and a decision.
The driver's answer arrives at `DriverRequest`, which calls back into the queue
(`markEntryAgreed`, `rejectOffer`, `releaseQueueEntryAfterDriverCancel`) and into the
contract (`releaseConflictingOffers`). The journey handlers mirror each stage into
the entry and, through `updateJourneyStatus`, into order, request and decision.
Completion charges the commission and confirms the delivery if none is required. A
minute timer (`automaticTimeout.service.js`) ends offers past their window in the
market and in the queue, offers the queue's orders on, and reconciles. Reviews of
documents, subscriptions and vehicles lead to evaluations of the account.

## 2 Modules

| Module | What it is |
|---|---|
| `QueueStatus` | the status ids that entries, orders, requests and decisions share, and the groups of them the code tests against |
| `QueueTables` | the queue's tables as one record, the queries on them, and the service helpers as operators from tables to tables (`OfferFifo`, `RejectOffer`, `ReleaseOnOrderCancel`, ...) |
| `DriverQueue` | the queue: variables, one action per handler or per part of a handler, fairness, properties |
| `OrderDispatch` | the abstract specification: what the queue promises of its orders, with no entries, requests or numbers |
| `QueueDispatch` | the refinement mapping from `DriverQueue` to `OrderDispatch` |
| `Market` | orders outside the queues: asked, offered for, taken, driven, timed out, reconciled |
| `Contract` | a batch carried by a company's fleet, whose drivers also work on the street |
| `Wallet` | the ledger and the documents that move it |
| `Account` | the status of a driver's account and what moves it |
| `Delivery` | the proof of delivery of one journey |
| `Delinquency` | cases against users and companies, their rulings and bans |
| `Transactions` | `executeInTransaction`, on which all the others rest |
| `MC...` | values for the constants, symmetry, state constraints |
| `DriverQueueProofs`, `TransactionsProofs`, `MarketProofs`, `ContractProofs`, `WalletProofs`, `AccountProofs`, `DeliveryProofs`, `DelinquencyProofs` | inductive invariants and theorems |

`DriverQueue` extends `QueueTables`, which extends `QueueStatus`; `Market` and
`Contract` extend `QueueStatus`. `QueueDispatch` composes `DriverQueue` with an
instance of `OrderDispatch`. The other components meet in the database only, at
rows each of the modules carries itself: the request and its decision in
`DriverQueue`, `Market` and `Contract`, with the unique index on active requests.

Some definitions are preceded by a variant with a suffix (`CheckIn_Twice`),
introduced by "Fault:". A variant is what a plausible slip in that code would look
like; no specification uses it. Each property is violated by replacing one
definition by its variant (`PROJECT.json`, "mutants"), so that none of them holds
for want of anything that could break it.

## 3 Correspondence with the code

`PROJECT.json` "map" gives the lines of each definition.

### DriverQueue

`tables` is the database: `entry` the `DriverQueue` rows of a day, `order` the
`journeyStatusId` of each `ShipperRequest`, `requests` the live `DriverRequest` rows
each with its `JourneyDecisions` row (one to one by a unique key). Terminal requests
are kept only as what is read of them: `declined` (the driver said no: 11, 12, 18),
`calledOff` (an admin ended it: 13), `delivered` (the order was completed). `armed`
is the set of drivers with a request in `waiting`, which an offer uses up.
`inFlight` holds what a handler remembers between two of its transactions or
statements, `sweep` what the timer's pass remembers.

| Action | Code |
|---|---|
| `CheckIn`, `CheckInAgain` | `checkin.service.js` `checkin` |
| `ManualCheckin`, `RemoveEntry`, `OverrideEntry` | `queue-admin.service.js` |
| `Checkout` | `checkout.service.js` |
| `PlaceOrder` | `ShipperRequest/create.service.js`, then `offerToDriver` |
| `DispatchToFront`, `DispatchToEntry` | `dispatch.service.js` `dispatch`, `dispatch-offer.service.js` `offerToDriver` |
| `CancelDriverRequest`, `CancelWaitingRequest` | `actionCancelDriverRequest.service.js` |
| `RejectDriverOffer` | `ShipperRequest/actionReject.service.js` |
| `CancelShipperRequest` | `ShipperRequest/actionCancel.service.js` |
| `AcceptGate`, `AcceptDecision`, `AcceptLookup`, `AcceptStamp`, `ReleaseRead`, `ReleaseInvitee` | `acceptShipperRequest`: `assertQueueOfferAcceptable`; the transaction; the lookup of `markEntryAgreed`; its write; `releaseNotSelectedBidInvitees`: its lookup, then the end of each other invitation, with `EndInvitation` for `releaseAgreedEntryForUnselectedBidder` |
| `LoadingStage`, `StartJourney` | `journeyManagement/loading`, `start` |
| `CompleteJourney`, `CompletionClose` | `journeyManagement/complete`: the transaction; `closeEntryOnJourneyCompletion` after it |
| `SweepRead`, `SweepMark`, `SweepCharge`, `SweepSeek`, `SweepOffer`, `SweepSettle` | `expiry.service.js` `releaseExpiredOffers`, statement by statement |
| `RescanSeek` (then `SweepOffer`) | `dispatch.service.js` `rescanPendingQueueOrders` |
| `ReconcileRead`, `ReconcileApply` | `reconcileStatus.service.js` |
| `Restart` | the process ends; the database stays |

Handlers in one transaction are one action, with everything they call: `Checkout`
closes the row, ends the request and offers the order on; `JoinLine` inserts the row
and offers the oldest pending order. Check-ins and enrolments take the lock of the
organisation's row first (`helpers.js` `queueOrgReady`, `FOR UPDATE`), so that
reading the greatest number and inserting the row is one step among them.

`OrderDispatch` keeps of each order its stage (`unplaced`, `open`, `asked`,
`engaged`, `closed`), the driver it is with, and which drivers said no to it. The
mapping of `QueueDispatch`: an order is `engaged` when an entry on a job holds it,
`asked` when another entry holds it, its driver is that entry's, and the noes are
`declined \cup calledOff`. The abstract actions promise that an order is with one
driver, a driver with one order, that nobody is asked after a no, that a driver who
took the order keeps it until it is closed or given back, and that a closed order
stays closed. `Refuse` is the late no: it is noted and moves nothing.

### Market

`order` is the status of each order, `row` the driver requests with their decisions,
`calls` what a handler keeps between what it reads without a lock and what it
writes. `Party(c)` says whose call it is; a call runs alone unless it or all the
others belong to `Interleaved`.

| Action | Code |
|---|---|
| `GoOnline`, `Seek`, `SeekWrite` | `requestCRUD.service.js` `createRequest`; `handleJourneyStatusOne` with `executeStatusUpdates` |
| `PlaceOrder`, `Ask` | `ShipperRequest/create`, `statusVerification/matching.service.js` |
| `AcceptShipperRequest` | `actionAcceptShipperRequest.service.js` |
| `BidRead`, `BidWrite` | `actionCreateAndAcceptNewRequest.service.js` |
| `SelectRead`, `SelectGone`, `SelectWrite` | `actionAccept.service.js` `acceptDriverOffer`; `SelectGone` where the request that is named is not open any more: the open ones are un-selected and none is taken |
| `RejectRead`, `RejectWrite` | `actionReject.service.js` |
| `WithdrawRead`, `WithdrawWrite` | `ShipperRequest/actionCancel.service.js` |
| `GoOffline`, `CancelRead`, `CancelWrite` | `actionCancelDriverRequest.service.js` |
| `TimeoutRead`, `TimeoutCheck`, `TimeoutWrite` | `automaticTimeout.service.js` `findTimedOutDriverRequests`, `actionNoAnswerFromDriver.service.js` |
| `ReconcileRead`, `ReconcileApply` | `reconcileStatus.service.js` |
| `StartJourney`, `CompleteJourney`, `TakeFromStreet` | `journeyManagement`, `actionTakeFromStreet.service.js` |

### Contract

`mode` and `batch` are the columns of `ShipperRequestBatch`, `bid` the status of each
company's bid, `order`, `row` and `assignment` the rows of orders, requests with
decisions, and `CompanyBidVehicleAssignment`, `fleet` whether a driver's vehicle is
in the company's pool. `shared` and `late` are history: orders that had two live
assignments at a time, drivers who answered an assignment that was over.

| Action | Code |
|---|---|
| `SubmitBid`, `AcceptBid`, `DismissBid` | `CompanyBid/bidCreate.service.js`, `bidUpdate.service.js` |
| `CreateAssignment`, `AutoAssignBatch` | `assignmentCreate.service.js`, `assignmentAuto.service.js`, with `Upsert` for `upsertDriverRequest` |
| `ReplaceAssignment`, `DeleteAssignment`, `UpdateCompanyVehicle` | `assignmentReplace.service.js`, `assignmentDelete.service.js`, `CompanyVehicle.service.js`, each with `Recall` |
| `ConfirmAssignment`, `ConfirmFails`, `RejectAssignment`, `CancelAssignment`, `AdvanceAssignment` | `assignmentUpdate/status.service.js` and its `transitions` |
| `CancelBatch`, `PartialCancelBatch` | `ShipperRequestBatch/batchCancel` |
| `GoOnline`, `AskDriver`, `AcceptShipperRequest`, `CancelDriverRequest`, `StartJourney`, `CompleteJourney` | the street: what the market does to the same requests |

### Wallet

`ledger` is the `UserBalance` rows in order, `doc` the deposits, payments, refunds,
transfers, commissions and subscriptions, `calls` the calls that have read (`Read`)
and not yet written (`Commit` or `Crash`). `PrepareAndCreateNewBalance` and
`CreateUserBalance` are the service of that name, with its refusal of a duplicate
creation. `SantimPayWebhook` writes the status of the payment at once, through the
pool, and the credit with its `Commit`: a `Crash` between leaves the one without the
other, and a redelivery may come at any time. The other actions are named after
their functions. An edit writes whatever columns the request names (`Given`): of a
deposit or a refund also its owner, of a commission also its journey
(`UpdateCommission`), which decides on a driver again. `overlapped` (users for whom, or
for a document of whom, two calls were under way at once), `edited`, `moved`
(commissions an edit pointed at another journey) and `begun` are history.

### Account

`status` is the row of `UserRoleStatusCurrent`, `archived` the newest entry of the
history that is not "deleted". An evaluation is a task with three steps:
`StartQueued` or `StartPoll` (reads the status), `ReadFacts`, `WriteVerdict`; queued
ones run one after the other per user (`enqueueRecalc`). `Review` is the callback
of the transaction, which queues the evaluation, `Commit` its COMMIT. `Upload`,
`UpdateDocument`, `DeleteDocument`, `AssignVehicle`, `ReleaseVehicle`,
`ChangeStanding`, `BanUser`, `AutomaticBan`, `MoveExpiry`, `DeactivateBan`,
`UnbanUser`, `DeleteUser` and `RestoreUser` are the handlers of these names.
`VerdictOf` is the ladder of `accountStatus`, `LiveStatus` the one of
`findStatusByVehicleAndDocuments`, in the order the code climbs each.

### Delivery

`rows` are the confirmations of one journey with their photos. A request begins
(what it reads, what it is refused for) and writes later; `open` keeps the view of
the database it began with.

| Begins | Writes | Code |
|---|---|---|
| `CreateDeliveryConfirmation` | `WriteSubmit` | `create.service.js`; a live confirmation is met as `ER_DUP_ENTRY` |
| `CreateShipperDirectConfirmation` | `WriteDirect` | `create-receipt.service.js`; meeting a pending one of the shipper's, it settles that (`MetPending`) |
| `SubmitReceiptPhotos`, `AutoConfirm` (after `CompleteJourney`) | `WriteReceipt` | `submitReceiptPhotos`, `createReceiptConfirmation`, `complete.service.js` |
| `UpdateDeliveryConfirmation` | `WriteUpdate` | `update.service.js`: `Effective` drops what a late driver may not change, `MayUpdate` is the state machine, `Updated` the UPDATE and the photos, `HashOf` and `PreviousHash` the hash and its trail |
| `DisputeByDelinquency` | `WriteDispute` | `UserDelinquency/create.service.js` |
| `DeleteDeliveryConfirmation` | `WriteDelete` | `delete.service.js` |

### Delinquency

`cases` are the rows of `CompanyDelinquency` and `UserDelinquency` alike, told apart
by their subject, `responses` and `rulings` those of the defence and decision tables,
`bans` `CompanyBan` and `BannedUsers` with the junction rows as `links` (a case and
its points at the time). `audit` is the newest `CompanyProfileHistory` row of a
company. `open` is what each request under way sees: its writes land on what is
there at the end.

| Action | Code |
|---|---|
| `ReportCompany`, `ReportUser` | `CompanyDelinquency.service.js`, `UserDelinquency/create.service.js` with `BanAtReport` for `checkAndApplyAutomaticBan` |
| `RemoveCompanyCase`, `RemoveUserCase`, `AmendUserCase` | `deleteCompanyDelinquency`, `UserDelinquency/delete`, `update` |
| `Respond`, `WithdrawResponse` | the two `...DelinquencyDispute.service.js` |
| `Decide`, `RetractRuling` | `AdminDecisionOnDelinquency`, `AdminDecisionOnUserDelinquency`, with `AutomaticBan` for both `checkAndApplyAutomatic...Ban` |
| `BanCompany`, `UnbanCompany`, `BanUser`, `DeactivateBan`, `AmendBan` | `CompanyBan.service.js`, `BannedUsers.service.js`; `AmendBan` is `updateBannedUser`, which writes the expiry and the recorded length apart, each if it is given |
| `ApproveCompany` | `TransportCompany.service.js` `approveCompany`, with `Record` for `recordStatusChange` |

### Transactions

`call` is the loop of `executeInTransaction` per caller, `body` its callback,
`session` what the server keeps for a connection (an open transaction and its
writes), `free` the pool. The pool, START TRANSACTION, COMMIT, ROLLBACK and
autocommit are external (`mysql2` and MySQL), modelled from how the code uses them.
A callback is a process of its own: `Timeout` ends the call and leaves the body
running. `Deadlock` is error 1213 at a statement: the server rolls back, the call
releases, backs off and starts again; the `finally` of the abandoned attempt
releases once more.

## 4 Abstractions

Everywhere: notifications, history rows that nothing reads, "seen" flags, locations,
wording and layout are left out. Time is modelled in `Delinquency` only: elsewhere an offer, a window or a ban
may be found past its end from the moment it is made, and whether it is, is a
choice. A transaction that locks what it decides on is one step; what a handler
reads before it, or in it without a lock, is a step of its own where the module says
so.

*Queue.* One organisation, one queue day, one vehicle type; numbers in the line are
per day and type, yard numbers per day, so days and types do not meet. Orders are
offered first-in first-out, not opened to bidding, not aimed at a company. A driver
has one active vehicle. A transaction is atomic and serializable, where the code
relies on row locks and on repeatable read; `Checkout`, for one, reads its row
without a lock. The passes of the timer do not overlap. The list of pending orders a
pass reads is not kept: each round picks the oldest order somebody can take. The
offer of the pass is one step after the choice of the driver, which is where another
handler can act on the row that was chosen. `CancelWaitingRequest` is left out while
the pass is between choosing and using that very waiting request. Entries with
equal numbers are told apart by row id. Job entries without an order (older than the
linkage) do not occur.

*Market.* Which drivers and orders are near each other is left open: any may be
asked. Prices and vehicle types are left out. Orders of the queues and of companies
are in the other modules.

*Contract.* Each call is one step, but for what `releaseConflictingOffers` writes
through the pool inside a confirmation that may still roll back. A driver has one
vehicle. The cancellation by an admin does what the shipper's does. Duty status,
access checks, deletion of bids, bulk assignment, the enrolment in a queue after a
confirmation and the report of evasion are left out. What an assignment does is
followed until two assignments are live on one order or a driver has answered one
that was over (`Regular`): from there on the code promises nothing (section 8).

*Wallet.* A journey is charged by one driver's commissions; `DriverOf` is who drove it. A call decides on the snapshot its first read takes (InnoDB's repeatable
read) and writes everything or nothing. Amounts are a few numbers. The identifier of a refund, which an
edit could also overwrite, is not changed. The dates of
subscriptions, prices, plans and the rows an admin inserts by hand are left out.

*Account.* One document of the driver's own and one of the vehicle stand for all of
them; what subscription and wallet hold is the driver's standing (paid, in grace,
none). Bans are one step each. Versions of documents and roles other than driver are left out; where a
user's bans come from is in `Delinquency`.

*Delivery.* Each request has a stamp, which stands for the time it writes, the photo
it brings and the terms (quantity, unit, condition, place) it gives; a hash is what
it was computed from. One-time codes are left out: a code that is sent is checked,
no settlement asks for one.

*Delinquency.* Hours pass between requests, to instants of a small set. A type of
delinquency is its default points, which also stand for points given with a report.
Severity, texts and deadlines (which only mark a response late) are left out. A
user has one role. What a ban does to the account is in `Account`.

*Transactions.* Statements fail or deadlock; the loss of a connection and a COMMIT
that fails are left out. A nested call joins, so its statements are the outer
callback's.

Bounds, all named in the modules: rows (`MaxEntries`, `MaxRows`, `MaxAssignments`),
orders, numbers given out (`MaxNumber`), calls halfway (`MaxInFlight`, `MaxOpen`),
calls (`MaxCalls`, `MaxDocs`, `MaxRequests`), rulings and responses, reviews, polls, changes and orders of the account,
retries. A step that would pass a bound is not taken. `Operations` selects the
handlers of an instance of the queue, `Concurrent`, `Interleaved` and `Alone` what
may run beside each other.

## 5 Runs

Symmetry is used for runs without liveness properties. Deadlock is not checked
where an instance ends because its rows, orders or calls are used up; in
`Transactions` it is. The refusal limit is 2 (3 in production), the smallest that
tells "one refusal" from "move to the back".

| Run | Module | Instance | Distinct states | Shows |
|---|---|---|---|---|
| `Stages` | `MCDriverQueue` | 2 drivers, 2 rows, 2 orders, two shippers, reservations, a supervisor renumbering, one call at a time | 31,598 | requests, orders, entries and yard numbers agree at every stage; a reserved place is kept; an accepted order is not offered on |
| `Line` | `MCDriverQueue` | 2 drivers, 3 rows, 2 orders of one batch; refusals, expiry, checkout, cancellation | 269,175 | the queue implements `OrderDispatch`; an order has one entry; a driver stands in the line once; an asked driver can answer; a shown order is held; closed orders stay closed; types |
| `Races` | `MCDriverQueue` | 2 drivers, 3 rows, 2 orders of two shippers; check-ins interleaved with the re-dispatch | counterexample of 11 states | an order offered to two drivers (section 8) |
| `Desk` | `MCDriverQueue` | 2 drivers, 2 rows, 1 order, admin, shipper, reconciliation and restarts interleaved | 391,689 | no second guarded request; no correction reopens a closed order |
| `Progress` | `MCDriverQueue` | 2 drivers, 2 rows, 2 orders, fair, restarts | 17,889 | offers end; pending orders and free drivers meet; unanswered orders move on |
| `Transactions` | `MCTransactions` | 2 calls of two statements, 2 connections, 1 retry | 76,250 | a call that returned is complete; one that threw by itself left nothing; connections come back; every call ends |
| `Market` | `MCMarket` | 2 drivers, 2 orders of one shipper, 2 requests, one call after the other with the timer between | 383,685 | one driver per order; request and decision of a job are one; the order is at the job's stage; an abandoned order comes back |
| `Wallet` | `MCWallet` | 2 users with a journey each, 2 calls, 2 documents of any kind, 3 calls in all, crashes | 539,521 | running total, credits once, whole transfers, approved is credited, charged once |
| `Contract` | `MCContract` | 1 company, 2 drivers, 1 order of the batch, 1 of the street, 2 requests, 2 assignments | 347,640 | a new assignment never collides; an assigned driver can answer; no phantom job |
| `Account` | `MCAccount` | 1 driver, 2 evaluations at once, 2 reviews, 1 poll, 1 change, 1 ban | 812,730 | the last queued evaluation leaves the status the facts call for; a restoration lifts no ban |
| `Delivery` | `MCDelivery` | 2 confirmations, 4 requests, 2 at once of which one settles or amends | 224,634 | the hash covers all photos and terms; no hash is lost |
| `Delinquency` | `MCDelinquency` | 1 company, 1 user, 2 cases of 30 points, 2 bans, 5 requests one at a time, at 0, 8 and 31 days | 1,286,706 | a ban by ruling is earned by the cases linked to it, whatever an admin writes next to it; two bans do not run side by side; a case with a ban stays |

Why the bounds are enough. Queue: every property relates at most two entries, two
orders and two drivers, and each interleaving in question is between two handlers,
or one and the pass; a third row (`Line`, `Races`) lets a driver come back while another is
in the line, two orders give a pending order behind another and a batch with a
second order. Properties that say "whenever no call is halfway" (`Quiet`) are about
what a reader sees at rest; in the middle of an accept the entry is behind the
decision by design. Market and Contract: the conflicts are between two drivers, two
orders or two uses of one request, and an ended request can be followed by another.
Wallet: a lost update needs two calls, a double credit a third. Account: the
property is about an older evaluation beside a newer one. The instance has one
document, of the driver's own (`Kinds`): the vehicle's documents enter the ladder the
same way one rung later. Delivery: four requests are enough for submission,
confirmation, amendment and dispute with a settlement after them, or a deletion and
a fresh submission. Delinquency: two cases reach the rules of 7 and 90 days, 15 points
the one of 3; 8 days are past the shorter ban and within the window, 31 past both; a
report, a ruling, a second of each and one more request let a ban follow a ban.
Transactions: the second call is the one that meets a stray
callback, the second connection the one that is released twice.

What the runs leave out on purpose. `Stages` runs without expiry, it and `Line` with
one call at a time, so what an accept, a completion or a cancellation leaves open between
its parts is seen by nobody there; `Desk` without the re-dispatch and without `OneHolder` and
`OneLineEntry`; `Market` has
no call interleaved with another; the properties of `Wallet` that would fall with two
calls of one user spare the users of such calls, `ChargedOnce` the commissions an edit moved,
the ones of the results in `Transactions` behaviours with a deadlock or a fired timer; `Delivery` has one update at a time,
`Delinquency` one request. Each time the code does not keep the property otherwise, and
no text of the repository says it does, or section 8 quotes the text. The re-dispatch
looks at 50 pending orders at a time (`MAX_OFFERS_PER_SWEEP`), more than any instance has:
a backlog of 50 orders nobody can take is outside the model.

## 6 Fairness

*Queue.* `FairSpec` assumes: the timer keeps reading the offers past their window
(`WF SweepRead(ExpiredOffers)`) and, in the same pass, offers pending orders
(`SF RescanSeek`: a pass runs the re-dispatch after every expiry round, so it
comes up again and again even though each round may disable it for a while);
a pass goes on statement by statement (`WF SweepStep`); a handler that began
finishes (`WF CallStep`); the process does not die for ever
(`<>[][~Restart]_vars`). The first two are `setInterval` in
`startAutomaticTimeoutService`; the others are that a promise chain whose database
answers goes on. Drivers, shippers and admins are never assumed to do anything.
`~NumbersLeft` in the liveness properties is the escape of the bound on the
numbers: beyond it a move to the back is not taken, which the code never meets.

*Market.* A call that began ends (`WF` per party), and the reconciliation, which the
timer runs every minute, comes round to each order (`SF ReconcileRead(o)`: another
call may hold it off for a while). Nobody has to answer or choose.

*Transactions.* The runtime runs what is ready and fires the timer (`WF` of the steps
of a call), and the pool serves waiting calls in their order (`SF Acquire`). The
callback is not assumed to go on: `EveryCallEnds` holds though callbacks hang.

`Wallet`, `Contract`, `Account`, `Delivery` and `Delinquency` state safety only.

## 7 Proofs

All theorems are for any values of the constants, under the assumptions the modules
name (`...Assumption`, checked by TLC with each run).

**DriverQueueProofs.** `TypeCorrect`: `Spec => []TypeOK`; in particular no refusal
count reaches the limit, and what calls and the pass remember names existing rows.
`OneOfferPerDriver`: `Spec => []OneGuardedRequest`, so no path of the queue meets
`ER_DUP_ENTRY` of `uq_driver_active_request`. Neither property is inductive: an entry
has a driver or `None`, and an offer to an entry without a driver would not be a
typed request; and the pass chooses a driver in one step and offers in another,
relying on the waiting request in between. `IInv` adds that every inserted row has
its driver and keeps it (`RowUpTo`, `DriversStay`), that a driver with a waiting
request has no guarded one (`ArmedIsFree`), and that rows named by a call at its last
step and by the pass have been inserted (`CallsInv`, `PassInv`). Handlers are
compositions of operators on the tables, so the core is one relation
`Keeps(N, t, u)`: `u` is typed with numbers up to `N`, rows keep their drivers, and
`Guarded(t)` implies `Guarded(u)`. Each operator has a lemma that it keeps, the lemmas
compose (`KeepsTwice`), and each action has a lemma that it preserves `IInv`. Numbers
may exceed the bound by one before a step is rejected, hence the parameter `N`.

`DriverStandsOnce`: `Spec => []OneLineEntry`, for calls that follow one another
(`Orderly`, below), or with handlers interleaved as long as nobody accepts, nothing runs
beside the expiry, nor the re-dispatch beside an admin's enrolment (`LineSafe`). The
second half is about what goes on between two steps. No handler but a check-in brings a row into the line (`Onward`), and a
check-in looks for the driver's place first; so what matters are the rows the pass writes
to because it read them earlier. The one it found in front is the only place of its
driver while the waiting request is there, because a driver with a waiting request is
refused a check-in (`FrontStands`) - but an enrolment by an admin does not look for one -
and rows it read as expired stay in the line or are deleted only if no call comes in
between (`WaitersStand`). An accept ends the order's other invitations and returns their entries to the
line (`ReleaseInvitee`); beside other calls such an entry may be a stale one, hence the
condition on accepts, and one call after the other there is none (`DismissedHoldNothing`).
Without these restrictions the rows come back, as section 8 says.

`OrderlyInvariant` is the inductive invariant behind nine properties of entries, requests
and orders together. It assumes `Orderly`: one call after the other, and only operations
that write entry, request and order alike. Those left out are the ones the model shows to
leave one of the three behind: admin cancellation, removal, the shipper's rejection,
manual dispatch, the reconciliation, a restart, and a cancellation by the shipper where
the loading stages are in use (section 8). For each order `Settled` says: whatever entry
holds it has its request at the same stage and a reservation that allows it; every request
is carried by such an entry, or is one of two that the code leaves (`Abandoned`: the order
was cancelled after the journey had started; `Stray`: the driver did not
answer and the order went on); and an order shown as more than waiting is held. `Whole` adds
that an order has one entry. Between calls all orders are settled (`Matched`); while a
call of several transactions or a pass is halfway, `QInv` names the one order that is not
and what is true of it instead: after the decision of an accept (`Won`), while it
ends the other invitations (`TakenUp`: what it read is still asked, and no entry carries it),
after a
completion before its entry is closed (`Done`), and at each statement of the pass
(`PassFits`). The core is again a relation on tables: an operator about one order is
`Local` to it and leaves the others settled, so that each action has to settle its own
order only (`Open`: nobody asked or driving). TLC checked `QInv` on small instances before
it was proved. From it follow `OrderHasOneHolder` (`OneHolder`), `AskedDriverCanAnswer`
(`AskedCanAnswer`), `JobAndJourneyAgree` (`JobMirrorsJourney`), `ShownOrderHasHolder`
(`ShownOrderIsHeld`), `ReservationHolds` (`ReservationIsKept`), `ClosedOrderIsOver`
(`ClosedOrderStaysClosed`), `JobOrderIsNotReoffered` (`AcceptedIsNotReoffered`), and, with
no expiry, `RequestHasItsHolder` (`RequestHasHolder`), and, with no cancellation by the
shipper, `AcceptedJobIsStamped` (`AcceptedIsStamped`). `Races` shows why the first cannot
be had with calls interleaved.

`LateCorrectionReopensNothing`: `Spec => CorrectionNeverReopens` in any configuration and
with every interleaving, from the fact that a correction under way was computed from the
status of an open order (`CorrectionsInv`) and compares it again before it writes.

`QueueImplementsDispatch`: under `Orderly`, `Spec => ImplementsDispatch`, which `Line`
checks on its instance. `QInv` says what the tables agree on now; the promises are
also about what was said before. `AnswersInv` adds it: a driver stands in the line once
(`OneEntry`), has one request for an order (`OneAnswer`), none that waits once it has said
no (`Unsaid`), only orders that were placed are asked for (`Ordered`), and the pass, which
chooses a driver in one step and offers in another, holds none that said no to the order
(`FrontMayBeAsked`). TLC checked it on four orderly instances before it was proved, one of
them to the end (519,000 states), the others as far as 500,000 to 685,000 states. The
refinement then goes call by call. `SameFace(t, u, o)` says that an order keeps its stage and
its driver, `About(t, u, o)` that an operator on the tables touches one order only, brings
nobody back to an order and unsays nothing. An operator that closes an order, or ends a
request and offers the order on, or offers it, has a lemma that its effect on that one order is
`Close`, `PassOn`, `GiveBack`, `Place`, `Refuse` or `Accept`, and a step of a handler or of the pass
that is not one of these leaves every face the same (`UnseenConforms`). What made it work is
`Settled`: the driver of an order is chosen among the entries that hold it, and the
abstract state is well-defined only because there is one.

`PromisesHold`: the abstract specification implies that no driver has two orders and no
driver works on an order it said no to (it needs that an order asked for or taken is with
somebody, `WithSomeDriver`). `QueueKeepsPromises` puts the two together: both hold in every
state of the queue, for any numbers.

**TransactionsProofs.** `TypeCorrect`; `ComeBack`: a connection that is out belongs to
a call that has not finished; `Complete`: until a deadlock, a call that returned has
every write committed; `Nothing`: until a deadlock, a call that threw before its timer
left nothing. The invariant is `TypeOK /\ Named /\ Kept /\ (~deadlocked => Clean)`:
connections are named by the calls that hold them, writes are kept in the session
they were made in, and, without a deadlock, no two calls hold a connection
(`Exclusive`), a failing call has its transaction open until it rolls back
(`Failing`), what a running call wrote is in its session or committed (`Written`), and
sessions hold writes of their own call only (`Confined`). After a deadlock the
connection of an abandoned attempt is released twice, and `Clean` is lost.

**MarketProofs.** Three layers, each under the weakest condition on what interleaves.
`MarketTypeCorrect` holds whatever interleaves; its invariant says that a row with a
status has a driver, one with a decision has an order, and a row never changes its order,
so that what a call read stays about the same order. `JobAndDecisionAgree`
(`JobIsOne`) allows the reconciliation between any two steps
(`Interleaved \subseteq {"reconciler"}`): `JobInv` says that request and decision of a row
agree (`RowsWhole`), that one call of a user or the timer is under way at most, and that
what the timer read as open still is. `OrderHasOneDriver` (`OneDriver`) and
`OrderFollowsDriver` (`JobLeadsOrder`) need `Interleaved = {}`: `MarketInv` adds that who
has an order has it alone and nobody else is even offered it (`Exclusive`; the decision
of a finished job counts, so that the order is not given out again), that the order is at
the driver's stage or withdrawn (`Leads`), and for every kind of call what it has read
that still stands (`Fits`). With the reconciliation interleaved `JobLeadsOrder` falls:
a correction compares the status of the order, and that may have gone and come back.

**ContractProofs.** For any companies, drivers, orders, requests and assignments:
`ContractTypeCorrect` (`TypeOK`), `AssignmentsNeverCollide` (`AssignmentNeverCollides`),
`AssignedStaysLive` (`AssignedIsLive`) and `NoJobIsPhantom` (`NoPhantomJob`), from
`ContractInvariant`. The three speak of two tables, requests with their decisions and
assignments, that different calls write, so the invariant says what the tables say of
each other: an assignment's request is of its driver and its order (`Linked`), a request
that was not made is empty (`Plain`), a deleted assignment is over (`DeletedIsEnded`), a
driver has one live assignment (`OneLive`), an undeleted request has a decision that was
spoken of or one refused together with the request (`Decided`), a live assignment's
decision was neither refused nor, before the answer, called off (`LiveDecided`), a decision
that holds its driver is served by an assignment (`Held`), and an engaged decision found on
an assignment not answered yet is that of a completed one (`TakenUp`: `Decide` leaves a
decision on the same order as it is). From `OneLive` on nothing is said of the
orders in `shared` and the drivers in `late`, for which section 8 says how the code loses
it; the theorems are about all the others, as the properties are.

The calls are functions from tables to tables, so the invariant is `Good(t, S, L)` of tables,
orders and drivers, and each function has a lemma that it stays good: `Upserted` for
`upsertDriverRequest` (whose conclusion, that the request found is free or on the same order,
is also what `AssignmentNeverCollides` states), `Engaging` and `AllEngaged` for
one and for several assignments, `Recalled`, `Answering`, `Advancing`, `GivingUp`,
`GivingBack`, `Driving`, `CallingOff` for the ways an assignment ends or moves on. Replacing
is the delicate one: what the new driver has in hand may be on the very order the call
is about, and then the invariant holds because two live assignments make the order
`shared` in the same step (`Joining`). TLC checked the invariant before the proof: complete
on the instance of the run, which stops where an order became shared or an answer came late
(`Regular`), and over four million states beyond. The theorems need no such constraint.

**WalletProofs.** For any users, documents, amounts, calls under way and crashes:
`WalletTypeCorrect`, `LedgerRunsOn` (`RunningTotal`), `DocumentWrittenOnce`
(`WrittenOnce`), `TransferNeverHalf` (`TransferIsWhole`), `ApprovalCredits`
(`ApprovedIsCredited`) and `JourneyChargedOnce` (`ChargedOnce`). None is inductive, because a call
computes its rows from the ledger and the document it read before. `WalletInv` adds what
each call under way has decided and still holds unless its users are in `overlapped`
(`Decided`: its rows continue the ledger, its document has no row yet, both sides of a
transfer are there and sum to nothing, an approval carries its credit, a commission is made
for a journey that has none but those an edit moved there), that overlapping calls are noted
(`Noted`: two calls meet in a user or in a document, because an edit may change whose the
document is), and who owns documents and rows (`DocsOwned`, `RowsOwned`). A second row of a
document is for users in `overlapped` and so was the first: a change of a commission's
driver within one call books for two users, but about one document (`AgainAddsNone`).

**AccountProofs.** `TypeCorrect`; `QueueSettles`: `Spec => []SettledIsCurrent`. The
strengthening says what a queued evaluation that is under way has read: as long as
nothing changed since it began, its facts are the current ones, and the queue per
user excludes a second one that could write older facts after it.
`RestoredStaysBanned`: `Spec => BanSurvivesRestore`; nothing but a restoration of
that account makes it undeleted (`OnlyRestoration`), and it looks at the bans first.

**DeliveryProofs.** `HashIsWhole` and `TrailIsKept`: if one request at a time settles
or amends (`Updating \subseteq Alone`), `Spec => []HashCovers` and `Spec => HashTrail`.
`HashCovers` is not inductive, because the hash is computed from what was read. The
invariant adds that a request that settles or amends finds photos, terms and hash of
each row as it read them, and the status too unless it became a dispute (`Unmoved`);
that a confirmed delivery is asked for no other status (`Allowed`); and that what was
read was covered. `UpdatedCovers` is the lemma on one UPDATE, `InsertedInv` and
`MarkedInv` say that submissions, disputes and deletions beside it leave `Unmoved`
alone.

**DelinquencyProofs.** `TypeCorrect`, for any number of requests at a time:
`Spec => []TypeOK`, with what a request read of a case's subject. `BansStayApart` and `EvidenceIsKept`: if requests are
served one after the other (`OneClerk`), `Spec => []OneLiveBan` and
`Spec => EvidenceStays`. `OneLiveBan` is inductive only with the fact that a request
sees what is there (`Fresh`), which is what a single clerk gives; the check of each of
the four paths to a ban then leaves no other live ban of the subject (`Clear`), and
ending or amending a ban, or time passing, adds none. Each kind of request has a lemma
that it `Keeps` types, recorded cases, bans and evidence.
`BansAreEarned`: `Spec => []BanIsEarned`, for any number of requests at a time. The code
sums the rows it links, and so does the model: `Weight` of the points `Noted` is what the rule
is looked up with and what the property weighs, so the proof needs nothing about sums. The
rules shorten as their thresholds fall, which makes the first one reached the longest
(`DaysEarned`); what is compared with it is how long the ban runs, unless an admin wrote
another expiry, and not the length recorded next to it, which an admin may rewrite by itself. The invariant adds that cases are of the past and that what a request read of
a case's date still holds (`Dated`): a request may sum points that have changed since, but
whose they are and when they were given stays, and a ban keeps what was noted with it.

Every invariant and action property of a passing run is proved. Only model-checked are the liveness
properties. Liveness under fairness and ENABLED are out of the prover's reach, as is
induction over data; the proved modules hold no recursive operator. Assumptions on
constants the proofs needed say only that the null reference is no driver, order, company or
shipper, and that there are finitely many drivers and orders. The queue's refinement and the
properties under `Orderly` are proved for calls that follow one another; what interleaving does
to them is section 8.

## 8 Where the code and its text disagree

Each can be shown with the module named, by the constants or properties named: the
definitions stand in the modules, and a configuration that lists one of them gives the
counterexample. The first one has a run, `Races`; no run is kept for the others.

*DriverQueue*

- The timer offers pending orders outside any transaction
  (`automaticTimeout.service.js:336`, `dispatch.service.js:356`): with no active connection
  the executor at `dispatch-offer.service.js:388` is the pool, the lock of `:523` ends with
  its statement, and what follows looks at neither order nor entry again. In `Races` the
  pass has found a driver for an order, that driver checks in again and names another
  shipper, a second driver checks in and is offered the order, and then the pass offers it
  to the first one too (`OneHolder`), against `docs/testing/queue-process-test-plan.md:33`
  and TQ-42 at `:640`, "one `DriverQueue` entry `offered` linked to O". An order that was
  accepted meanwhile is offered on in the same way (`AcceptedIsNotReoffered`).
- The decision is accepted in one transaction, the entry is written afterwards; if
  the pass moves the order on in between, the driver is told 409 and keeps an accepted
  decision without entry or yard number (`AcceptedIsStamped`; accept with expiry,
  concurrent). When the process ends in between, the entry stays requested
  (`OfferEnds`; accept with restart).
- After an accept `releaseNotSelectedBidInvitees` (`actionAcceptShipperRequest.service.js:356`)
  returns the entry of whoever else is asked to the line, in statements of its own, and takes
  an entry that says agreed for one of them (`accept-linkage.service.js:404`). When the shipper
  cancels between the lookup and the stamp of an accept, the stamp marks an entry agreed on the
  closed order; the driver checks in again, is offered the order by a manual dispatch while the
  call goes on, and the release brings the stale entry back: the driver stands in the line twice
  (`OneLineEntry`; accept, shipperCancel and dispatch). `Line` and `DriverStandsOnce`
  have calls one after the other without dispatch, or no accepts.
- The yard number is read and written in autocommit, so two accepts can get the same
  one (`LoadingNumbersUnique`; accept, concurrent); the lock its comment relies on is
  gone with its statement.
- Cancelling an order leaves decisions past the acceptance alone, and the next loading
  stage makes the order active again (`ClosedOrderStaysClosed`; loading with
  shipperCancel).
- In the pass the row lock of the choice ends with its statement; a driver that checks
  out in between has the closed row set to requested.
- The FIFO query has three placeholders for a list of five statuses; the values after
  them shift, and the shipper that should put reserved drivers first is not the one
  compared with.
- An order kept by a driver that did not answer and offered on by the re-dispatch
  leaves that driver a request no entry carries, as does removing such an entry
  (`RequestHasHolder`; expiry with rescan or remove).
- A manual dispatch of an order that is with a driver binds it twice (`OneHolder`;
  dispatch), one of a closed order reopens it (`ClosedOrderStaysClosed`).
- The pass offers an order on while it is being accepted (`AcceptedIsNotReoffered`;
  accept with expiry, concurrent). The reconciliation beside an accept breaks
  `OneHolder`; dispatch, checkout and removal beside a cancellation break
  `ClosedOrderStaysClosed`.
- A supervisor can give two entries one number (override); a decline of an accepted
  driver by the shipper and a cancellation on the driver's behalf leave the entry bound
  (`JobMirrorsJourney`; shipperReject, adminCancel).

*Transactions*

- `DatabaseTransaction.js:22-23` says that if any operation fails all changes are
  rolled back. After the timeout the callback goes on: its statements autocommit on the
  connection that was given back, or land in the transaction of the call that got it
  (`FailureLeavesNothing`).
- The `continue` in the catch block runs the `finally`: after a deadlock the connection
  is released at `:141` and again at `:187`, after the backoff, when another call may
  have it.

*Market* (the first with `Interleaved` set)

- A timeout that read its list before the driver answered writes "no answer" over the
  answer (`actionNoAnswerFromDriver.service.js:138`, `:152`); two accepts, or an accept
  beside a withdrawal, write what they read before the transaction
  (`actionAccept.service.js:138`); a correction compares a status that went and came
  back (`reconcileStatus.service.js:151`).
- Choosing an offer un-selects the drivers of the same shipper's other orders
  (`actionAccept.service.js:116`).
- Rejecting an offer that is over sets the order to waiting and commits before the
  error is raised (`actionReject.service.js:88`, `:113`).
- After the last driver cancelled, the order keeps its status until the reconciliation,
  though `actionCancelDriverRequest.service.js:213` says it goes to waiting; one "no
  answer" of several sets the order to 16 though `actionNoAnswerFromDriver.service.js:118`
  says it is left unchanged.
- A duplicate insert in `executeStatusUpdates` (`DriverRequest/helpers.js:154-167`) asks
  with another order's decision; the test of a batch refusal at
  `matching.service.js:243` reads an array of rows and never holds.
- `ListOfSeedData.js:778` says a supporting decision evidences a live request; an ended
  request keeps one (`DecisionIsLive`).

*Wallet*

- Deleting an approved deposit passes the kind "reversal" to a function that does not
  read it (`UserBalance.post.service.js:27`), the row is taken for a repeated creation,
  and the credit stays, although `UserDeposit/delete.service.js:44-46` says "The debit is
  no longer swallowed" (`DeletedIsReversed`).
- Two calls of one user read the same last row, and one of the two movements is lost
  (`UserBalance.post.service.js:49`; `appWorkflow.md:808` describes the running total);
  two approvals of one deposit both credit, two completions both charge, two requests
  both get the free plan.
- An admin's edit of a commission may name another journey (`Validations/Commission.schema.js:25`,
  `Commission.service.js:369-372`) and looks for no other commission of it: two live
  commissions of one journey after a single call (`ChargedOnce` excepts the ones in `moved`). The
  comment there says "when amount or driver changes: reverse old, deduct new", and the calls
  that follow name the old driver and the new one; but `prepareAndCreateNewBalance` drops the kind, so
  that a commission already in the ledger is taken for a repeated creation and nothing is booked:
  the charge stays with the old driver.
- An edit of a deposit may change its owner, one of a refund its amount and owner, and what is
  booked with it is the amount and the owner of before (`UserDeposit/update.service.js:60-63`,
  `UserRefund.service.js:237-252`).
- The webhook's status is written outside the transaction of the credit: a crash between
  leaves a completed payment without credit, the redelivery is skipped
  (`UserDeposit/payment.service.js:162`), and the gateway is always answered 200.
- A wallet in debt refuses a credit larger than its debt as an overflow (`:67`); editing
  a deposit that is not approved books the old amount as a debit
  (`UserDeposit/update.service.js:104-125`); the approval of a refund does not look at the
  balance (`UserRefund.service.js:244`); an error in reading the balance counts as zero
  (`:55`); the rejection of a refund writes columns the schema does not have (`:255`).

*Contract*

- `updateBidStatus` does not look at the bid's status (`bidUpdate.service.js:168`); with
  all orders taken the bid is accepted and the losers are not rejected (`:314`);
  dismissing any bid puts all orders of the batch back to waiting, delivered ones
  included (`:393`); a deleted bid blocks another one (`18_company_bidding.js:67`).
- Replacing an assignment the driver ended does not ask whether its order was given to
  somebody else: two live assignments, against `18_company_bidding.js:82-83` (`shared`).
- An answer is taken whatever became of the assignment (`late`); a completed order that
  is assigned again finds its decision completed.
- A batch is cancelled orders first; the statements after that select by the order's
  status and find nothing, although `cancelBatch.service.js:17` says all open decisions
  are closed (`CancelledBatchIsClosed`); a partial cancellation leaves confirmed
  assignments (`partialCancelBatch.service.js:158-164`).
- Offers released through the pool stay released when the confirmation rolls back
  (`actionReleaseConflictingOffers.service.js:45`); a completion marks every assignment
  of the order completed (`JourneyStatus/update.service.js:486`).
- `actionCancel.service.js:230` sets an assignment to "cancelled", which the ENUM does not
  have.

*Account*

- A review schedules its evaluation before its COMMIT (`AttachedDocuments/update.service.js:356`),
  so it may read the old documents, although `:41-46` says the queue "guarantees the final
  recalc runs against the committed, final document state". Such an evaluation does not
  count in `SettledIsCurrent`.
- The restart of the process loses queued evaluations; a fetch evaluates outside the
  queue and may write older facts.
- Deleting an account writes no history (`User/manage/delete.service.js:102`), though
  `restore.service.js:17` restores "the last real status the role had before deletion".
- The evaluation reads `banData?.isBanned` from an array of rows
  (`accountStatus.service.js:446`, `BannedUsers.service.js:275-278`), so the rung
  "Priority 1: Banned (6) — always applies" (`:445`, `appWorkflow.md:494`) never holds and
  the next fetch of a banned driver's account sets another status (`BannedIsBlocked`; one
  driver, one ban). `RoleDocumentRequirements/requirements.service.js:185` reads it the
  same way.
- The rung of the expired grace period is not reached (`accountStatus.service.js:471-478`,
  `appWorkflow.md:498`). Lifting a ban does not ask whose ban it is; deactivating one
  leaves the status; an automatic ban does not set it; editing a ban can revive an
  expired one.

*Delivery*

- At the settlement the hash is over the drawing that was sent
  (`update.service.js:194`, `:319`), the column keeps the file it was uploaded to (`:275`),
  and the admin's tool recomputes from the column, although `signature.service.js:14` says
  the hash input is "exactly what the admin verification tool recomputes"
  (`SettledVerifies`, which fails on the instance of the run).
- A request with nothing but the status CONFIRMED on a confirmed record rewrites the time
  of the confirmation and empties the statement, without a new hash; an admin's amendment
  with that status hashes the old time and stores the new one.
- The journey's driver may settle a disputed delivery (`update.service.js:153`); the
  comment at `:31` says admin only.
- With `Alone` empty, two updates that read the same row each leave the other out of the
  hash (`HashCovers`) and one hash is lost (`HashTrail`). A settlement that read PENDING
  overwrites a dispute that was committed meanwhile.
- A repeated submission reads the existing record in the snapshot of its transaction: if
  that began before the other's commit, it finds none and answers 409, though
  `create.service.js:181-183` says retries never error. The count of failed one-time codes
  (`otp.service.js:86-93`) is rolled back with the call that failed.

*Delinquency*

- The ban at a report looks for a ban with `isActive` and not at its end
  (`UserDelinquency/ban.service.js:74-89`), and only admins clear `isActive`. After a first
  3-day ban the second offence gets none, although `CommissionEvasion.service.js:13-16`
  and `Utils/ListOfSeedData.js:1226` promise 30 days (`ReportedIsBanned`; the
  instance of `Delinquency` with cases of 25 points and four requests).
- The duplicate check of a report compares a message with "success"
  (`UserDelinquency/create.service.js:119`), which the list it reads never says, so it
  refuses nothing (`:24` says it does; `NoTwin`).
- `recordStatusChange` ignores the previous status it is given and reads the one after the
  update (`Utils/CompanyProfileHistory.js:82`, `:66`), so the history of a company goes
  from approved to approved (`PreviousIsNamed`).
- Two admins who rule on a case at once both find it undecided
  (`AdminDecisionOnDelinquency.service.js:80`), though `docs/DelinquencyLifecycle.js:182`
  says "One decision per delinquency (duplicates blocked)" (`OneDecision`); a ruling
  beside an admin's ban gives two bans (`OneLiveBan`), and a deletion beside a ruling
  removes a case that carries a ban (`EvidenceStays`; all with two clerks).
- `updateBannedUser` writes the length and the end of a ban apart
  (`BannedUsers.service.js:302-309`), whichever the request gives, so that the length on record
  may be another than the time the ban runs.
- A report bans by itself (`UserDelinquency/create.service.js:158`), though
  `16_delinquency.js:114-115` and `:37` have a ban follow a ruling.
- The duplicate window of company cases, `INTERVAL 0.24 HOUR`
  (`CompanyDelinquency.service.js:88`), is rounded to no time; `:94` says about 14 minutes.
- A ruling does not ask whether the case was deleted; `REDUCED` may raise the points
  (`18_company_bidding.js:307`); `EXONERATED` and a retracted ruling leave the ban; a user's
  case can be deleted while a ban rests on it; an admin's ban of a company may name
  another's case.
- `responseDeadline` of users is never set, though `16_delinquency.js:58` says it is.

## 9 Not modelled

`PROJECT.json` "components" lists every part with its reason, "partly" saying what is
left out. In short: signing in, sessions and one-time passwords; organisations' approval; vehicles and owners; prices,
ratings, lookups and reports; bids on orders of the queue with the linkage of the winner
to its entry (`accept-linkage.service.js`); the gate of the yard; dates of subscriptions;
notifications; the HTTP layer.

The repository has some 133,000 lines of JavaScript in 808 files. Most of them have no
protocol of their own: routes with their API descriptions, seed data, table management,
end-to-end tests, validation, queries for screens, notices. The definitions stand for the
handlers that write the state above, about a tenth of the lines. A larger share would
mean modelling lookups and record keeping, where a model could only repeat a query, so
the project stays with the parts where orders of events matter.

## 10 What could come next

1. Bids on queue orders with the linkage of the winner and the return of yard numbers;
   the gate of the yard.
2. `Contract`: the prices and the dates of bids; bulk assignment.
3. One-time passwords with their windows and caps.
