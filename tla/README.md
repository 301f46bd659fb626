# Verification of iag-procurement

TLA+ models of the procurement service, their TLC configurations and TLAPS
proofs. `PROJECT.json` maps every definition to the source lines it models and
lists runs, mutants, hazards, findings and theorems.

Run a configuration with `tlc -config <name>.cfg <module>` (the module is in
`PROJECT.json`), check proofs with `tlapm <module>Proofs.tla`.

## 1. The system

The service is several identical processes over one PostgreSQL database, with
Kafka on both sides and Redis in front of its read model.

| component | state | operations | interacts with |
|---|---|---|---|
| budget ledger (`internal/repo`) | `budgets` and the flags of requisitions, orders and receipts that say which amount sits in which stage | create, edit, delete; approve, refuse; raise, cancel an order; post, un-post a receipt; close a period | every approval engine, the outbox (same transaction) |
| tiered approval (`requisition_approval.go`) | `requisition_approvals` | sign a band, refuse | ledger, desk chain (through the status) |
| desk-chain approval (`approvalchain`, `requisition_desk_chain.go`) | `requisition_approval_state`, `_steps`, `_desks`; an engine cached in every process | open, submit, advance, reject, amend, cancel, reopen; re-cut, delete, reload the matrix; the work queue | ledger, through the requisition's lock |
| sourcing, orders, receipts, invoices, payments | a table each, `open_pos` on the supplier | quote, award, order, approve, receive, inspect, match, clear, pay | ledger, finance (by event, both ways) |
| vendor master (`vendor_sync.go`, `scm_sync.go`, `vendor_quality.go`) | `vendors` | create, edit, delete; sync a party, link a portal user, apply advice | supply chain, finance, quality (by event) |
| consumers (`internal/consumer`) | `processed_events`, the rows they import, the group's offset | fetch, handle, retry, dead-letter, commit | Kafka, everything above |
| outbox (`internal/outbox`) | `procurement_event_outbox` | enqueue, claim under a lease, dispatch, mark | Kafka |
| cached read model (`seed.go`, `redis.go`) | one Redis entry | load on a miss, store, drop after a write, expire | every write handler |
| items, contracts; HTTP, authentication, RBAC, notifications, migrations | section 6 | | |

What is hard: a budget has three stages kept by eleven statements in five
files, reached through two approval engines; many transactions decide on
unlocked reads under READ COMMITTED; a request is approved while its total, the
desk matrix and the cached engine change under it; documents that were matched
or approved stay editable; events arrive late, twice, out of order, at two
processes; publishers, consumers and readers crash and race between commits.

What makes each part correct: the ledger's stages equal what its rows say and
stay under the allocation; a request is approved by everyone its amount calls
for, each another person, and its outcome is announced; what is paid was
ordered, received, released and charged alike; a party has one vendor row; an
event committed with its domain change reaches Kafka and an inbound message has
its effect exactly once; the read model is stale only for a reason.

## 2. Modules

### BudgetLedger

One variable per table (`budgets`, `reqs`, `pos`, `grns`), one action per
repository operation, plus `tx` for a transaction that stands between an
unlocked read and its commit (`DeleteRequisition`, `CreateGrn`, `DeleteGrn`;
one such transaction at a time). Transactions that lock what they decide on,
with `FOR UPDATE` or an earlier `UPDATE`, are single steps. Each `UPDATE
budgets` is an operator on a budget row that computes `remaining` the way its
SET clause does. Money is an integer number of cents. Statuses are collapsed to
the classes the code tells apart. Left out: received quantities and the cleared
status they select (`recomputePOReceiptStatus` stays within one class and skips
draft, pending, rejected and cancelled orders), the QC hold (ProcureToPay),
audit rows, the event an approval enqueues (Outbox). `ImportRequisition` stands
for all importing consumers; an import may arrive already approved, with
nothing reserved.

**Liberties.** The service accepts calls after which the stages no longer equal
the rows. They are part of the model, each under a name; a run lists the ones
its clients take:

| liberty | what it does to the reconciliation |
|---|---|
| `editRequisition` | total or budget changed after the reservation: the release differs from what was reserved |
| `mixEngines` | tier endpoints on a requisition on a desk chain, or a chain opened on a decided one: one engine's outcome overwrites the other's |
| `relinkOrder` | an order moved to another budget releases and recognises on the new one |
| `deleteReceived` | recognised spend stays booked with no order |
| `repointReceipt` | a recognised receipt reverses on another order |
| `reallocate` | an allocation lowered below what is committed and spent |
| `race` | another transaction commits between the two steps of `tx` |

Closing a period with `lapse` breaks it too (`Policies`). `RemainingIdentity`,
`NonNegativeStages` and `ReferencesHold` are checked with all of them but
`race`, and proved with all of them; the reconciliations without, which says
exactly to which clients they are promised. `ledger_race` takes `race` for
orders and receipts. Section 4 names the liberties each reconciliation is proved
without, which are fewer than the runs leave out.

The order's status is tested where the code tests it: by `CreateGrn` in an
unlocked read (`CreateGrnAssert`), by `UpdateGrn` and `DeleteGrn` never. So a
receipt may be recognised or reversed on an order that holds no encumbrance,
because the order was cancelled meanwhile or before. Recognising then takes from
`committed` what other orders hold there, reversing adds what no order holds.
`adrift`, a history variable no guard reads, records the budgets this, or a
lapse, happened to; `CommittedReconciles` and `HardCeiling` are about the
others, `SpentReconciles` about all.

### TierApproval and Decision

One requisition, its band signatures, and everything else that writes its
status: PATCH, an order, and the desk chain as BudgetLedger sees it. `Decision`
is the abstract promise (migrations/018): every level the amount reaches
signed, lowest first, by distinct people, never by the requester. The mapping
takes `status` and the mechanism that decided last to Decision's outcome, the
bands of the total to the levels asked for, and the approved rows to the
signatures. Statuses the tiers did not produce are "out" of their hands or
"open". Decision's `Confirm` is part of the promise because signatures survive
a refusal, a reopening and an edit of the total: any free person may then
approve with nothing left to sign. Callers without an e-mail (`Nobody`) never
match in the separation-of-duties test, here as in the code.

### DeskChain

One requisition on a chain: its total, its state and history, the matrix, the
engine each process has cached, a re-cut between its count and its write, and a
history variable `route`, the definitions that moved the request in this
attempt. `applyDeskTransition` is the common part (rebase, transition, store);
the routes of `handlers/requisition_desk_chain.go` are the disjuncts of Next,
over the engine's transitions. Role patterns and scopes are the constants
`Staff` and `Permitted`. The desk endpoints take the caller's e-mail from the
token, which may carry none: `Blank`. Such a caller may not open or submit a
chain (the routes refuse it) but may sign, and like the identity "system" it is
exempt from the rule against repeated signatures (`isSystemActor`).
`loadDeskChains` sets none of AllowAutoApprove,
NoSuccessiveApprover and AllowRequester, so their branches are absent.
`Actionable` is the work queue's filter.

### ProcureToPay

The documents after an approved requisition: RFQs, quotes, the award, orders,
receipts with their quality hold, invoices with the three-way match, payments.
One variable per table, the routes as disjuncts of Next. A transaction that
decides on an unlocked read is two steps with what it read in `tx`: creating an
order (the supplier's standing), awarding (the RFQ's status), approving an
invoice (order and receipts). The unlocked reads of the receipt transactions
bear on money only and are BudgetLedger's. Finance is
external: it books an approved invoice under its id or its number (`ap`) and
reports settlements, which may be delivered again. A settlement without a
payment reference is recorded under a new number at each delivery; `PayRefs`
are finance's references and those numbers, and bound both.

A **world** fixes the ids, amounts and liberties of one question; Init chooses
one. Properties name the liberties that excuse them:

| liberty | what the service accepts | excuses |
|---|---|---|
| `race` | a commit between another transaction's read and its write | OneOrderPerAward, ClearedIsMatched, OrdersRespectSuspension |
| `reopenRfq` | PATCH takes an awarded RFQ back | OneOrderPerAward |
| `awardSuspended` | `AwardRfq` does not look at the suspension | OrdersRespectSuspension |
| `issue`, `editOrder` | the creator writes "ordered" itself, or reprices after the approval | ClearedWasApproved, ClearedIsMatched |
| `editReceipt`, `looseReceipt` | a matched receipt is un-posted or moved; the status "Received" carries no hold | ClearedIsMatched |
| `editCleared`, `repointInvoice` | an approved invoice's amount or order is edited; a re-match keeps the receipt an earlier one stored (COALESCE) | ClearedIsMatched |
| `bareSettlement` | a settlement without a payment reference pays at every delivery | nothing |
| `reidentify`, `sharedNumber` | an invoice is renumbered or deleted after approval; two invoices carry one number | SettlementLands |

`OpenPosCountsOrders`, `PostedWasReleased` and `PaidByPayment` have no excuse.

### VendorMaster

The vendor rows' identity under the vendor endpoints and three consumers, each
statement a step, any process taking any message at any time. `doubled` and
`orphaned` are history: parties the service can give two rows, and parties
whose deletion it can fail to announce, with the cause recorded where it
happens. A party minted here is announced to the other services, so from then
on (`Known`) it may come back in any message, under any code. Advice without a
timestamp is dated by the consumer's clock (`Stamped`). Since migration 027 made `vendors.id` a uuid, PostgreSQL refuses the
comparison `id = $2` with text in SyncSCMParty and LinkPortalUser; the
statements are modelled as they read, with the refusal as one outcome.

### Outbox

Rows, publishers with what they have claimed and what they have in hand to
mark, messages per row in the topic. Time is `Tick`: a row's `available_at` may
pass at any moment, also under a publisher that still holds the row, because
the lease is one second and a batch is 32 sequential writes. `excuses` counts,
per row, lost marks, lost acknowledgements and leases overrun. `backoffFor` has
the width of Go's integers: 2^a seconds in nanoseconds leave int64 at a = 34;
for a = 34-36, 38-40, 43, 44, 46, 48, 49, 52 and 54 the delay is negative, from
55 on it is zero, and neither is caught by the cap, so the row is due at once.

### TopicConsumer

A partition and the processes of a consumer group. A handler is three commits
(look-up, row, record) and the offset a fourth; after a rebalance both
processes finish the message they hold. The partition names its consumer:
commercial (five attempts, dead-letter topic), finance (one attempt, left
uncommitted), operations and fleet (the same, without `processed_events`). What
each handler does with a flawed message is a table per handler. Kafka's reader
is modelled from its use: it starts at the committed offset and goes on from
the last message fetched. Settlements here carry a payment reference; those
without one are ProcureToPay's subject.

### SeedCache

The Redis entry, the readers between their miss and their SET, the write
handlers between their commit and their DEL. A table's contents are the number
of transactions that wrote it. `missed` is history: tables whose change nobody
will tell a snapshot of any more.

### How they compose

ProcureToPay and TierApproval see the ledger as transactions that may roll
back; BudgetLedger and TierApproval see the desk chain as its moves between
moving and terminal states; TopicConsumer's rows are BudgetLedger's
`ImportRequisition` and ProcureToPay's `handlePaymentMade`; everything that
announces a change writes an Outbox row in its own transaction.

## 3. Runs

| run | result | shows |
|---|---|---|
| `ledger_full` | pass | every accepted call in any order: remaining identity, signs, foreign keys |
| `ledger_reservations` | pass | two requisitions, two orders: pre_committed equals the rows, the ceiling holds |
| `ledger_race` | pass | an order, two receipts, commits between read and write, a cancellation under a receipt among them: spent equals orders and receipts, committed equals orders on every budget not adrift |
| `tier_approval` | pass | the tiers implement Decision; what was last announced is what was decided |
| `desk_chain` | pass | seeded requisition chain: every engaged desk signs, one signature per named person, the queue shows whoever can act, reopening where refused |
| `desk_raised` | violation | `Rebase` skips a banded desk that a raised total puts behind the cursor |
| `procure_to_pay` | pass | eight properties and the types, from quotation to payment, in twelve worlds |
| `vendor_master` | pass | when a party gets two rows, one minted here included, who hears of a deletion, old advice never rolls back newer |
| `seed_cache` | pass | a stale table has one of the known causes; the snapshot catches up |
| `outbox` | pass | no event lost, duplicates excused, every event retired |
| `consumers` | pass | one row per key, only failures seen are skipped, recorded events have their row, everything settled or left |
| `consumer_finance` | violation | a failed settlement is passed over by the next commit |

Each violation is a finding in `PROJECT.json`, quoting the comment it
contradicts.

`desk_chain` uses the shape of the seeded `requisition` chain, where the bands
grow towards the end: there `Rebase` keeps its promise. `desk_raised` uses the
shape of the seeded `material.procurement` chain, where unbanded desks follow
the General Manager: there it does not. `SignedByEveryDesk` and
`SeparationOfDuties` are stated for attempts routed by one definition, because
after a re-cut under a request there is no single set of desks to speak of.

### Bounds

* Ledger: one budget (its rows never interact across budgets except through
  `relinkOrder` and edits, which the proofs cover), two requisitions and two
  orders so that siblings compete for one reservation and one ceiling, or two
  receipts so that partial receipts and reversals interleave. Amounts of 0 to 3
  reach zero, exact fit, one over, and the floor. `MaxMoney` bounds the two
  columns that un-posting can grow without a ceiling. Row ids are used once;
  rows are interchangeable, so symmetry is sound.
* Tiers: three bands, three people and one without a name, one of them the
  requester, two holding two bands each; a total for each number of bands.
* Desk chain: a named person, a super user and a token without an e-mail, which
  holds two desks in a row; three desks, one band,
  two totals on either side of it, two processes, five steps of history: enough
  for submit, sign, amend, resubmit, sign, and for reject and reopen. About a
  million states.
* Procure to pay: at most two of a kind of document where two interact, two
  sessions, amounts on either side of the threshold and apart by more than the
  tolerance. About a million states over the worlds.
* Vendors: two rows and the one the party sync names, one party of another
  service and those minted here, one code, two loops, up to four messages per
  inbox, two failures, a clock that reads before or after the dated advice.
* Cache: three tables, of which one handler writes two and a consumer the
  third, two readers, two handlers, three transactions, one failure: a reader
  is overtaken between any two of its queries.
* Outbox: two rows, two publishers, two faults. Every fault kind, and each pair
  of them, happens.
* Consumers: six partitions of three or four messages, two processes, four
  faults. A message that never decodes exhausts the five attempts without one.

Deadlock is checked for the chains, the tiers, the documents and the cache,
where some call is always possible. The other systems may stop: row ids run
out, or all messages are handled.

### Fairness

* Outbox: weak fairness of each publisher's loop (`Run` re-arms its timer after
  every drain, failed or not) and of time passing. Faults are finitely many.
* Consumers: weak fairness of each process's loop. Crashes and rebalances are
  bounded, not fair.
* Cache: a request once started ends, answered or failed, and a lifetime ends.
  Writes are bounded: `EventuallyCurrent` speaks of the time after the last.

The ledger, the approvals and the documents wait for people, and carry none.

## 4. Proofs

Every invariant and every action or refinement property of a passing run is
proved by TLAPS, for every value of the constants: any number of rows, people,
processes and messages, any amounts, any worlds and faults. The constants'
assumptions stand in the modules and TLC evaluates them in every run. Where a
theorem has a hypothesis beyond them, it is given below.

### BudgetLedgerProofs

`LedgerTypes`, `LedgerIdentity` (RemainingIdentity) and `LedgerStages`
(NonNegativeStages) come from `LedgerInvariant`. The inductive invariant
`LedgerInv` joins the three, because the identity is arithmetic on typed columns
and the signs decide what flooring does. A lemma per UPDATE statement shows that
it keeps a row sound, `OnBudget` lifts it to the table, one lemma per operation
composes them. `ReferencesStand` (ReferencesHold) needs `LedgerInv` only: an
edit sees the budget and the requisition it is about to name, and a delete
clears or refuses what names it.

The reconciliations equate a column with a sum over rows. The proofs first show
that `SumOver` is a sum (adding, dropping and changing one row), by induction on
finite sets stated with sets instead of predicates: the least number of elements
for which it would fail. `StepKinds` then reduces every operation to what it
does to the sums (nothing, reserve, release, encumber, recognise, reverse...), so
that the sums are followed per kind of change and not per operation.

| theorem | inductive invariant | hypothesis |
|---|---|---|
| `ReservationsReconcile` (PreReconciles) | `ReservedInv`: with it `LedgerInv`, `ReferencesHold`, only an approved requisition is marked reserved and only a reserved one released (`ReqOrder`), what `DeleteRequisition` has read still holds (`DeleteFresh`) | `Orderly`: no `lapse`, no `editRequisition`, `mixEngines`, `race` |
| `EncumbrancesReconcile` (CommittedReconciles) | `FirmInv`: with it `LedgerInv`, `ReferencesHold`, spend covers what orders have recognised (`BudgetSpend`), an order has recognised what its receipts store (`OrderSpend`), an encumbered order has a budget and has recognised no more than its total (`OrdersFirm`), receipts name raised orders (`ReceiptsKnown`), what the receipt transactions have read still holds (`ReceiptFresh`) | `Disciplined`: no `relinkOrder`, `repointReceipt` |
| `SpendReconciles` (SpentReconciles) | the same | `Disciplined`, no `deleteReceived` |
| `CeilingHolds` (HardCeiling) | the same with the ceiling | `Fixed`: `Disciplined`, no `reallocate`, allocations not negative |

`FirmInv` needs all its parts: a cancellation releases total less recognised
from the encumbrance, so what an order has recognised must be what its receipts
booked, or the release is floored and the two columns part. `race` is no
hypothesis, and neither is the status of the order a receipt is written for:
what a receipt transaction carries over from its unlocked read is which order it
is about, which does not change under it, and an order that has lost its
encumbrance by then puts its budget adrift. On a budget that is not adrift the
column is exact, so the ceiling test, which reads the column, is too.

TLC shows what the hypotheses are for, each liberty alone: `relinkOrder` breaks
all three; `repointReceipt` breaks CommittedReconciles and SpentReconciles (for
HardCeiling no counterexample was found, the proof goes through `FirmInv`);
`deleteReceived` breaks SpentReconciles only, `reallocate` HardCeiling only.
`PreReconciles` fails under each of the policies and liberties `Orderly` excludes.

### TierApprovalProofs

`TiersImplementDecision` is the refinement: initial states map to initial
states; a signature maps to `Sign`, an approval with nothing to sign to
`Confirm`, every other write of the status to `Elsewhere`, which may do anything
but sign or approve. `TierTypes` and `DecisionsAnnounced` (OutcomeAnnounced) come
from `TierInvariant`. Assumption: the mark for no signature is no person, the
requester is a named person.

### DeskChainProofs

The engine's list of desks is computed by a loop, so the proofs begin with what
the loop returns, by induction on its turns in set form: desks of the
definition, in its order, none twice. There are four inductive invariants:

* `Typed`, for `ChainTypes`.
* `Duties`, with `Unsigned`: an attempt not yet submitted has no signatures. It
  gives `DutiesAreSeparate`: definitions re-cut under an attempt count only if
  every one that moved it forbids repeats, which `route` remembers. Admins and
  the identities `isSystemActor` exempts are outside the claim, and only they.
* `InPlace`: a request in an attempt routed by one definition is at the desk its
  cursor names, also after the total was edited. It gives `WorkIsShown`
  (QueueShowsWork): the queue filters by the stored desk, the engine by the
  cursor.
* `Walk`: the desks before the cursor have signed, and the desk that refused is
  where the index of the refusal says. It gives `EveryDeskSigned` and
  `ReopenedWhereRefused`.

`Walk` has the hypothesis `Banded`: the bands of every matrix ascend. Then the
list for the smaller amount is a beginning of the list for the larger, so moving
the cursor by key (`Rebase`) and by index (`Reopen`) agree. It is true of the
seeded `requisition` chain. It is false of the seeded `material.procurement`
chain, for which `desk_raised` refutes `SignedByEveryDesk`; without it
`ReopensWhereRefused` fails as well. Assumption: a definition has desks, and no
key twice (`NewRegistry` refuses it, `chain.go:295`).

### OutboxProofs

`NoEventIsLost` (RetiredIsDelivered) is not inductive: a row is retired on what
the publisher remembers, so `OutboxInvariant` adds that a dispatch in hand as
successful is in the topic. `DuplicatesHaveCauses` (DuplicatesAreExcused) is a
count (`CountInv`): messages sent, plus publishers that may still send, plus one
for a row that can be claimed, never exceed one plus the excuses. `OneClaim` and
`HeldIsPresent` say that a publisher holds a row once and holds no absent one.
The back-off's overflow makes a row due early; the proofs cover every delay.

### TopicConsumerProofs

`ConsumerInvariant` carries, besides the properties, what a process knows at
each place of its handler (`Knows`) and that everything before the message in
its hands is settled or was left by a process that saw it fail (`Behind`);
without it nothing speaks of the message an offset commit is about to pass. It
gives `OneRowForAKey`, `RecordedEventsHaveRows` and `OnlyTheLeftAreSkipped`.
Assumption: messages of one event id are copies of one message, and the audit
log's keys are none of the requests'.

### VendorMasterProofs

`VendorInvariant` carries what a consumer in its handler has seen (`Knows`), that
every party in use is another service's or was announced (`Minted`: so the party
a new vendor gets is on no row and in no message under way), two rows of a party
pairwise with their cause (`Pairwise`), and that marked advice is applied
(`MarkedApplied`). It gives `PartiesHaveOneRow`, `MeshIsTold` and `AdviceIsKept`.
Assumption: the ids minted here are nobody else's ids (a new uuid), event ids
are unique, a party message has a code.

### ProcureToPayProofs

`Sound` (types, and live quotes and orders name a supplier) underlies all. First
come the footprints: which tables each handler leaves alone.

* `NothingHeldIsPosted`, `PaidOnlyByPayment` and `ClearedOrdersWereApproved` need
  `Sound` and every handler's guards; `SuspensionRespected` also `Standing`: what
  a transaction read of a supplier's standing still holds.
* `OpenPosIsCounted`: the counter changes with the set it counts, in the same
  transaction, also when an order changes its supplier.
* `AwardRaisesOneOrder`, from `Awarding`: an RFQ with an order cannot be awarded
  again, and an award in progress has no order yet.
* `ClearedStaysMatched`, from `Match`: what an approved invoice was matched with
  is there and unchanged, and an approval in progress has read what still holds.
* `SettlementsLand`, from `Settle`: a settlement's document reference was
  announced and names one invoice, the one it settled, so the look-up by id or
  number finds it. A settlement's reference is on no payment but its own; one
  without a reference takes a number no settlement has.

The excuses are in the properties, per world, and are no hypotheses here.
Assumption: identifiers and numbers are apart.

### SeedCacheProofs

`CacheTypes` and `CacheStaleness` (StaleIsExcused), from `CacheInvariant`. A
reader between its queries and its SET carries a snapshot of its own, so the
invariant says the same of every snapshot being read (`LoadingIsExcused`).

### Only model-checked

`EventuallyRetired`, `EventuallySettled` and `EventuallyCurrent`: liveness under
fairness is out of the prover's reach. The properties of the two violation runs
are false and have no theorem.

## 5. Observations

What the models carry and no run reports as a violation, because nothing
written promises otherwise or because a liberty names it:

* An order raised at 0 is never encumbered (`requisition_outcome.go:132` returns),
  and a later PATCH of its lines does not encumber it either
  (`procurement_update_delete_more.go:785`), so its receipts book spend that
  nothing covers and that may pass the ceiling.
* An approval that commits under `DeleteRequisition`'s unlocked read
  (`procurement_update_delete.go:304`) leaves a reservation nobody owns;
  `DeleteVendor` (line 119 there) reads the party the same way.
* A cancellation that commits between `CreateGrn`'s unlocked read
  (`requisition_outcome.go:229`) and its commit, or under `DeleteGrn`, which
  never looks at the order (`procurement_update_delete_more.go:1085-1126`),
  leaves the budget adrift: the encumbrance of another order consumed, or one
  without an order. `README.md:41-43` of the service promises receipts against
  cleared orders only and encumbrances released with their orders.
* `UpdateGrn` posts a draft receipt without looking at its order
  (`procurement_update_delete_more.go:946`), and enqueues the posted event at
  every PATCH of a posted receipt.
* A request whose desk an edited total drops can be neither advanced, returned,
  rejected nor cancelled until the total is edited back
  (`requisition_desk_chain.go:576`).
* `Actionable` shows a request also to people without the permission, or who
  signed before; it misses nobody who can act (`QueueShowsWork`).
* `ApproveRequisitionTier` never looks at the desk chain, and `OpenDeskChain`
  counts signatures without a lock, so both mechanisms can decide one
  requisition although migrations/020 means one or the other.
* A person who holds the only permission of two bands blocks the approval.
* `config.go:92-97` says RequireTieredApproval = false keeps the flat PATCH
  path; `UpdateRequisition` refuses a decision either way.
* A cancelled or draft RFQ can be awarded. A variance resolution never makes
  an invoice approvable.
* A caller whose token has no e-mail may sign every desk it holds, also under
  NoRepeatApprover: intended for automated advances (`chain.go:100-101`), and
  the handlers pass a person's missing e-mail just the same.
* A settlement without a payment reference is recorded, and marks its invoice
  paid, at every delivery (`payment_writeback.go:61-63`). `payment_writeback.go:46` compares a uuid with text, as above.
* `supplychain.go` and `vendorsync.go` mark an event before applying it, so a
  failure in between loses it; `quality.go` applies first. Its comment that a
  failed message "comes back" holds only after a restart.
* Advice without a timestamp is dated anew at each delivery
  (`quality.go:89-92`), so redelivered it replaces newer advice, which
  `vendor_quality.go:88-89` says a redelivered message cannot.
* Operations and fleet import requests without an amount, which the commercial
  consumer refuses; a low-stock signal is logged at every delivery.
* `seed.Load` is not one transaction, so a snapshot may mix two moments, and
  the consumers never drop it.

## 6. Not modelled

Items and contracts are single-row create, update and delete with no rule
between two rows. HTTP decoding, tokens and permission look-ups appear as
constants (`Permitted`, `Staff`, `Holders`); each RBAC mutation is one
independent transaction. Notifications and in-process signals are best effort
after the commit and read by nothing here. `migrate.Up` is one transaction
under an advisory lock. Row locks are not state: a lock-order cycle
(`DeleteRequisition` takes the budget first) ends in PostgreSQL aborting one
transaction, which is a rollback. The order of the outbox's events, which
migrations/027 keeps a bigint key for, is not modelled: a failed or leased row
goes after later ones. Labels and progress of the approval presentation are views.

## 7. Plan

Done: all modules of section 2, their runs, and the theorems of section 4. Left:

1. An abstract specification of the outbox (a set of committed events, each
   published at least once) and of the consumers (a set of events, each applied
   at most once, in any order), with the refinements proved; then their
   composition.
2. A property for the draft receipt that PATCH posts, and for the request whose
   desk an edited total drops (section 5), the two hazards without one that a
   model here could state.
3. `PreReconciles` with `race` for requisitions that `DeleteRequisition` does not
   touch, which the proof excludes wholesale.
