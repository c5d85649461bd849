# A formal model of Proof of Alpha

Proof of Alpha receives signed intents from trading agents, executes them on
simulated capital through a durable job queue, follows cross-chain transfers,
keeps exact accounts, and anchors an audit trail of everything on a chain. This
directory holds TLA+ modules translated from that code, TLC runs over small
instances, and TLAPS proofs for every size. Paths are relative to the
repository root; `m3.ts`, `m5.ts`, `m6.ts` and `operations.ts` are in
`packages/storage/src/`.

    tlc -workers 2 -config ActionExecution_one.cfg MCActionExecution
    tlc -workers 2 -config TransferQueue_pair.cfg MCTransferQueue
    tlc -workers 2 -config AuditPublication_audit.cfg MCAuditPublication
    tlc -workers 2 -config ExperimentControl_calls.cfg MCExperimentControl
    tlc -workers 2 -config ScenarioAccounting_books.cfg MCScenarioAccounting
    tlapm ActionExecutionProofs.tla
    tlapm TransferQueueProofs.tla
    tlapm AuditLogProofs.tla
    tlapm AuditPublicationProofs.tla
    tlapm ExperimentControlProofs.tla
    tlapm SumTheorems.tla
    tlapm PortfolioProofs.tla
    tlapm ScenarioAccountingProofs.tla

## 1. Inventory

All durable state is in PostgreSQL (READ COMMITTED). The processes are the HTTP
API, any number of action workers, hosts of the transfer worker function and
operator scripts. They
share nothing but the database, so every interaction is through rows: one
transaction, or one read, is the unit of interleaving everywhere below.

| Component | State | Operations | Interacts with | What is hard | What makes it correct |
|---|---|---|---|---|---|
| Action execution (`m3.ts` 626-847, 953-1276, `apps/worker/src/worker.ts`) | intents, active marker, plans, receipts, portfolio version, job, lease, attempts | acceptAction, claimJob, loadExecution, savePlan, loadPlan, applyActionReceipt, completeAction, retryJob, receiptCount | journal, incidents, portfolio, operator stop | leases without fencing, a worker function of up to ten separate transactions, crashes between any two, retries, deadlines | one pending action per scenario; effects once, in plan order; true outcomes; everything accepted is settled |
| Operator control (`operations.ts`) | experiment state, stops, incidents, request windows, heartbeats | stopExperiment, recordIncident, consumeRequest, snapshot | scenarios, audit chain | stop racing acceptance and workers | nothing an action does changes after a stop |
| Experiment control (`m3.ts` 88-495, 902-951) | agents, versions, experiments, scenarios, references, corrections | createAgent, createAgentVersion, revokeAgentVersion, createExperiment, startExperiment, createCorrection | journal, acceptance, pool | quota under concurrent starts, revocation races, a second pooled connection inside a transaction | quota respected; policy frozen at start |
| Checkpoints and references (`m3.ts` 1300-1562, `packages/experiments/src/m4.ts`) | checkpoints, reference portfolios, accruals | saveScenarioCheckpoint, applyReferenceEntry | portfolio version of the same scenario | optimistic version equality against running actions | no accrual lost or applied twice |
| Accounting reducer (`packages/accounting/src/index.ts`) | cash views, positions, allowances, receivables, costs | createPortfolio, applyReceipt | plans, transfers, checkpoints | directed rounding, conservation | net value = initial + profit - costs, exactly |
| Transfers (`packages/transfers/src/index.ts`, `m5.ts`) | transfer lifecycle, event log, transfer queue | createTransfer, applyTransferEvent; create, appendEvent, claim, retry, wakeWaiting | portfolio (reserve, in flight, credit) | event order, duplicates, closure, unguarded retry, non-atomic create | value is never minted twice; it leaves a reservation only with the lifecycle (an invalidated transfer keeps what it held) |
| Journal (`m3.ts` 497-535) | hash chain per experiment | appendEvent | every writer above | concurrent appends to one chain | contiguous, unforked |
| Audit and publication (`m6.ts`, `packages/commitments/src/index.ts`, `contracts/src/ProofOfAlphaRegistry.sol`) | audit events, batches, publications, exports, on-chain head | appendAuditObjectWith, saveEligibility, createBatch, recordPublication, publishBatch | chain registry | check-then-insert, contiguous batches, supersession | batches partition the chain; one confirmed publication |
| Evaluation and valuation (`packages/valuation`, `packages/evaluation`) | checkpoints with their evaluation | checkpointPortfolio, createScenarioCheckpoint, evaluateScenario, eligibility | checkpoints, reducer | accrual and rounding in between receipts, a failed reference | figures follow from the history of the portfolio |
| Adapters (`packages/adapters`, `packages/market-data`, `packages/execution`) | archived observations | planAllocation, erc20Approval, aaveSupply, aaveAccrue, aaveWithdraw, vaultDeposit, vaultRedeem, uniswapSwap | reducer, plans | stale observations, a price that moved between quote and booking | the receipts they build always add up |
| Diagnostics (`packages/experiments/src/m7.ts`) | scripted histories | buildDemoDiagnostic, replayDemoDiagnostic | reducer | a replay must reproduce the history receipt by receipt | same final state, duplicates without effect |
| Testnet contracts (`contracts/src/FiniteYieldVault.sol`, `TestUSDC.sol`) | tokens, shares, allowances, yield schedule | deposit, mint, withdraw, redeem, approve, freezeYieldSchedule | vault adapters | finite yield, rounding | the price of a share never falls |
| Storage foundation (`packages/storage/src/index.ts`) | schema, pool of 4 | createPool, migrate, archiveConfiguration | all | pool exhaustion | no call waits for ever |
| Schemas, domain, config, SDK, API, web | none, or only what they pass on | - | - | - | - |

`PROJECT.json` lists the hazards of this code with the line where each bites.

## 2. Plan

What is present, and which module composes which:

1. `ActionExecution` implements the abstract `FinancialAction`; proved in
   `ActionExecutionProofs`.
2. `TransferLifecycle` and `TransferLedger`, two machines composed by
   `TransferQueue`, which implements the abstract `CapitalTransfer`; proved in
   `TransferQueueProofs`.
3. `MerkleCommitment` (pure functions) under `AuditLog` (the database) and
   `ProofOfAlphaRegistry` (the contract), composed by `AuditPublication`; proved
   in `AuditLogProofs` and `AuditPublicationProofs`.
4. `ExperimentControl`: the calls around an experiment with their locks,
   connections and journal; proved in `ExperimentControlProofs`.
5. `PortfolioReducer` under `MarketAdapters`, composed with `YieldVault` by
   `ScenarioAccounting`; proved in `PortfolioProofs` (the reducer) and
   `ScenarioAccountingProofs` (adapters, vault and scenario). `SumTheorems`, about
   sums over finite sets, serves them and the transfers.

What a further step would add: timestamps of transfer events, which decide whether
an event that was refused can still be recorded; the eligibility decision as an
operator.

## 3. Modules and how they correspond to the code

### FinancialAction
What an agent may rely on, without queue, leases, workers or crashes: an
accepted action owns its scenario, takes the operations of its plan once each
and in order, and settles once with an outcome that tells the truth. `SUCCEEDED`
means all effects, `PARTIALLY_SUCCEEDED` some, `FAILED` none. `EXPIRED` promises
nothing about effects, because the code does not (section 6).

### ActionExecution
Each action is one committed transaction or one read.

| Code | Model |
|---|---|
| `acceptAction` | `Accept`. Signature, nonce, key, policy, quota and stale-version checks only refuse, and a refused request changes nothing. |
| `stopExperiment` | `Stop` |
| `saveScenarioCheckpoint`, transfer `appendEvent` | `OtherPortfolioWriter`: they move the portfolio version without looking at the active marker |
| `claimJob` (`SKIP LOCKED`, one second lease, `least(attempt+1,max)`) | `Claim`; `LeaseLapses` is the clock, independent of what the owner does |
| `loadExecution` | `LoadExecution`: the portfolio version the plan will be pinned to |
| `receiptCount`, deadline | `CountReceipts`, then `ReadClock`, then `CompleteExpired`, three separate steps as in the code |
| `loadPlan`, `prepareSyntheticM3Execution`, `savePlan` | `LoadPlan`, `Prepare`, `SavePlan` |
| `applyActionReceipt` | `ReplayReceipt`, `ApplyReceipt`, `RefuseReceipt` |
| `completeAction` | `CompleteAction`, reached by `CompleteSucceeded`, `CompleteExpired`, `CompleteRefused` |
| catch block | `RefuseReceipt` for the permanent codes, then `CountForOutcome` and `CompleteRefused`; `Fault` for any other error |
| `retryJob` | `RetryIgnored`, `RetryReleases`, `RetryExhausts` |
| process death, or an error in the catch block | `Crash`: the worker's memory is gone, the rows stay |

The data is reduced to what the control depends on: `costly[a]` (the prepared
cost exceeds the signed maximum: a function of the amount, so fixed per action)
and `refuseAt[a]`, the first receipt the reducer refuses when the plan is applied
to the portfolio it is pinned to, chosen when the plan is saved. Both are
deterministic in the code, so they do not change between attempts. Journal
appends and incident rows are written in the transactions that carry them; of
these only the EXECUTION event is counted (`settled`). A lock timeout, deadlock
victim, journal key collision or lost connection rolls its transaction back,
which is `Fault` in the try block and `Crash` in the catch block.

Definitions ending in `Mutant` are bugs the code does not have, one for each
property, used to confirm that the property would notice.

### MCActionExecution
Constants for the runs. Workers are interchangeable (`WorkerSymmetry`, used for
safety only).

### CapitalTransfer
What accounting promises of a transfer, without events, workers or queue: its
units are in exactly one place, moving from cash to a reservation, to one
receivable, to destination cash, or back from the reservation when the source
fails. Costs are paid in cash, withheld or owed; cash is never overdrawn, and all
costs together never exceed the capital.

### TransferDomain, TransferLifecycle, TransferLedger
`TransferDomain` declares transfers, messages and events. The other two are the
two state machines the code keeps for one transfer, written apart because in the
code neither reads the other:

| Code | Model |
|---|---|
| `createTransfer` | `Created` |
| `applyTransferEvent`, one branch per kind | `RecordReserved`, `RecordSourceFailed`, `RecordBurn`, `RecordAttested`, `RecordDelay`, `RecordDestinationFailed`, `RecordSettled`, `RecordInvalidated`, `RecordClosure` |
| `createPortfolio` | `LedgerInit` |
| `debitCash`, `applyCosts` | `Available`, `ApplyCosts` |
| solvency in `assertPortfolio` | `Solvent` |
| `applyReceipt`, one branch per transfer receipt | `ReserveCash`, `SourceFailed`, `Burned`, `Ready`, `Delayed`, `DestinationRetry`, `Settled` |

`deadline` is the lifecycle state whose hash closure stored. The clocks, the
evidence and the reason codes only refuse an event, and a refused event changes
nothing. A receipt carries a list of costs, added up here by funding: cash of
each balance family, payable (a relayer's charge for a destination attempt), withheld.
Payables add up in `owed`; positions, rounding and the settlement of payables belong
to `PortfolioReducer`. There is one balance family per network,
as in the deployed configuration, so that the networks of a route differ exactly
when its families do. Of `assertPortfolio`, which ends `applyReceipt`, the check that
liabilities do not exceed assets is a guard (`Solvent`), since payables can fail it;
the conservation check is none: `ValueConserved` shows that it never has anything to
refuse here.

### TransferQueue
The two machines as the database and the workers drive them; each action is one
transaction, one statement or one read.

| Code | Model |
|---|---|
| `create` | `InsertTransfer`, `InsertJob`, or `CreateInterrupted` between them: two statements, no transaction |
| `claim` (one second lease) | `Claim`, `LeaseLapses` |
| `load`, `provider.observe` | `Observe`, `NothingObserved` (`WAITING`, or the provider throws) |
| `appendEvent` | `AppendEvent` (lifecycle, portfolio, event row and job in one transaction), `AppendDuplicate`, `AppendRefused` |
| `retry` | `Retry`: no condition on the job's state, as in the code |
| process death | `Crash` |

The event provider is not part of the repository (only an interface and the
tests' fakes): it may report any kind of event with any message for the
transfer it was shown, numbered with the sequence it was shown. It answers after
any delay, so another worker may have recorded events meanwhile. Costs come with
the answer but are not part of the event's identity; they are chosen when the
event is appended. `available_at` delays are abstracted: a waiting job may be
claimed at once. `wakeWaiting` is left out, since no code sets the state
`WAITING` it looks for. Cash moved by actions and checkpoints of the same
scenario is left out; it is serialised with `appendEvent` by the row lock of the
scenario and can only change what `Available`, `ApplyCosts` and `Solvent` refuse.

### MCTransferQueue
A transfer out of 2 units, 1 of them lost to the route's fee, and one back of 1
unit. Opening cash covers both reservations exactly, so every cost can starve
something.

### MerkleCommitment, AuditLog, ProofOfAlphaRegistry
`MerkleCommitment` holds the functions of `packages/commitments`: event chain,
leaves, tree, inclusion proofs, linked batches, verification of an export. A hash
is the tagged value it is computed from, so it has no collisions; the tag is the
domain string the code prefixes. `ProofOfAlphaRegistry` is the contract for one
experiment as functions of its state.

`AuditLog` is `M6Repository` and `recordIncident`. A call is three steps, because
two advisory locks and the visibility of rows make the difference: `InsertRow` (the
row, under the lock on the object's identity), `AppendEvent` (the audit event, under
the lock of the experiment), `CommitCall` (both rows visible, both locks released).
`AbortCall` ends the transaction at any point; a call that finds its object stored
or its parent superseded changes nothing (`ReturnStored`, `RefuseParent`). `created_at` is the order of insertion, not of
commit. `createBatch` reads the events and the last batch under the same lock and
is one step.

### AuditPublication
`AuditLog` with everything that reads it:

| Code | Model |
|---|---|
| `demo-session.ts`: read, `createBatch`, replay, save | `ReadAuditEvents`, `CommitSession`, `SaveSession` |
| Arc | `Mine`, `Finalize`, `Reorg` (drops blocks that are not final; a dropped transaction is mined again), `OwnerSetsPublisher` |
| `publish-demo-session.ts` in program order | `StartRun`, `CheckHead`, `Broadcast`, `Retain`, `AwaitReceipt`, `CheckFinal`, `WritePublished`, `WriteEvidence`, `CompareEvidence`, `FindConfirmed`, `InsertReceipt`, `EndRun` |
| process death | `CrashRun`: what it retained in files stays |
| export assembly | `ExportEvents`, `SaveExport` |

Every transaction carries the calldata of the one session. The economic replay of
a session, the transfer of the contract's ownership and the read-only
verification mode of the command are left out: none of them changes this state.

### ExperimentControl
Each call is a transaction: it takes a connection of the pool (`Begin`), acquires
the locks of its statements one by one in program order (`Acquire`; `Needs` lists
them, foreign keys and advisory locks included), reads what it later uses
(`CheckRevoked`, `ReadPolicy`, `ReadHead`), and makes its writes visible with
`Commit`, whose eight alternatives are the calls. `RollBack` undoes it and the
call may come again; it stands for a unique key, a statement timeout, a deadlock
victim, a lost connection. A request the guards refuse is refused for good.
Single statements (registration, creation, revocation) are `Statement`. An event
of the journal is inserted after the row that was read as the last one
(`InsertEvent`), whoever committed in between: the primary key decides.

A portfolio is the set of its effects and its version their number. The economics
of receipts and accruals is the business of `PortfolioReducer`.

### PortfolioReducer
`applyReceipt` as a function. Every kind of receipt has an operator that answers
the portfolio it leaves, the value that withheld costs must explain, and the
reasons to refuse; costs, the check for overdraft and overflow and the record of
the receipt come after all of them, as in the code. A refused receipt leaves the
portfolio as it was. `assertPortfolio`, with which the code ends every call, is
not used to refuse anything: the run shows that no reachable portfolio violates
it, so nothing depends on that last check. A view is its balance family; views
that alias a family, decimal rescaling, provenance and source hashes are left
out. `valuePortfolio` is here too. `Fields`, `Valid`, `IsCost` and `IsReceipt` are
the schema of a receipt, which `applyReceipt` parses first; what reaches the model's
`ApplyReceipt` has that shape, so the schema refuses nothing here, and the proofs
need it as the type of a receipt.

### MarketAdapters
One operator per adapter, answering receipts or faults, with the freshness of
each observation, the age of the conversion round, gas owed and fees withheld;
and the allocation plan of an action with the dates of its steps. Receipts are
pinned to the portfolio version the adapter was shown.

### YieldVault
The calls of `FiniteYieldVault` and the token transfers they make. `TotalAssets`
excludes yield that has not vested. Holders have approved the vault for their
tokens; the unlimited share allowance, minting of test tokens after deployment
and 256-bit overflow of products are left out (amounts are small, the contract
reverts on overflow).

### ScenarioAccounting
One scenario: portfolio, references, the plan being applied, the last quote, the
last checkpoint.

| Code | Model |
|---|---|
| `prepareSyntheticM3Execution` | `PlanSupply` |
| `prepareSyntheticReferenceEntry` and the receipts `applyReferenceEntry` applies | `EnterReference` (`ReferenceEntry`, `EntryReceipts`, `ApplyAll`) |
| the other adapters | `AccruePosition`, `WithdrawPosition`, `EnterVault`, `ExitVault`, `ApproveSwap`, `SwapCash` |
| previews and limits of the vault, archived | `CaptureVault` |
| `applyReceipt` on the next receipt of a plan | `ApplyNext`: a refused one ends the plan |
| a receipt no adapter built | `Deliver` |
| `prepareSyntheticScenarioCheckpoint`, `checkpointPortfolio`, `evaluateScenario`, storage | `TakeCheckpoint` |
| `buildDemoDiagnostic` | the script a behaviour starts with, `ReplayScript` or `StressScript` |
| `replayDemoDiagnostic` | `Diagnose` |
| calls of the vault by its holders | `UseVault`, `FillVault` |

The database around these steps is that of `ExperimentControl`: here each is
atomic, and what is explored is the order of operations and their figures.

### The MC modules
Constants for the runs. Workers are interchangeable in the safety runs of
`MCActionExecution`, the two deliveries of one evaluation in
`MCAuditPublication`. `MCExperimentControl` and `MCScenarioAccounting` explore a
union of workloads: sets of calls, or operations, that meet; what the other
workloads do is independent of them.

### The proof modules
`ActionExecutionProofs`, `TransferQueueProofs`, `AuditPublicationProofs`,
`ExperimentControlProofs`, `PortfolioProofs` and `ScenarioAccountingProofs` hold the
theorems of section 5. `AuditLogProofs` holds the lemmas of the third about the log,
the batches and the Merkle tree, `SumTheorems` those about sums and sequences.

## 4. Runs

| Run | Instance | Checks | Result |
|---|---|---|---|
| `action_two` | 2 actions, 1 scenario, 2 workers, 1 receipt, 2 attempts, version <= 1 before other writers stop | TypeOK, ScenarioHeldByPending, OneEffectPerVersion, TerminalFrozen, StopIsQuiet | holds, 660 k states |
| `action_one` | 1 action, 2 workers, 3 receipts, 3 attempts, version <= 3 | JobFollowsAction, EffectsFollowPlan, OutcomeTellsEffects, SettledOnce, PlanFrozen, PromiseSpec | holds, 190 k states |
| `action_live` | 1 action, 2 workers, 2 receipts, 2 attempts, version <= 1, with fairness | AcceptedSettles | holds |
| `action_expired` | as `action_live`, safety only | ExpiredHasNoEffect | violated (section 6) |
| `transfer_pair` | 2 transfers, 2 messages, 1 worker, cash costs 0..1, payables 0..1, withheld 0..2, lifecycle bound 1, portfolio bound 2, 4 events per transfer | TypeOK, ValueConserved, MessageOwnedOnce, PromiseSpec | holds, 531 k states |
| `transfer_race` | 1 transfer, 1 message, 2 workers, bounds 2, 6 events | LedgerFollowsLifecycle, EventsContiguous, CompletedOnlyWhenFinal, OutcomeFrozen | holds, 342 k states |
| `transfer_live` | 1 transfer, 2 workers, bounds 2, 3 events, with fairness | PendingIsPolled | holds, 33 k states |
| `transfer_unqueued` | 1 transfer, 1 worker, 2 events | DurableTransferIsQueued | violated (section 6) |
| `audit` | an evaluation delivered twice, its correction and an object without a run; the evaluation twice and its correction beside 1 run of the command; 1 object beside 2 runs; 3 batch requests, 2 blocks, 1 reorg, 2 broadcasts | TypeOK, ChainVerifies, CorrectionsAreOrdered, BatchesRebuild, ProofsBindLeaves, AnchoredOnce, RecordedIsCanonical, ExportsAreComplete | holds, 159 k states |
| `publication_resume` | 1 object, 1 run, 2 blocks, no reorg, 1 broadcast, with fairness | RetainedIsRecovered | violated (section 6) |
| `calls` | 6 workloads of 5 to 7 calls, 3 connections, quotas of 1 | TypeOK, JournalIsSequence, QuotasHold, AcceptedBeforeRevoked, NothingLost, OnlyKnownStalls, RepeatsAreStored | holds, 82 k states |
| `books` | 5 workloads of 4 or 5 operations and the two scripts; capital 8, three families, uint limit 256 | PortfolioSound, BuiltReceiptsFit, CheckpointsExplained, SharePriceNeverFalls | holds, 442 k states |

Why the bounds are enough to be interesting: two workers on one job are what a
lapsed lease produces, and a third could only repeat what the second does to the
first; three attempts give a first, a middle and an exhausting one; three
receipts give a first, a middle and a last; the second action is accepted while
workers of the first still run, which is the only way two actions of a scenario
meet. `MaxVersion` bounds only the other writers, so receipts always have room.
Deadlock checking is off because the set of intents is finite: when all are
settled, all clocks have passed and the experiment is stopped, the system has
nothing left to do.

For transfers, four events take a transfer from reservation to settlement and
six add a failed mint and its retry (`MaxEvents` bounds what the provider
reports, never what `appendEvent` accepts). Two transfers contend for cash and
messages, and what one worker does to both is any interleaving of their events,
since `appendEvent` is one transaction; two workers on one transfer produce the
stale and duplicate observations. The two attempt bounds differ in
`transfer_pair` because the code takes them from two places, the route and the
portfolio. Deadlock checking is off: with all events reported and all jobs
idle, nothing remains to be done.

For `audit`, three events give a batch of one, two or three leaves, hence a level
with an odd last node. One request has the demo session's batch id, the two others
share another id, which stands for any batch that took the session's place, with two
ranges, so that an id is met again under a different range. One reorg is what the
finality check must survive, two broadcasts are what a crash before `Retain` produces.

For `calls`, each workload gathers the calls that contend for the same rows:
`Starts` for quotas (two experiments of one agent, one of another), `Intake` for
the acceptance of an envelope (twice), another one, a revocation and a correction,
`Receipts` for a portfolio version, `Entries` for a reference, `Locks` for
everything that locks an experiment, `Corrections` for three of them, which together
take the whole pool, beside a checkpoint and a stop. The pool has 3 connections where
`createPool` has 4, which is what four would show with one correction more. Calls are
made again after each rollback, without bound.

For `books`, the index scale (a checkpoint multiplies an index by 5/4), the basis
points (4 for 10 000) and the limit of an integer (256 for 2^256) are scaled so
that within five operations an index does not divide, a fee rounds up and an index
overflows. `DIRECT` delivers receipts whose figures only fit at some indexes,
and the withdrawal of part of a position at each of them. `STRESS` and `REPLAY`
are single behaviours, the scripts of the code with four days for thirty.
`MaxSteps` and `MaxTime` bound every workload. Deadlock checking is off in the
three: calls, blocks, broadcasts and operations are finite.

Fairness of `publication_resume` (`Fairness` of `AuditPublication`): the operator
starts the command again while it is not done, its steps are taken, pending
transactions are mined and blocks become final. Crashes and publisher changes that
end are assumed in the property itself (`Undisturbed`).

Fairness (`Fairness` of `ActionExecution`): each worker's next step (`main.ts` loops and compose
restarts the process), the clock that ends a lease, the claim of a job that
stays claimable (the queue is served by `available_at`, and a retried job goes
to its end), and, strongly, the retry transaction of a job: a worker that finds
it exhausted is not killed every single time before it commits. Faults, crashes,
lapsed leases and other writers are unrestricted, also for ever; it is the
attempt bound that makes the action settle.

Fairness of `TransferQueue`, all of it weak: the next step of each worker (the
repository exports `runTransferWorkerOnce` and leaves the loop around it to the
deployment; the fairness is that this loop runs), the clock that ends a lease,
and the claim of a job that stays claimable while a worker is idle. Whether the
transfer ever settles is the provider's affair; what the queue owes is to poll it
again. `transfer_live` has one transfer on purpose. Among several, `claim` serves
the oldest `available_at`, which retries and appended events renew but crashes
and duplicate reports do not: a job whose workers keep dying goes first every
time its lease lapses, and the code promises the others no turn.

## 5. Proofs

`ActionExecutionProofs` proves, for every set of actions, scenarios and workers
and every number of receipts and attempts: type correctness, every safety
invariant of the runs, the three action properties, and that `Spec` implements
`FinancialAction`. The only assumption is `ActionExecutionAssumption` (the
constants have their types, a plan has at least one receipt, a job at least one
attempt); no bound on the runs is used, the guard of `OtherPortfolioWriter`
included.

The properties are not inductive. What a worker commits was decided from what it
read several transactions before, so the invariant `IInv` has a part per worker,
`WorkerOK`, stating for each place of the function what is still true of that
reading whatever the others did:

- at `apply`, a plan exists and all earlier receipts are recorded;
- at `complete`, all are; at `partial`, some is;
- at `recount`, the refusal will meet every worker again (`Refused`): the cost is
  over the maximum, or the durable plan has reached the receipt it fails at;
- at `fail`, that refusal is at the very first receipt. This is why `FAILED` is
  true although the count behind it is stale: nobody else can have got past it.

`PlanInv` ties receipts to the plan (`receipt = plan + i <= version`, an initial
segment, below `refuseAt`), from which it follows that a new receipt has a version
no other effect has. The argument then splits: `StepMonotone` shows that
everything a worker relies on only grows (no step unsettles an action, withdraws
a receipt or replaces a plan), `WorkerStable` that a resting worker therefore
keeps `WorkerOK`, the `Worker...` lemmas treat the worker that moves, and the
`...Durable` lemmas the rows a step writes. The refinement needs no further
invariant: `Accept`, the plan-saving case of `SavePlan`, `ApplyReceipt` and the
settlements map to the steps of `FinancialAction`, everything else to stuttering.

`TransferQueueProofs` proves, for every set of transfers, messages, families and
workers and all amounts, costs and bounds: type correctness (no overdraft
included), every safety invariant of the transfer runs, the action property
`OutcomeFrozen`, and that `Spec` implements `CapitalTransfer`. The assumptions are
the typing of the constants (`DomainAssumption`, `LifecycleAssumption`, `LedgerAssumption`, `QueueAssumption`); in particular the
two attempt bounds need not agree. `IInv` adds to the checked invariants only
`RowShape`: a transfer that has not burned has no message and no attempts, one on its
way has a message. Without the first a burn could not be shown to start the two
attempt counters together, without the second an invalidation could not be shown to
leave either the reservation or the receivable. `LedgerFollowsLifecycle` states that
exception: what an invalidated transfer holds stays held (section 6).

A transaction of `appendEvent` is first summarised by what it makes of one lifecycle row (`...Row` lemmas) and of one reservation and receivable
(`...Ledger` lemmas); each invariant is then argued from the summaries, one event
kind at a time (`Accept...` lemmas). That the two machines agree is an induction
over both at once: neither guard alone implies it.

`ValueConserved` says that cash and what transfers hold, less `owed`, is the opening
capital less `spent`. It is a sum over a set of any size, and the refinement rests on it:
conservation and `Solvent` after a step bound `spent` by the opening capital, which is
what `CapitalTransfer` asks of every event. `SumTheorems` proves what such sums
need: the sum of a function changes by the change at one argument. It does so from
the definition of the fold, by induction over sets of sets (a set X of subsets that
holds the empty set and grows by any element is all subsets), since the library's
induction theorem takes an operator as its parameter. The transfers must be
finitely many (`DomainAssumption`).

`AuditPublicationProofs` proves, for every set of experiments, calls, batch
requests and runs, every number of blocks, reorgs and broadcasts, and any order of
crashes: `TypeOK`, `ChainVerifies`, `CorrectionsAreOrdered`, `BatchesRebuild`,
`ProofsBindLeaves`, `AnchoredOnce`, `RecordedIsCanonical` and `ExportsAreComplete`.
It assumes that two calls which
name one object carry the same content (`CallsAreContentAddressed`; a content hash is
never the absent parent), that a batch
request ends at a number (`RequestsAssumption`), and that the demo experiment is
one of the experiments (`DemoAssumption`). `IInv` is the conjunction of three
invariants, one per layer:

- `LogInv`: each log is unbroken and holds an object once (`LogShape`); the call
  that holds the experiment's lock has drafted exactly the event that continues the
  log it will commit to (`DraftsFit`), which is why the primary key never refuses
  it; every visible row has its event (`RowsAudited`); each batch starts where the
  one before ends (`BatchesLinked`).
- `BatchInv`: a stored batch is what `createBatch` builds from the log. The log only
  grows, so what was built stays what would be built.
- `PubInv`: the saved session is the first batch of its experiment (`SessionInv`);
  nothing is sent or anchored before there is one (`QuietBefore`); at most one
  block of the branch anchors it (`ChainInv`); a run past the finality check
  remembers a block that is final (`RunsInv`), and so does a recorded publication
  (`ReceiptsInv`). A run that has a receipt and awaits finality may remember a block that
  a reorg has dropped: it is the fork counter kept with it that tells the two apart
  (`Seen` against `Canonical`).

Exports need one part more (`ExportInv`): the parts of an export are read at three
moments, but a bundle that verifies has the one recorded batch, and ends at the
last event of that batch, because an unbroken log has one event per place.

The rows of evaluations and corrections need an invariant on top of `IInv`
(`RowsInv`). `OrderInv`: the insertions, in the order of `created_at`, are accounted
for by the committed rows and the open transactions, no object is inserted twice, and
each comes after the committed row it names; so a correction is always younger than
what it supersedes, and the dashboard, which shows the youngest, cannot show the
superseded one. With it, the chain holds the two in the same order
(`CorrectionsAudited`). `DraftsHeld`: a transaction has an event in hand exactly
while it is on the chain, which `TypeOK` needs.

`ProofBindsLeaf` is about pure functions: whatever the number of leaves, the path
derived from a position leads its leaf to the root, also where the last node of a
level is paired with itself, and the same path leads no other leaf there. It is an
induction up the levels (a number halved often enough is 0, and a tree has that
many levels), with hashes as the free constructors of section 3. `ProofsAreBound`
states it of every batch of every reachable log.

`ExperimentControlProofs` proves, for every set of experiments and calls, every pool
and all quotas: `TypeOK`, `QuotasHold`, `AcceptedBeforeRevoked`, `JournalIsSequence`,
`NothingLost` and the action property `RepeatsAreStored`. It assumes that a call has
a kind, an experiment and a scenario and an entry one of its two outcomes
(`CallsAssumption`), that the scenarios are finitely many (`ScenariosAssumption`)
and that the quotas are numbers (`ControlBoundsAssumption`). Two invariants carry all
of it: `WayInv`, which kind of call can be in which phase, and `LocksInv`, that the
locks two calls hold on a row never conflict. On them rest, one per theorem:

- `DatesInv`: a call that shows a date after a revocation in force is at the check
  that refuses it; a revocation is never withdrawn.
- `QuotaInv`: what a start counted under the quota's lock stays true until it
  commits. Only another start could spoil it, and needs that lock (`CountsAlone`);
  stops only free places.
- `BegunInv` and `JournalInv`: an experiment that has begun is never a draft again,
  so its first event is its start; of the calls that read the same last row one at
  most has inserted its successor, and that row is still the last one.
- `RowsInv`: what a checkpoint or a receipt was computed from is a part of the row
  (`MemoFits`), rows only grow, and therefore equal versions under the row's lock
  (`HoldersAlone`) mean equal rows (`SameVersion`). `SavedInv` then keeps receipts,
  checkpoints and entries in the rows.
- `StoredInv`: what a call has found out under a lock it still holds stays true, so
  one that is refused is never the twin of one that had its effect.
- `PoolInv`: the calls in flight are finitely many and fit the pool, and a call that
  is still acquiring has a lock left to acquire.

`StallsAreKnown` (`OnlyKnownStalls`) needs no cycle to be followed. Suppose that all
calls in flight wait, none of them for a connection and no two of them crossed in a
known way (`Jam`). The tables are then cleared one after the other: nobody waits for
a lock whose holders could only be waiting for a table already cleared
(`NoQuotaWait`, `NoScenarioWait`, `NoExperimentWait`), and the tables that are left
are held by calls that have nothing more to wait for (`NoJam`).

`PortfolioProofs` is the reducer alone. A portfolio is `Sound` if it satisfies
`assertPortfolio`, has the types of its schema and cash that fits its integers.
`ReceiptsKeepBooksSound`: whatever receipt of the schema (`IsReceipt`) meets a sound
portfolio, the portfolio that `ApplyReceipt` answers is sound, with the same
initial capital. Three steps carry it, each per kind of receipt. The branch of the
kind changes the book value less profit exactly by the gap its withheld costs must
explain (`Explained`); the costs, split by funding, take from cash, add to debts or fill
the gap; what remains of `assertPortfolio` (distinct ids, ownership of messages,
positive amounts) is kept by each branch. Sums over the sets of a portfolio are
moved by one element at a time with `SumTheorems`.

Two results more serve the receipts that are built for a portfolio. `Counted`: a
receipt that counts adds its operation, its costs and what its branch moves, and
nothing else. `MatchFits`: a receipt of the portfolio's version that is not a
repetition, finds what it moves (`Matches`) and charges no cost twice (`CostsOpen`)
is refused only if the portfolio is closed, is dated later, cannot pay or bear it,
or a number outgrows uint256.

`ScenarioAccountingProofs` proves, for all families, capitals, holders, receipts,
reserves, quotes, bounds and schedules:

- `SharesKeepTheirPrice`: the action property `SharePriceNeverFalls`. `VaultInv` has the
  supply as the sum of the shares, at least one token behind each share, and no more
  yield withheld than the vault was given. The arithmetic of rounded quotients is a
  set of lemmas of its own; products of unbounded amounts are compared by giving the
  solver one monotone product at a time.
- `BooksAreSound`: `Spec => []PortfolioSound`. `BooksInv` adds to `VaultInv` that the
  agent's portfolio and both references are sound and of the opening capital
  (`Capitalized`), that the cash reference is still the opening portfolio, that every
  planned receipt fits the schema, and that a captured quote is numeric. Each
  adapter is shown to answer receipts of the schema; a swap picks the best of
  finitely many quotes, an exit the gap between book and credit. The recursive
  functions over receipts, accruals and replays are first shown to exist, by
  induction on their length.
- `CheckpointsAreExplained`: `Spec => []CheckpointsExplained`. A sound portfolio is
  valued at its book value (`ValuedWorth`: positions one by one, `SumAlong`), so the
  differences between the three valuations are those of profit less costs; the cash
  reference has neither. `ExplainedInv` adds to `BooksInv` that stored marks are
  numbers, so that a maximum over them exists (`Greatest`) and a fall from it is
  between 0 and 10,000 basis points. For a replay the history is followed receipt by
  receipt (`Told`): versions never skip, and a portfolio of the stress script is closed from
  version 8 on and has its transfer in transit from version 6 to 11 (`Staged`), so the
  first closed portfolio has something unresolved. `metrics` answers no drawdown
  at a peak of zero; the property allows that for a portfolio worth nothing only.
  A yield reference is compared at a checkpoint exactly when its entry did not fail:
  `ComparedInv` adds to `FitsInv` (of the next theorem) that the reference's
  availability and the operation its failed entry leaves in its portfolio agree at all
  times (`EntryKnown`), and that the stored checkpoint compared accordingly.
- `BuiltReceiptsAreFit`: `Spec => []BuiltReceiptsFit`. The property relates the figures
  of an adapter to every refusal of the reducer, at a portfolio that others may have
  rebooked since. `FitsInv` adds to `ExplainedInv` why the next receipt of a plan still
  meets the premises of `MatchFits`, in four parts. `Tracked`: every cost, position,
  allowance and reservation goes back to one operation of the history, named for it, so
  an operation not used before finds nothing of its own. `PlanHolds`, for the plans of
  adapters: the next receipt names the version the plan has come to, and either the
  portfolio has moved on from it or what the receipt moves is there (`Current`); the second
  receipt of a supply waits for its approval, whose operation no other action can have
  used (`Unborn`). `ScriptHolds`, for the diagnostics: at every version it is known what
  the steps to come will find, up to where the transfer stands (`Stage`). `Histories`: the
  accruals of checkpoints to come are in no portfolio's history. The checkpoint then follows:
  it accrues each open position once, in turn (`AccruedAll`), and its valuation has one row
  for each.

  Two reasons had to be corrected before this could be proved. A deposit was
  allowed to be refused for its index; that never happens, since the
  operation is a repetition first. And the property was silent on
  amounts that outgrow uint256, which the bounded runs do not reach.

The assumptions (`ScenarioAssumption`, `DataAssumption`, those of the vault and the
reducer) are the types of what is signed, observed and configured: finitely many
families, holders and quotes, integer units, capitals above zero in the home family
(`STANDARD_CAPITAL`), denominators above zero, a `None` that is no number, a
second family on the network of the home family and one on another, and more than one
destination attempt where the stress script runs, which retries one (`buildDemoDiagnostic`'s
portfolio is created with `maxDestinationAttempts: '3'`, `m7.ts:61`).

Model-checked only: `AcceptedSettles`, `PendingIsPolled` and `RetainedIsRecovered`. Liveness
under fairness is outside what the proof system covers.

## 6. What the checks show

- A stale worker is harmless to the money: it is stopped by the version pin of its
  receipts, by the terminal check, or by finding the receipt already there.
- **Expiry.** The worker counts receipts and settles as `EXPIRED` in two
  transactions. A worker past its lease can apply a receipt in between, leaving
  an `EXPIRED` action with effects, contrary to ADR 0017 ("may not start an
  expired action"). `action_expired` gives the trace: worker 1 saves the plan in
  time and loses its lease, the deadline passes, worker 2 counts no receipt,
  worker 1 applies one, worker 2 settles.
- An action that is interrupted for the last time after its last receipt, before
  its settlement, is `PARTIALLY_SUCCEEDED` with all its effects.
- A plan pinned to a version that a checkpoint or a transfer has moved is never
  applied and never replaced: it is retried until the attempts are exhausted.

- Lifecycle and portfolio agree although they are checked separately, because
  both must accept an event in one transaction. They do differ in what they
  accept: a second `ATTESTATION_DELAYED` is legal for the lifecycle and refused
  by the portfolio, so the second delay of a transfer can never be recorded; the
  worker retries such a report for as long as the provider repeats it.
- The unguarded `retry` revives the job of a finished transfer. It is harmless to
  the state (`OutcomeFrozen`); the job stays in the queue and is polled for ever.
- An invalidated transfer keeps its reservation or receivable: no event releases
  it (`OutcomeFrozen`), the capital stays outside available cash.
- A message is protected from being credited twice after settlement by the
  UNIQUE constraint alone; the portfolio has forgotten it
  (`OpenReceivablesOnlyMutant`).
- **Unqueued transfer.** `create` writes the transfer and its job in two
  statements. A crash in between leaves a transfer nothing polls, and repeating
  `create` fails on the primary key. `transfer_unqueued` gives the two-step trace.
- **Publication.** The command retains its transaction before it waits for it, so
  a crash after the broadcast is harmless, and a crash before it may broadcast a
  second time, which the registry refuses to store twice. What it writes last is
  not safe: it creates the published revision and then the evidence file, both
  only if there is no revision yet, and a crash in between leaves a command that
  fails for ever on the missing evidence. `publication_resume` gives the trace;
  the runbook says to run the same command again.
- A batch that another request committed in the place of the demo session's ends
  the session; it never publishes a batch that is not the first of the chain.
- **Stalls.** Calls wait for each other in exactly three ways (`OnlyKnownStalls`):
  corrections that each hold a connection and wait for another one (ended by the
  connection timeout, 3 s); a checkpoint that holds its scenario and needs the
  experiment row, against a completion or a stop that holds the experiment row and
  needs the scenario; an audit record likewise (ended by the deadlock detection of
  the database or the statement timeout, 5 s). All end in a rollback and a retry.
- A revocation and an acceptance may overlap; the acceptance then carries a
  `receivedAt` before the revocation came into force.
- Two copies of an envelope delivered at once: the second finds what the first
  stored, thanks to the advisory lock taken before the key is looked up.
- **Figures.** Adapter receipts always add up. They are refused only because the
  portfolio moved on or cannot pay, a number outgrows uint256, or for one of these
  reasons, which the code has by construction: operation ids of most adapters hold the
  scenario only, so a second vault deposit, redemption, swap, accrual or withdrawal of
  a scenario is refused as a conflict; receipts of an action are dated ahead of the
  clock, so a checkpoint taken at once is refused until the clock has caught up.
  `BuiltReceiptsAreFit` has this for every value of the constants.
- Each checkpoint multiplies numerator and denominator of a position's index by
  about ten thousand without reducing them: after some nineteen checkpoints
  they exceed 256 bits and the portfolio can no longer be valued. The
  limit of 256 makes it happen in `books`.
- A portfolio whose debts exceed what could be liquidated has no checkpoint, even
  when its mark value is positive.
- Withheld costs and floors of a withdrawal never create value: the book is
  debited by the difference of two floors, not by the floor of the difference
  (`ProportionalDebitMutant`).

## 7. Not modelled

- HTTP routing, SDK, schemas and parsing, web pages: no state of their own, only
  the calls modelled above.
- The eligibility decision (`evaluateEligibility`): a pure function of archived
  evidence; what is done with its result is in `AuditLog`.
- The request window of `consumeRequest`: one SQL statement on one row.
- Provenance, identity and content-hash checks of bundles, observations and
  receipts: they compare copies of data, refuse, and change nothing.
- Byte formats behind hashes and signatures.
- The three items named in section 3: transfer of the contract's ownership, the
  verification mode of the publication command, unlimited allowances; and
  `createAgent`, one insert that no other call reads.
- Migrations and the archived configuration: run once before anything else.
- Clocks of transfer events (section 2).
