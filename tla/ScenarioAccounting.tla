-------------------------- MODULE ScenarioAccounting --------------------------
(***************************************************************************)
(* One capital scenario: its shadow portfolio and two fixed references,    *)
(* receipts planned by the adapters and applied one by one, checkpoints    *)
(* that accrue and value the three, the diagnostics that script and replay *)
(* a whole portfolio, and the yield vault the vault adapters quote.        *)
(*                                                                         *)
(* work is the kind of history a behaviour explores: it selects operations *)
(* and bounds them, and no action reads anything else of it.               *)
(***************************************************************************)
EXTENDS MarketAdapters, YieldVault, SequencesExt

CONSTANTS
  Opening,      \* [Family -> Nat] : initial cash
  Home, Twin, Far,  \* families: Home is funded, Twin on its network, Far on another
  Scenario,     \* the scenario's id
  Policy,       \* [maxSlippage, maxWeight, minCash]
  Intents,      \* [weight, slippage, maxCost] an agent may sign
  Reserves,     \* Aave reserve payloads
  GasWei,       \* gas of one step, in wei
  Conversion,   \* [num, den, updated, heartbeat] : ETH/USDC round
  FeeBps,       \* vault fees
  Reader,       \* the holder whose limits the vault is asked for
  Quotes,       \* pool quotes [amount, pair, out]
  Validity,     \* how long an observation is valid
  IndexScale,   \* a checkpoint accrues by (IndexScale + 1) / IndexScale
  ImpactScale,  \* a liquidation loses a unit and one in ImpactScale
  Script,       \* [invested, transfer, gas, failedGas, days, turn] of the diagnostics
  Direct,       \* receipts delivered without an adapter, as bodies
  Units,        \* amounts of swaps and of calls of the vault
  Stakes,       \* amounts invested in the vault
  Workloads,    \* subset of AllWorkloads
  MaxSteps,     \* [AllWorkloads -> Nat] : bound on the operations of a behaviour
  MaxTime       \* [AllWorkloads -> Nat] : bound on clock

AllWorkloads == {"AAVE", "VAULT", "SWAP", "DIRECT", "MARKET", "STRESS", "REPLAY"}

ASSUME ScenarioAssumption ==
    /\ Workloads \subseteq AllWorkloads
    /\ Reader \in Holder
    /\ Opening \in [Family -> Nat] /\ \A f \in Family : Fits(Opening[f])
    /\ Units \subseteq Nat /\ Stakes \subseteq Nat /\ FeeBps \subseteq Nat
    /\ MaxSteps \in [AllWorkloads -> Nat] /\ MaxTime \in [AllWorkloads -> Nat]
    /\ {Home, Twin, Far} \subseteq Family /\ Opening[Home] > 0
    /\ Home # Twin /\ NetworkOf[Home] = NetworkOf[Twin] /\ NetworkOf[Home] # NetworkOf[Far]
    /\ "STRESS" \in Workloads => DestinationAttempts > 1
    /\ Validity \in Nat \ {0} /\ IndexScale \in Nat \ {0} /\ ImpactScale \in Nat \ {0}

(* A receipt that was delivered: its operation, version and time, and a body. *)
Delivered(op, version, at, body) == Joined([op |-> op, version |-> version, at |-> at], body)

(* What is signed, observed or delivered has the types of its schema. *)
ASSUME DataAssumption ==
    /\ \A intent \in Intents : intent.weight \in Nat
    /\ Reserves \subseteq [open : BOOLEAN, cap : Nat, supplied : Nat, liquidity : Nat,
                          ray : Nat \ {0}]
    /\ GasWei \in Nat
    /\ Conversion \in [num : Nat, den : Nat \ {0}, updated : Nat, heartbeat : Nat]
    /\ IsFiniteSet(Quotes)
    /\ Quotes \subseteq [amount : Nat, pair : Family \X Family, out : Nat]
    /\ Script \in [invested : Nat, transfer : Nat, gas : Nat, failedGas : Nat, days : Nat,
                   turn : Nat]
    /\ \A body \in Direct : IsReceipt(Delivered(None, 0, 0, body))

VARIABLES
  work,        \* the workload of this behaviour
  steps,       \* operations so far
  portfolio,   \* the agent's portfolio
  references,  \* [cash, yield -> [portfolio, available]]
  plan,        \* receipts built and not yet applied, and what they were built on
  quote,       \* the last archived vault observation
  checkpoint,  \* the last checkpoint with its evaluation
  marks,       \* agent marks of earlier checkpoints
  report       \* what the replay of a diagnostic found

bookVars == <<portfolio, references, plan, quote, checkpoint, marks, report>>
vars == <<work, steps, bookVars, vaultVars, clock>>

(* Identities: tuples, so that any two can be compared. *)
Reference == <<"reference">>
VaultPosition == <<"vault">>
Router == <<"router">>

NoPlan == [receipts |-> << >>, base |-> 0, since |-> 0, done |-> 0]

(* makeReferences: both start from the agent's initial distribution. *)
MakeReferences(p) ==
    [cash |-> [portfolio |-> p, available |-> TRUE],
     yield |-> [portfolio |-> p, available |-> TRUE]]

--------------------------------------------------------------------------------
(* Diagnostics (m7): a script is a sequence of receipts, one portfolio      *)
(* version each.  Dates are minutes, scaled.                                *)
ScriptCost(i, amount, funding, family) ==
    {[id |-> <<"script", i, "gas">>, funding |-> funding, amount |-> amount,
      network |-> NetworkOf[family],
      family |-> IF funding = "PAYABLE" THEN None ELSE family]}

ScriptStep(i, at, kind, body, costs) ==
    Joined([op |-> <<"script", i>>, version |-> i - 1, at |-> at, kind |-> kind,
            costs |-> costs], body)

Gas(i) == ScriptCost(i, Script.gas, "AVAILABLE_CASH", Home)

Entry ==
    <<ScriptStep(1, 1, "APPROVE", [id |-> "allowance", amount |-> Script.invested], Gas(1)),
      ScriptStep(2, 2, "DEPOSIT",
                 [family |-> Home, position |-> "position", shares |-> Script.invested,
                  num |-> 1, den |-> 1, amount |-> Script.invested], Gas(2))>>

(* Absolute daily indexes: a rise, then a loss regime from day Script.turn on. *)
DayIndex(day) == IF day < Script.turn THEN IndexScale + 2 * day ELSE IndexScale - Script.turn + day

Accruals(first, position) ==
    [day \in 1 .. Script.days |->
        ScriptStep(first + day, 2 + day, "ACCRUE",
                   [position |-> position, num |-> DayIndex(day), den |-> IndexScale], {})]

ReplayScript == Entry \o Accruals(2, "position")

Move(i, at, kind, costs) == ScriptStep(i, at, kind, [id |-> "transfer"], costs)

StressScript ==
    Entry \o
    <<ScriptStep(3, 3, "WITHDRAW",
                 [family |-> Home, position |-> "position", shares |-> Script.invested,
                  amount |-> Script.invested], Gas(3)),
      ScriptStep(4, 4, "COST", << >>, ScriptCost(4, Script.failedGas, "AVAILABLE_CASH", Home)),
      ScriptStep(5, 5, "RESERVE", [id |-> "reservation", family |-> Home,
                                   amount |-> Script.transfer], {}),
      ScriptStep(6, 6, "TRANSFER_BURNED",
                 [reservation |-> "reservation", id |-> "transfer", message |-> "message",
                  family |-> Far, amount |-> Script.transfer], Gas(6)),
      Move(7, 70, "TRANSFER_DELAYED", {}),
      ScriptStep(8, 71, "CLOSE", << >>, {}),
      Move(9, 72, "TRANSFER_READY", {}),
      Move(10, 73, "TRANSFER_DESTINATION_RETRY", ScriptCost(10, Script.failedGas, "PAYABLE", Far)),
      Move(11, 74, "TRANSFER_READY", {}),
      ScriptStep(12, 75, "TRANSFER_SETTLED",
                 [id |-> "transfer", amount |-> Script.transfer], {})>>

(* The yield reference keeps its entry gas as a payable. *)
ReferenceScript ==
    LET capital == Total(Opening)
    IN  <<ScriptStep(1, 2, "DEPOSIT",
                     [family |-> Home, position |-> "reference", shares |-> capital,
                      num |-> 1, den |-> 1, amount |-> capital],
                     ScriptCost(1, Script.gas, "PAYABLE", Home))>>
        \o (IF work = "REPLAY" THEN Accruals(1, "reference") ELSE << >>)

Scripted == work \in {"STRESS", "REPLAY"}
ScriptOf(w) == IF w = "STRESS" THEN StressScript ELSE ReplayScript

Init ==
    /\ work \in Workloads
    /\ steps = 0
    /\ portfolio = CreatePortfolio(Opening)
    /\ references = MakeReferences(portfolio)
    /\ plan = IF Scripted THEN [NoPlan EXCEPT !.receipts = ScriptOf(work)] ELSE NoPlan
    /\ quote = None
    /\ checkpoint = None
    /\ marks = << >>
    /\ report = None
    /\ clock = 0
    /\ VaultInit

(* One more operation of workload w. *)
Operate(w) ==
    /\ work = w
    /\ steps < MaxSteps[w]
    /\ steps' = steps + 1
    /\ UNCHANGED work

Idle == plan.receipts = << >>

(* An adapter ran on the portfolio as it is now. *)
Build(answer) ==
    /\ Idle
    /\ answer.faults = {}
    /\ plan' = [receipts |-> answer.receipts, base |-> portfolio.version,
               since |-> portfolio.last, done |-> 0]
    /\ UNCHANGED <<portfolio, references, quote, checkpoint, marks, report, vaultVars, clock>>

Context(at) ==
    [version |-> portfolio.version, at |-> at, family |-> Home, scenario |-> Scenario]

Observed(body, at, until) == Joined(body, [at |-> at, until |-> until])

Archived(body) == Observed(body, clock, clock + Validity)

Gauge(amount) == [amount |-> amount, wei |-> GasWei]

(* An accepted action, received at some time up to now, is executed.  Its    *)
(* observations expire with the time it was received.                       *)
PlanSupply ==
    /\ Operate("AAVE")
    /\ \E intent \in Intents, reserve \in Reserves, received \in 0 .. clock :
         LET at == FirstStepAt(portfolio, received)
             amount == PlannedAmount(portfolio, intent.weight)
             seen(body) == Observed(body, at, received + Validity)
         IN  Build(PreparedSupply(portfolio, Context(at), intent, Policy,
                 [op |-> <<"action", steps>>, position |-> <<"action", steps>>,
                  allowance |-> <<"action", steps>>, amount |-> amount, current |-> 0,
                  reserve |-> seen(reserve), approvalGas |-> seen(Gauge(amount)),
                  gas |-> seen(Gauge(amount)), conversion |-> seen([Conversion EXCEPT !.updated = at])]))

(* The receipts of an entry one after the other (applySyntheticReferenceEntry). *)
ApplyAll(p, receipts) ==
    LET after[i \in 0 .. Len(receipts)] ==
          IF i = 0 THEN Outcome(p, {}) ELSE ApplyReceipt(after[i - 1].portfolio, receipts[i])
    IN  after[Len(receipts)]

(* The frozen yield reference enters with its whole capital, or pays for the *)
(* failed attempt and is no longer compared.                                 *)
EntryContext == [Context(clock) EXCEPT !.version = 0]

ReferenceEntry(capital, reserve) ==
    AaveSupply(EntryContext,
        [op |-> Reference, position |-> Reference, allowance |-> Reference,
         amount |-> capital, current |-> 0, reserve |-> Archived(reserve),
         approvalGas |-> Archived(Gauge(capital)), gas |-> Archived(Gauge(capital)),
         conversion |-> Archived([Conversion EXCEPT !.updated = clock])])

EntryReceipts(entry, failed) ==
    IF ~failed THEN entry.receipts
    ELSE <<entry.receipts[1],
           Pinned(EntryContext, 1, <<Reference, "failed">>, "COST",
                  entry.receipts[2].costs, << >>)>>

EnterReference ==
    /\ Operate("AAVE")
    /\ references.yield.portfolio.version = 0
    /\ \E failed \in BOOLEAN, reserve \in Reserves :
         LET opening == references.yield.portfolio
             entry == ReferenceEntry(opening.initial, reserve)
             entered == ApplyAll(opening, EntryReceipts(entry, failed))
         IN  /\ entry.faults = {} /\ entered.faults = {}
             /\ references' = [references EXCEPT !.yield =
                                 [portfolio |-> entered.portfolio, available |-> ~failed]]
    /\ UNCHANGED <<portfolio, plan, quote, checkpoint, marks, report, vaultVars, clock>>

AccruePosition ==
    /\ Operate("AAVE")
    /\ \E x \in portfolio.positions, reserve \in Reserves, before \in Reserves :
         Build(AaveAccrue(Context(clock), [position |-> x.id, opening |-> before.ray,
                                           reserve |-> Archived(reserve)]))

WithdrawPosition ==
    /\ Operate("AAVE")
    /\ \E x \in portfolio.positions, reserve \in Reserves :
         Build(AaveWithdraw(Context(clock),
             [position |-> x.id, shares |-> x.shares, book |-> x.book,
              reserve |-> Archived(reserve), gas |-> Archived(Gauge(x.book)),
              conversion |-> Archived(Conversion)]))

(* What the vault answers now is archived, for the position if there is one. *)
Position == {x \in portfolio.positions : x.id = VaultPosition}

CaptureVault ==
    /\ Operate("VAULT")
    /\ \E amount \in Stakes, entry \in FeeBps, exit \in FeeBps :
         LET held == IF Position = {} THEN 0 ELSE The(Position, VaultPosition).shares
         IN  quote' = Archived(
                 [amount |-> amount, shares |-> ConvertToShares(amount),
                  assets |-> ConvertToAssets(held), depositFee |-> entry, redeemFee |-> exit,
                  maxDeposit |-> UintLimit - 1, maxMint |-> UintLimit - 1,
                  maxRedeem |-> shares[Reader], maxWithdraw |-> ConvertToAssets(shares[Reader]),
                  exit |-> TotalAssets])
    /\ UNCHANGED <<portfolio, references, plan, checkpoint, marks, report, vaultVars, clock>>

EnterVault ==
    /\ Operate("VAULT")
    /\ quote # None
    /\ \E amount \in Stakes :
         Build(VaultDeposit(Context(clock),
             [amount |-> amount, position |-> VaultPosition, vault |-> quote,
              gas |-> Archived(Gauge(amount)), conversion |-> Archived(Conversion)]))

ExitVault ==
    /\ Operate("VAULT")
    /\ quote # None
    /\ \E x \in Position :
         Build(VaultRedeem(Context(clock),
             [position |-> x.id, shares |-> x.shares, book |-> x.book, vault |-> quote,
              gas |-> Archived(Gauge(x.book)), conversion |-> Archived(Conversion)]))

ApproveSwap ==
    /\ Operate("SWAP")
    /\ \E amount \in Units :
         LET known == With(portfolio.allowances, Router)
         IN  Build(Erc20Approval(Context(clock),
                 [op |-> <<"swap", steps>>, allowance |-> Router, amount |-> amount,
                  current |-> IF known = {} THEN 0 ELSE The(known, Router).amount,
                  gas |-> Archived(Gauge(amount)), conversion |-> Archived(Conversion)]))

SwapCash ==
    /\ Operate("SWAP")
    /\ \E amount \in Units, pair \in {<<Home, Twin>>, <<Twin, Home>>}, minimum \in Units :
         Build(UniswapSwap(Context(clock),
             [amount |-> amount, pair |-> pair, minimum |-> minimum,
              quotes |-> {Archived(q) : q \in Quotes},
              gas |-> Archived(Gauge(amount)), conversion |-> Archived(Conversion)]))

(* The next receipt of a plan reaches the reducer; one refused ends the plan. *)
ApplyNext ==
    /\ ~Idle
    /\ LET outcome == ApplyReceipt(portfolio, Head(plan.receipts))
       IN  /\ portfolio' = outcome.portfolio
           /\ plan' = IF outcome.faults = {}
                      THEN [plan EXCEPT !.receipts = Tail(@), !.done = @ + 1]
                      ELSE NoPlan
    /\ UNCHANGED <<work, steps, references, quote, checkpoint, marks, report, vaultVars, clock>>

(* A receipt that no adapter built. *)
Deliver ==
    /\ Operate("DIRECT")
    /\ \E body \in Direct :
         LET outcome == ApplyReceipt(portfolio,
                 Delivered(<<"direct", steps>>, portfolio.version, clock, body))
         IN  outcome.faults = {} /\ portfolio' = outcome.portfolio
    /\ UNCHANGED <<references, plan, quote, checkpoint, marks, report, vaultVars, clock>>

--------------------------------------------------------------------------------
(* checkpointPortfolio: every open position accrues, then the portfolio is  *)
(* valued.                                                                  *)
CheckpointAccrual(p, x) ==
    [op |-> <<"accrual", Len(marks), x.id>>, version |-> p.version, at |-> clock,
     kind |-> "ACCRUE", costs |-> {}, position |-> x.id,
     num |-> x.num * (IndexScale + 1), den |-> x.den * IndexScale]

AccrueNext(out, x) ==
    IF out.faults # {} THEN out
    ELSE ApplyReceipt(out.portfolio, CheckpointAccrual(out.portfolio, x))

Accrued(p) ==
    LET positions == SetToSeq(p.positions)
        after[i \in 0 .. Len(positions)] ==
          IF i = 0 THEN Outcome(p, {}) ELSE AccrueNext(after[i - 1], positions[i])
    IN  after[Len(positions)]

(* A position is marked at its book and recovered at less, for a fee. *)
Valuation(p, x) ==
    LET mark == Floor(x.shares, x.num, x.den)
        recoverable == Max({mark - (mark \div ImpactScale + 1), 0})
    IN  [id |-> x.id, mark |-> mark, recoverable |-> recoverable, quality |-> "FRESH",
         exit |-> Min({p.initial \div ImpactScale + 1, recoverable})]

Valued(p) == {Valuation(p, x) : x \in p.positions}

TruncDiv(a, d) == IF a >= 0 THEN a \div d ELSE -((-a) \div d)

(* metrics *)
Metric(p, value, peak) ==
    [mark |-> value.mark, liquidation |-> value.liquidation, blocked |-> value.blocked,
     pnl |-> value.mark - p.initial, return |-> TruncDiv((value.mark - p.initial) * Bps, p.initial),
     costs |-> Amounts(p.costs),
     drawdown |-> IF peak = 0 THEN None ELSE ((peak - value.mark) * Bps) \div peak]

Metrics(p, prior) ==
    LET value == ValuePortfolio(p, Valued(p))
    IN  Metric(p, value, Max({value.mark} \cup Range(prior)))

AccrualFaults(out) ==
    out.faults \cup (IF out.faults # {} THEN {}
                     ELSE ValuationFaults(out.portfolio, Valued(out.portfolio))
                            \cup Fault(out.portfolio.last > clock, "PRECEDES"))

CheckpointFaults ==
    UNION {AccrualFaults(Accrued(p)) :
             p \in {portfolio, references.cash.portfolio, references.yield.portfolio}}

(* The comparison that forgets whether the reference could enter. *)
AnyReferenceMutant == TRUE

(* yieldAvailable: marks are never missing here, the entry alone decides. *)
YieldAvailable == references.yield.available

(* evaluateScenario *)
Compared(agent, cash, yield) ==
    [agent |-> agent, cash |-> cash, yield |-> yield,
     vsCash |-> agent.mark - cash.mark, excessVsCash |-> agent.return - cash.return,
     vsYield |-> IF YieldAvailable THEN agent.mark - yield.mark ELSE None,
     excessVsYield |-> IF YieldAvailable THEN agent.return - yield.return ELSE None]

Evaluation(agent, cash, yield) ==
    Compared(Metrics(agent, marks), Metrics(cash, << >>), Metrics(yield, << >>))

(* The accrued portfolios are stored with the evaluation (createCheckpoint). *)
Store(agent, cash, yield) ==
    /\ portfolio' = agent
    /\ references' = [references EXCEPT !.cash.portfolio = cash, !.yield.portfolio = yield]
    /\ checkpoint' = [agent |-> agent, cash |-> cash, yield |-> yield,
                      evaluation |-> Evaluation(agent, cash, yield)]
    /\ marks' = Append(marks, checkpoint'.evaluation.agent.mark)

TakeCheckpoint ==
    /\ ~Scripted
    /\ Operate(work)
    /\ CheckpointFaults = {}
    /\ Store(Accrued(portfolio).portfolio, Accrued(references.cash.portfolio).portfolio,
             Accrued(references.yield.portfolio).portfolio)
    /\ UNCHANGED <<plan, quote, report, vaultVars, clock>>

--------------------------------------------------------------------------------
(* replayDemoDiagnostic: the portfolios after each receipt of a history,    *)
(* each applied twice.                                                      *)
Replayed(ps, r, once) ==
    IF once.faults = {} /\ ApplyReceipt(once.portfolio, r) = once
    THEN Append(ps, once.portfolio) ELSE ps

ReplayNext(ps, r) == Replayed(ps, r, ApplyReceipt(Last(ps), r))

Snapshots(opening, history) ==
    LET after[i \in 0 .. Len(history)] ==
          IF i = 0 THEN <<opening>> ELSE ReplayNext(after[i - 1], history[i])
    IN  after[Len(history)]

Drawdown(ps) ==
    LET worth(i) == GlobalBook(ps[i])
        peak(i) == Max({worth(j) : j \in 1 .. i})
    IN  Max({((peak(i) - worth(i)) * Bps) \div peak(i) : i \in DOMAIN ps})

(* What was in transit when the portfolio closed, if it did. *)
UnresolvedAtClosure(ps) ==
    LET closed == {i \in DOMAIN ps : ps[i].closed # None}
    IN  IF closed = {} \/ ps[Min(closed)].receivables = {} THEN None
        ELSE (CHOOSE x \in ps[Min(closed)].receivables : TRUE).amount

Findings(ps, yield) ==
    /\ Last(ps) = portfolio
    /\ references' = [references EXCEPT !.yield.portfolio = yield]
    /\ report' = [mark |-> GlobalBook(portfolio), costs |-> Amounts(portfolio.costs),
                  drawdown |-> Drawdown(ps),
                  vsYield |-> GlobalBook(portfolio) - GlobalBook(yield),
                  unresolved |-> UnresolvedAtClosure(ps)]

Diagnose ==
    /\ Scripted /\ Idle /\ report = None
    /\ Findings(Snapshots(CreatePortfolio(Opening), ScriptOf(work)),
                Last(Snapshots(CreatePortfolio(Opening), ReferenceScript)))
    /\ UNCHANGED <<work, steps, portfolio, plan, quote, checkpoint, marks, vaultVars, clock>>

--------------------------------------------------------------------------------
(* Calls of the vault by its holders. *)
MarketCall ==
    \/ \E start, end \in 1 .. MaxTime[work], budget \in Units : FreezeYieldSchedule(start, end, budget)
    \/ \E h, to \in Holder, n \in Units : DepositAssets(h, n, to)
    \/ \E h, to \in Holder, n \in Units : Mint(h, n, to)
    \/ \E h, owner \in Holder, n \in Units : WithdrawAssets(h, n, h, owner)
    \/ \E h, owner \in Holder, n \in Units : Redeem(h, n, h, owner)
    \/ \E h, spender \in Holder, n \in Units : h # spender /\ ApproveSpender(h, spender, n)
    \/ \E h \in Holder, n \in Units : Donate(h, n)

UseVault ==
    /\ Operate("MARKET")
    /\ MarketCall
    /\ UNCHANGED <<bookVars, clock>>

(* Between two quotes the vault fills, and a gift of others raises its price. *)
FillVault ==
    /\ Operate("VAULT")
    /\ \/ \E h \in Holder, n \in Units : DepositAssets(h, n, h)
       \/ \E h \in Holder \ {Reader}, n \in Units : Donate(h, n)
    /\ UNCHANGED <<bookVars, clock>>

Tick ==
    /\ ~Scripted
    /\ clock < MaxTime[work]
    /\ clock' = clock + 1
    /\ UNCHANGED <<work, steps, bookVars, vaultVars>>

Next ==
    \/ PlanSupply \/ EnterReference \/ AccruePosition \/ WithdrawPosition
    \/ CaptureVault \/ EnterVault \/ ExitVault
    \/ ApproveSwap \/ SwapCash
    \/ ApplyNext \/ Deliver \/ TakeCheckpoint \/ Diagnose
    \/ UseVault \/ FillVault \/ Tick

Spec == Init /\ [][Next]_vars

--------------------------------------------------------------------------------
Portfolios == {portfolio, references.cash.portfolio, references.yield.portfolio}

TypeOK ==
    /\ work \in Workloads /\ steps \in 0 .. MaxSteps[work] /\ clock \in 0 .. MaxTime[work]
    /\ \A p \in Portfolios : \A f \in Family : Fits(p.cash[f])
    /\ \A a \in DOMAIN tokens : tokens[a] \in Nat
    /\ supply = Total(shares) /\ TotalAssets \in Nat

\* What the agent and the references hold is worth, at every moment, the
\* initial capital and the modeled profit and loss less every recognized cost;
\* books follow the index although each receipt rounds, debts have their cost,
\* and no receipt counts twice.  No branch of applyReceipt leaves it to the
\* closing assertPortfolio to find otherwise, whatever fails part way.
PortfolioSound == TypeOK /\ \A p \in Portfolios : AssertPortfolio(p)

\* Another receipt or a checkpoint came between the steps of the plan.
Overtaken == portfolio.version # plan.base + plan.done

\* An index may outgrow uint256 with the days, an amount with what is held.
Outgrows(r) ==
    r.kind = "ACCRUE" \/ ("amount" \in DOMAIN r /\ Gross(portfolio) + r.amount >= UintLimit)

\* A receipt an adapter or a diagnostic built is refused by the reducer only
\* because the portfolio moved on, cannot pay or bear the costs, or used the
\* operation before, an accrual comes too soon, or a number outgrows uint256;
\* never because its figures do not add up (vaultRedeem's gap, vaultDeposit's
\* fee, the steps of aaveSupply), a cost is charged twice or what it moves is
\* not there.  Checkpoints fail only for known reasons, never because an
\* accrual repeats an operation or a valuation misses a position.
BuiltReceiptsFit ==
    /\ ~Idle /\ ~Overtaken =>
         LET r == Head(plan.receipts)
         IN  ApplyReceipt(portfolio, r).faults \subseteq
                 {"CASH", "INSOLVENT", "CONFLICT", "CLOSED"}
                   \cup Fault(Outgrows(r), "OVERFLOW")
                   \cup Fault(r.kind = "ACCRUE" \/ r.at < plan.since, "TIME")
    /\ CheckpointFaults \subseteq {"TIME", "OVERFLOW", "PRECEDES", "LIABILITIES", "CLOSED"}

\* The reference paid for an entry that failed.
FailedEntry(p) == \E r \in Range(p.applied) : r.op = <<Reference, "failed">>

\* A checkpoint's figures are explained by the history: its mark differs from
\* the capital by profit less costs, from a reference by the difference of
\* these, it never counts on more when liquidating, and a fall is a share of
\* the peak, or null when nothing is left.  A yield reference whose entry
\* failed is not compared, at this or any later checkpoint, and every other
\* one is.  The replay of a diagnostic finds the same of its final state.
CheckpointsExplained ==
    /\ checkpoint # None =>
         LET e == checkpoint.evaluation
             explained(p) == p.pnl - Amounts(p.costs)
         IN  /\ e.agent.pnl = explained(checkpoint.agent)
             /\ e.vsCash = explained(checkpoint.agent)
             /\ IF FailedEntry(checkpoint.yield)
                  THEN e.vsYield = None /\ e.excessVsYield = None
                  ELSE e.vsYield = explained(checkpoint.agent) - explained(checkpoint.yield)
             /\ \A m \in {e.agent, e.cash, e.yield} :
                  /\ m.liquidation <= m.mark
                  /\ m.drawdown \in 0 .. Bps \/ (m.drawdown = None /\ m.mark = 0)
    /\ report # None =>
         /\ report.mark = portfolio.initial + portfolio.pnl - report.costs
         /\ report.drawdown \in 0 .. Bps
         /\ report.unresolved # None <=> portfolio.closed # None

\* No call of the vault makes a share worth less to those who hold the others,
\* whichever way it rounds, and yield only adds: the price of a share never
\* falls, and a share is never worth less than the token that founded it.
SharePriceNeverFalls ==
    [][/\ supply' > 0 => TotalAssets' >= supply'
       /\ supply > 0 /\ supply' > 0 => TotalAssets' * supply >= TotalAssets * supply']_vars
===============================================================================
