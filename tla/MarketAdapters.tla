---------------------------- MODULE MarketAdapters ----------------------------
(***************************************************************************)
(* Protocol adapters: archived observations and a request become receipts  *)
(* pinned to the portfolio version they were built from.  Each operator is *)
(* one adapter and answers [faults, receipts]: with a fault it answers no  *)
(* receipt.                                                                *)
(*                                                                         *)
(* An observation is valid from at until until (excluded).  Its content    *)
(* has the fields the adapters read; identities, hashes and provenance,    *)
(* equal for all observations of a scenario, are left out.  A context is   *)
(* [version, at, family, scenario]; the evaluation time is at.             *)
(***************************************************************************)
EXTENDS PortfolioReducer, FiniteSetsExt

CONSTANTS
  Bps,         \* ten thousand basis points
  StepOffset   \* first and next Ethereum step offset of the profile

ASSUME AdapterAssumption == Bps \in Nat \ {0} /\ StepOffset \in Nat \ {0}

(* requireFresh *)
Fresh(o, now) == o.at <= now /\ now < o.until

Stale(observations, context) ==
    Fault(\E o \in observations : ~Fresh(o, context.at), "DATA_STALE")

(* checkConversionFresh: the round of the price, not its observation. *)
RoundExpired(conversion, context) ==
    Fault(context.at >= conversion.updated + conversion.heartbeat, "DATA_STALE")

GasAmount(gas, conversion) == Ceil(gas.wei, conversion.num, conversion.den)

NoGas(gas, conversion) == Fault(GasAmount(gas, conversion) = 0, "ZERO_GAS")

Cost(id, funding, context, amount) ==
    [id |-> id, funding |-> funding, network |-> NetworkOf[context.family],
     family |-> None, amount |-> amount]

(* gasCost: gas is never paid at once, it is owed. *)
GasCost(id, gas, conversion, context) ==
    Cost(id, "PAYABLE", context, GasAmount(gas, conversion))

Withheld(id, context, amount) ==
    IF amount = 0 THEN {} ELSE {Cost(id, "WITHHELD", context, amount)}

Answer(faults, receipts) ==
    [faults |-> faults, receipts |-> IF faults = {} THEN receipts ELSE << >>]

Pinned(context, steps, op, kind, costs, body) ==
    Joined([op |-> op, version |-> context.version + steps, at |-> context.at, kind |-> kind,
            costs |-> costs], body)

ApproveReceipt(context, op, allowance, amount, cost) ==
    Pinned(context, 0, op, "APPROVE", {cost}, [id |-> allowance, amount |-> amount])

(* erc20Approval *)
Erc20Approval(context, in) ==
    LET op == <<in.op, "approval">>
    IN  Answer(Stale({in.gas, in.conversion}, context)
                 \cup RoundExpired(in.conversion, context)
                 \cup Fault(in.gas.amount # in.amount, "DATA_UNAVAILABLE")
                 \cup (IF in.current >= in.amount THEN {} ELSE NoGas(in.gas, in.conversion)),
               IF in.current >= in.amount
               THEN <<Pinned(context, 0, op, "NO_EFFECT", {}, << >>)>>
               ELSE <<ApproveReceipt(context, op, in.allowance, in.amount,
                                     GasCost(<<in.op, "approval-gas">>, in.gas,
                                             in.conversion, context))>>)

(* aaveSupply counts the version up after each receipt it adds. *)
DepositStep(approvals) == Len(approvals)

(* An Aave share is one unit of the asset: the deposit is booked at index 1. *)
AaveSupply(context, in) ==
    LET approvals ==
          IF in.current >= in.amount THEN << >>
          ELSE <<ApproveReceipt(context, <<in.op, "approve">>, in.allowance, in.amount,
                                GasCost(<<in.op, "approval-gas">>, in.approvalGas,
                                        in.conversion, context))>>
        deposit ==
          Pinned(context, DepositStep(approvals), <<in.op, "deposit">>, "DEPOSIT",
                 {GasCost(<<in.op, "supply-gas">>, in.gas, in.conversion, context)},
                 [family |-> context.family, position |-> in.position, shares |-> in.amount,
                  num |-> 1, den |-> 1, amount |-> in.amount])
    IN  Answer(Stale({in.reserve, in.approvalGas, in.gas, in.conversion}, context)
                 \cup RoundExpired(in.conversion, context)
                 \cup Fault(in.approvalGas.amount # in.amount \/ in.gas.amount # in.amount,
                            "DATA_UNAVAILABLE")
                 \cup Fault(~in.reserve.open, "LIMIT_EXCEEDED")
                 \cup Fault(in.reserve.cap > 0 /\ in.reserve.supplied + in.amount > in.reserve.cap,
                            "LIMIT_EXCEEDED")
                 \cup NoGas(in.gas, in.conversion)
                 \cup (IF approvals = << >> THEN {} ELSE NoGas(in.approvalGas, in.conversion)),
               Append(approvals, deposit))

(* Operation ids of the adapters below hold the scenario only: a scenario has *)
(* one operation of each kind.                                                *)
AaveAccrue(context, in) ==
    Answer(Stale({in.reserve}, context)
             \cup Fault(in.reserve.ray < in.opening, "INDEX_BACKWARD"),
           <<Pinned(context, 0, <<context.scenario, "aave-accrue">>, "ACCRUE", {},
                    [position |-> in.position, num |-> in.reserve.ray, den |-> in.opening])>>)

AaveWithdraw(context, in) ==
    Answer(Stale({in.reserve, in.gas, in.conversion}, context)
             \cup RoundExpired(in.conversion, context)
             \cup Fault(in.gas.amount # in.book, "DATA_UNAVAILABLE")
             \cup Fault(in.reserve.liquidity < in.book, "LIQUIDITY_UNAVAILABLE")
             \cup NoGas(in.gas, in.conversion),
           <<Pinned(context, 0, <<context.scenario, "aave-withdraw">>, "WITHDRAW",
                    {GasCost(<<context.scenario, "aave-withdraw-gas">>, in.gas,
                             in.conversion, context)},
                    [family |-> context.family, position |-> in.position,
                     shares |-> in.shares, amount |-> in.book])>>)

(* vaultDeposit: the entry fee rounds up, the rest is booked exactly. *)
VaultDeposit(context, in) ==
    LET fee == Ceil(in.amount, in.vault.depositFee, Bps)
    IN  Answer(Stale({in.vault, in.gas, in.conversion}, context)
                 \cup RoundExpired(in.conversion, context)
                 \cup Fault(in.vault.amount # in.amount \/ in.gas.amount # in.amount,
                            "DATA_UNAVAILABLE")
                 \cup Fault(in.amount > in.vault.maxDeposit \/ in.vault.shares > in.vault.maxMint,
                            "LIMIT_EXCEEDED")
                 \cup Fault(in.vault.shares = 0, "LIMIT_EXCEEDED")
                 \cup Fault(fee >= in.amount, "ZERO_INDEX")
                 \cup NoGas(in.gas, in.conversion),
               <<Pinned(context, 0, <<context.scenario, "vault-deposit">>, "DEPOSIT",
                        {GasCost(<<context.scenario, "vault-deposit-gas">>, in.gas,
                                 in.conversion, context)}
                          \cup Withheld(<<context.scenario, "vault-entry-fee">>, context, fee),
                        [family |-> context.family, position |-> in.position,
                         shares |-> in.vault.shares, num |-> in.amount - fee,
                         den |-> in.vault.shares, amount |-> in.amount])>>)

RedeemFee(vault) == Ceil(vault.assets, vault.redeemFee, Bps)

FeeOnlyMutant(in, credit) == RedeemFee(in.vault)

(* What is lost on the way out: the fee, and the fall of the price since the *)
(* position was booked.                                                      *)
ExitGap(in, credit) == in.book - credit

VaultRedeem(context, in) ==
    LET credit == in.vault.assets - RedeemFee(in.vault)
    IN  Answer(Stale({in.vault, in.gas, in.conversion}, context)
                 \cup RoundExpired(in.conversion, context)
                 \cup Fault(in.gas.amount # in.book, "DATA_UNAVAILABLE")
                 \cup Fault(in.shares > in.vault.maxRedeem \/ in.vault.assets > in.vault.maxWithdraw,
                            "LIMIT_EXCEEDED")
                 \cup Fault(in.vault.assets > in.vault.exit, "LIQUIDITY_UNAVAILABLE")
                 \cup Fault(credit < 0 \/ credit > in.book, "CREATES")
                 \cup NoGas(in.gas, in.conversion),
               <<Pinned(context, 0, <<context.scenario, "vault-redeem">>, "WITHDRAW",
                        {GasCost(<<context.scenario, "vault-redeem-gas">>, in.gas,
                                 in.conversion, context)}
                          \cup Withheld(<<context.scenario, "vault-exit-gap">>, context,
                                        ExitGap(in, credit)),
                        [family |-> context.family, position |-> in.position,
                         shares |-> in.shares, amount |-> credit])>>)

(* selectUniswapQuote: gas is the same for every pool, so the best quote is  *)
(* the one with the highest output; which pool of equals does not matter.   *)
Candidates(in) == {q \in in.quotes : q.amount = in.amount /\ q.pair = in.pair}
Selected(in) == CHOOSE q \in Candidates(in) : \A o \in Candidates(in) : o.out <= q.out

(* All observations are loaded, the candidates among them or not. *)
SelectFaults(context, in) ==
    Stale(in.quotes \cup {in.gas, in.conversion}, context)
      \cup RoundExpired(in.conversion, context)
      \cup Fault(in.gas.amount # in.amount, "DATA_UNAVAILABLE")
      \cup NoGas(in.gas, in.conversion)
      \cup (IF Candidates(in) = {} THEN {"QUOTE_UNAVAILABLE"}
            ELSE Fault(Selected(in).out < in.minimum, "SLIPPAGE_EXCEEDED")
                   \cup Fault(Selected(in).out > in.amount, "CREATES"))

UniswapSwap(context, in) ==
    Answer(SelectFaults(context, in),
           <<Pinned(context, 0, <<context.scenario, "uniswap-swap">>, "SWAP",
                    {GasCost(<<context.scenario, "swap-gas">>, in.gas, in.conversion, context)}
                      \cup Withheld(<<context.scenario, "swap-fee-impact">>, context,
                                    in.amount - Selected(in).out),
                    [family |-> in.pair[1], into |-> in.pair[2], amount |-> in.amount,
                     credit |-> Selected(in).out])>>)

--------------------------------------------------------------------------------
(* planAllocation: one investment, the rest cash, within the policy.  The   *)
(* amount follows the initial capital, not what is available now.           *)
PlannedAmount(p, weight) == Floor(p.initial, weight, Bps)

PlanFaults(p, intent, policy) ==
    Fault(intent.slippage > policy.maxSlippage, "POLICY_VIOLATION")
      \cup Fault(intent.weight > policy.maxWeight, "POLICY_VIOLATION")
      \cup Fault(Bps - intent.weight < policy.minCash, "POLICY_VIOLATION")
      \cup Fault(PlannedAmount(p, intent.weight) = 0, "POLICY_VIOLATION")
      \cup Fault(intent.maxCost = 0, "POLICY_VIOLATION")

(* prepareSyntheticM3Execution: every step of an action is dated one offset  *)
(* after the one before it, the first after the action was received and     *)
(* after the last receipt of the portfolio.                                  *)
FirstStepAt(p, received) == Max({received, p.last}) + StepOffset

Dated(receipts) ==
    [i \in DOMAIN receipts |-> [receipts[i] EXCEPT !.at = @ + (i - 1) * StepOffset]]

PlannedCost(receipts) ==
    Total([i \in DOMAIN receipts |-> Amounts(receipts[i].costs)])

(* The planned deposit, if its costs are within the signed maximum. *)
Prepared(supply, faults, intent) ==
    Answer(faults \cup supply.faults
             \cup Fault(PlannedCost(supply.receipts) > intent.maxCost, "POLICY_VIOLATION"),
           Dated(supply.receipts))

PreparedSupply(p, context, intent, policy, in) ==
    Prepared(AaveSupply(context, in), PlanFaults(p, intent, policy), intent)
===============================================================================
