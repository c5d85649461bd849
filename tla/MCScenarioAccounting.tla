------------------------- MODULE MCScenarioAccounting -------------------------
(***************************************************************************)
(* A capital of eight units on the first of three families.                *)
(***************************************************************************)
EXTENDS ScenarioAccounting

CONSTANTS home, twin, far, alice, bob

MCFamily == {home, twin, far}
MCNetworkOf == [f \in MCFamily |-> IF f = far THEN "arc" ELSE "ethereum"]
MCOpening == [f \in MCFamily |-> IF f = home THEN 8 ELSE 0]
MCFunds == [h \in {alice, bob} |-> 3]

MCPolicy == [maxSlippage |-> 1, maxWeight |-> 3, minCash |-> 1]
MCIntents == {[weight |-> 2, slippage |-> 1, maxCost |-> 2]}
MCReserves == {[open |-> TRUE, cap |-> 0, supplied |-> 0, liquidity |-> 9, ray |-> 2],
               [open |-> TRUE, cap |-> 9, supplied |-> 1, liquidity |-> 3, ray |-> 3]}
MCConversion == [num |-> 1, den |-> 2, updated |-> 0, heartbeat |-> 4]
MCQuotes == {[amount |-> 2, pair |-> <<home, twin>>, out |-> 1],
             [amount |-> 2, pair |-> <<home, twin>>, out |-> 2],
             [amount |-> 1, pair |-> <<twin, home>>, out |-> 1],
             [amount |-> 3, pair |-> <<home, twin>>, out |-> 2]}
MCScript == [invested |-> 4, transfer |-> 2, gas |-> 1, failedGas |-> 1, days |-> 4, turn |-> 3]

MCCost(id, funding, amount) ==
    {[id |-> id, funding |-> funding, amount |-> amount, network |-> "ethereum",
      family |-> IF funding = "AVAILABLE_CASH" THEN home ELSE None]}

(* Withdrawals of part of a position at an index that does not divide. *)
MCDirect ==
    {[kind |-> "DEPOSIT", costs |-> {}, family |-> home, position |-> "p", shares |-> 4,
      num |-> 3, den |-> 4, amount |-> 3],
     [kind |-> "DEPOSIT", costs |-> MCCost("entry", "WITHHELD", 1), family |-> home,
      position |-> "p", shares |-> 1, num |-> 3, den |-> 4, amount |-> 1],
     [kind |-> "ACCRUE", costs |-> {}, position |-> "p", num |-> 3, den |-> 2],
     [kind |-> "ACCRUE", costs |-> {}, position |-> "p", num |-> 1, den |-> 2],
     [kind |-> "RESERVE", costs |-> {}, id |-> "r", family |-> home, amount |-> 2],
     [kind |-> "TRANSFER_SOURCE_FAILED", costs |-> MCCost("source", "WITHHELD", 1),
      reservation |-> "r"],
     [kind |-> "COST", costs |-> MCCost("owed", "PAYABLE", 1)],
     [kind |-> "PAYABLE_SETTLED", costs |-> {}, id |-> "owed", family |-> home],
     [kind |-> "CLOSE", costs |-> {}]}
    \cup {[kind |-> "WITHDRAW", costs |-> w.costs, family |-> home, position |-> "p",
           shares |-> w.shares, amount |-> w.amount] :
            w \in {[shares |-> 1, amount |-> 0, costs |-> MCCost("exit", "WITHHELD", 1)],
                   [shares |-> 1, amount |-> 1, costs |-> {}],
                   [shares |-> 3, amount |-> 2, costs |-> {}],
                   [shares |-> 3, amount |-> 1, costs |-> MCCost("exit", "WITHHELD", 1)]}}

MCMaxSteps == [w \in AllWorkloads |->
    CASE w \in {"AAVE", "SWAP"} -> 4 [] w \in {"VAULT", "DIRECT", "MARKET"} -> 5
      [] OTHER -> 0]
MCMaxTime == [w \in AllWorkloads |-> IF w \in {"AAVE", "SWAP", "MARKET"} THEN 3 ELSE 1]
===============================================================================
