--------------------------- MODULE PortfolioReducer ---------------------------
(***************************************************************************)
(* The accounting reducer: a shadow portfolio and the receipts that change *)
(* it.  ApplyReceipt is a function, as in the code: what a receipt of each *)
(* kind moves, the costs on top of it, and every reason to refuse it.      *)
(*                                                                         *)
(* Identities are model values or tuples, amounts small integers below     *)
(* UintLimit (2^256 in the code).  A view stands for its balance family.   *)
(* A refused receipt leaves the portfolio as it was, so the reasons are a  *)
(* set: the code throws at the first of them.                              *)
(***************************************************************************)
EXTENDS Integers, Sequences, FiniteSets, Functions

CONSTANTS
  Family,              \* canonical balance families
  NetworkOf,           \* [Family -> networks]
  UintLimit,           \* amounts and indexes are below it
  DestinationAttempts, \* maxDestinationAttempts
  None                 \* null

ASSUME ReducerAssumption ==
    /\ IsFiniteSet(Family) /\ UintLimit \in Nat /\ DestinationAttempts \in Nat
    /\ None \notin Nat

CeilDiv(a, d) == (a + d - 1) \div d

(* mulDiv, rounding FLOOR and CEIL *)
Floor(a, b, d) == (a * b) \div d
Ceil(a, b, d) == CeilDiv(a * b, d)

Fits(n) == n >= 0 /\ n < UintLimit

Fault(bad, reason) == IF bad THEN {reason} ELSE {}

(* A record and the further fields of another. *)
Joined(r, s) ==
    [field \in DOMAIN r \cup DOMAIN s |-> IF field \in DOMAIN r THEN r[field] ELSE s[field]]

Amounts(rows) == SumFunction([x \in rows |-> x.amount])
Total(f) == SumFunction(f)
With(rows, id) == {x \in rows : x.id = id}
The(rows, id) == CHOOSE x \in rows : x.id = id
Distinct(rows) == \A x, y \in rows : x.id = y.id => x = y

--------------------------------------------------------------------------------
(* The schemas of a cost and of a receipt.  Zero is refused by the schema    *)
(* for most amounts; what follows holds for zero too.                        *)
TransferMove == {"TRANSFER_READY", "TRANSFER_DELAYED", "TRANSFER_DESTINATION_RETRY",
                 "TRANSFER_SETTLED"}

Fields ==
    [NO_EFFECT |-> {}, COST |-> {}, CLOSE |-> {},
     RESERVE |-> {"id", "family", "amount"}, APPROVE |-> {"id", "amount"},
     DEPOSIT |-> {"family", "position", "shares", "num", "den", "amount"},
     WITHDRAW |-> {"family", "position", "shares", "amount"},
     SWAP |-> {"family", "into", "amount", "credit"},
     PAYABLE_SETTLED |-> {"id", "family"},
     TRANSFER_SOURCE_FAILED |-> {"reservation"},
     TRANSFER_BURNED |-> {"reservation", "id", "message", "family", "amount"},
     TRANSFER_READY |-> {"id"}, TRANSFER_DELAYED |-> {"id"},
     TRANSFER_DESTINATION_RETRY |-> {"id"}, TRANSFER_SETTLED |-> {"id", "amount"},
     ACCRUE |-> {"position", "num", "den"}]

Valid(r, field) ==
    CASE field \in {"family", "into"} -> r[field] \in Family
      [] field \in {"amount", "credit", "shares", "num"} -> r[field] \in Nat
      [] field = "den" -> r[field] \in Nat \ {0}
      [] OTHER -> TRUE

IsCost(c) ==
    /\ c.funding \in {"AVAILABLE_CASH", "PAYABLE", "WITHHELD"} /\ c.amount \in Nat
    /\ c.funding = "AVAILABLE_CASH" => c.family \in Family

IsReceipt(r) ==
    /\ r.kind \in DOMAIN Fields
    /\ DOMAIN r = {"op", "version", "at", "kind", "costs"} \cup Fields[r.kind]
    /\ \A field \in Fields[r.kind] : Valid(r, field)
    /\ r.version \in Nat /\ r.at \in Nat
    /\ IsFiniteSet(r.costs) /\ \A c \in r.costs : IsCost(c)

--------------------------------------------------------------------------------
CreatePortfolio(opening) ==
    [version |-> 0, initial |-> Total(opening), cash |-> opening,
     reservations |-> {}, positions |-> {}, receivables |-> {}, payables |-> {},
     allowances |-> {}, costs |-> {}, pnl |-> 0, applied |-> << >>,
     last |-> 0, closed |-> None, deadline |-> None]

(* positionBook: a position is worth its shares at its index, rounded down. *)
Rebooked(x) ==
    [x EXCEPT !.book = Floor(x.shares, x.num, x.den),
              !.rest = (x.shares * x.num) % x.den]

Books(p) == SumFunction([x \in p.positions |-> x.book])
Gross(p) == Total(p.cash) + Amounts(p.reservations) + Books(p) + Amounts(p.receivables)

(* globalBookValue *)
GlobalBook(p) == Gross(p) - Amounts(p.payables)

--------------------------------------------------------------------------------
(* A receipt before its costs: the portfolio it leaves, the value that must *)
(* be explained by withheld costs, the reasons to refuse it.                *)
Moves(p, gap, faults) == [portfolio |-> p, gap |-> gap, faults |-> faults]
Refuses(p, reason) == Moves(p, 0, {reason})

Reserve(p, r) ==
    Moves([p EXCEPT !.cash[r.family] = @ - r.amount,
                    !.reservations = @ \cup
                        {[id |-> r.id, op |-> r.op, family |-> r.family, amount |-> r.amount]}],
          0,
          Fault(r.costs # {}, "COSTS") \cup Fault(With(p.reservations, r.id) # {}, "EXISTS"))

(* A sufficient allowance is set again, and lowered, but costs nothing. *)
Approve(p, r) ==
    Moves([p EXCEPT !.allowances =
              (@ \ With(@, r.id)) \cup {[id |-> r.id, amount |-> r.amount]}],
          0,
          Fault(r.costs # {} /\ \E a \in With(p.allowances, r.id) : a.amount >= r.amount,
                "COSTS"))

Deposit(p, r) ==
    LET held == With(p.positions, r.position)
        before == IF held # {} THEN The(held, r.position)
                  ELSE [id |-> r.position, family |-> r.family, shares |-> 0,
                        num |-> r.num, den |-> r.den, book |-> 0, rest |-> 0, at |-> r.at]
        after == Rebooked([before EXCEPT !.shares = @ + r.shares, !.at = r.at])
        credit == after.book - before.book
    IN  Moves([p EXCEPT !.cash[r.family] = @ - r.amount,
                        !.positions = (@ \ held) \cup {after}],
              r.amount - credit,
              Fault(<<before.family, before.num, before.den>> # <<r.family, r.num, r.den>>,
                    "INDEX")
                \cup Fault(credit > r.amount, "CREATES")
                \cup Fault(~Fits(after.shares) \/ ~Fits(after.book), "OVERFLOW"))

ProportionalDebitMutant(before, after) ==
    Floor(before.shares - after.shares, before.num, before.den)

(* What a withdrawal takes from the book: never the value of its shares alone. *)
BookDebit(before, after) == before.book - after.book

Withdraw(p, r) ==
    IF With(p.positions, r.position) = {} THEN Refuses(p, "ABSENT")
    ELSE LET before == The(p.positions, r.position)
             after == Rebooked([before EXCEPT !.shares = @ - r.shares, !.at = r.at])
             debit == BookDebit(before, after)
         IN  Moves([p EXCEPT !.cash[r.family] = @ + r.amount,
                             !.positions = (@ \ {before}) \cup
                                 (IF after.shares = 0 THEN {} ELSE {after})],
                   debit - r.amount,
                   Fault(before.family # r.family, "IDENTITY")
                     \cup Fault(r.shares > before.shares, "SHARES")
                     \cup Fault(r.amount > debit, "CREATES"))

Swap(p, r) ==
    LET paid == [p EXCEPT !.cash[r.family] = @ - r.amount]
    IN  Moves([paid EXCEPT !.cash[r.into] = @ + r.credit],
              r.amount - r.credit,
              Fault(r.family = r.into \/ NetworkOf[r.family] # NetworkOf[r.into], "IDENTITY")
                \cup Fault(r.credit > r.amount, "CREATES"))

(* PAYABLE_SETTLED: a cost recognized earlier is paid from its network's cash. *)
SettlePayable(p, r) ==
    IF With(p.payables, r.id) = {} THEN Refuses(p, "ABSENT")
    ELSE LET due == The(p.payables, r.id)
         IN  Moves([p EXCEPT !.cash[r.family] = @ - due.amount, !.payables = @ \ {due}],
                   0, Fault(due.network # NetworkOf[r.family], "IDENTITY"))

Burn(p, r) ==
    IF With(p.reservations, r.reservation) = {} THEN Refuses(p, "ABSENT")
    ELSE LET held == The(p.reservations, r.reservation)
         IN  Moves([p EXCEPT !.reservations = @ \ {held},
                             !.receivables = @ \cup
                                 {[id |-> r.id, message |-> r.message, family |-> r.family,
                                   amount |-> r.amount, state |-> "IN_TRANSIT",
                                   tries |-> 0, at |-> r.at]}],
                   held.amount - r.amount,
                   Fault(\E x \in p.receivables : x.id = r.id \/ x.message = r.message, "EXISTS")
                     \cup Fault(NetworkOf[held.family] = NetworkOf[r.family], "IDENTITY")
                     \cup Fault(r.amount > held.amount, "CREATES"))

SourceFailed(p, r) ==
    IF With(p.reservations, r.reservation) = {} THEN Refuses(p, "ABSENT")
    ELSE LET held == The(p.reservations, r.reservation)
             withheld == Amounts({c \in r.costs : c.funding = "WITHHELD"})
         IN  Moves([p EXCEPT !.reservations = @ \ {held},
                             !.cash[held.family] = @ + (held.amount - withheld)],
                   withheld, Fault(withheld > held.amount, "CREATES"))

(* The states a receivable may move from, and whether another try is left. *)
MayMove(kind, x) ==
    \/ kind = "TRANSFER_READY" /\ x.state \in {"IN_TRANSIT", "DELAYED"}
    \/ kind = "TRANSFER_READY" /\ x.state = "DESTINATION_RETRY" /\ x.tries < DestinationAttempts
    \/ kind = "TRANSFER_DELAYED" /\ x.state = "IN_TRANSIT"
    \/ kind = "TRANSFER_DESTINATION_RETRY" /\ x.state = "READY_TO_RECEIVE" /\ x.tries < DestinationAttempts
    \/ kind = "TRANSFER_SETTLED" /\ x.state = "READY_TO_RECEIVE"

MoveTransfer(p, r) ==
    IF With(p.receivables, r.id) = {} THEN Refuses(p, "ABSENT")
    ELSE LET x == The(p.receivables, r.id)
             left == p.receivables \ {x}
             to(state, tries) == left \cup {[x EXCEPT !.state = state, !.tries = tries, !.at = r.at]}
             faults == Fault(~MayMove(r.kind, x), "TRANSITION")
         IN  CASE r.kind = "TRANSFER_READY" ->
                    Moves([p EXCEPT !.receivables = to("READY_TO_RECEIVE", x.tries)], 0, faults)
               [] r.kind = "TRANSFER_DELAYED" ->
                    Moves([p EXCEPT !.receivables = to("DELAYED", x.tries)], 0, faults)
               [] r.kind = "TRANSFER_DESTINATION_RETRY" ->
                    Moves([p EXCEPT !.receivables = to("DESTINATION_RETRY", x.tries + 1)],
                          0, faults)
               [] r.kind = "TRANSFER_SETTLED" ->
                    Moves([p EXCEPT !.receivables = left, !.cash[x.family] = @ + r.amount],
                          x.amount - r.amount,
                          faults \cup Fault(r.amount > x.amount, "CREATES"))

Accrue(p, r) ==
    IF With(p.positions, r.position) = {} THEN Refuses(p, "ABSENT")
    ELSE IF ~Fits(r.num) \/ ~Fits(r.den) THEN Refuses(p, "OVERFLOW")
    ELSE LET before == The(p.positions, r.position)
             after == Rebooked([before EXCEPT !.num = r.num, !.den = r.den, !.at = r.at])
         IN  Moves([p EXCEPT !.positions = (@ \ {before}) \cup {after},
                             !.pnl = @ + (after.book - before.book)],
                   0,
                   Fault(r.costs # {}, "COSTS")
                     \cup Fault(r.at <= before.at, "TIME")
                     \cup Fault(~Fits(after.book), "OVERFLOW"))

(* CLOSE: the portfolio before it, known by its version, is the deadline state. *)
Close(p, r) == Moves([p EXCEPT !.closed = r.at, !.deadline = p.version], 0, {})

Effect(p, r) ==
    CASE r.kind \in {"NO_EFFECT", "COST"} -> Moves(p, 0, {})
      [] r.kind = "RESERVE" -> Reserve(p, r)
      [] r.kind = "APPROVE" -> Approve(p, r)
      [] r.kind = "DEPOSIT" -> Deposit(p, r)
      [] r.kind = "WITHDRAW" -> Withdraw(p, r)
      [] r.kind = "SWAP" -> Swap(p, r)
      [] r.kind = "PAYABLE_SETTLED" -> SettlePayable(p, r)
      [] r.kind = "TRANSFER_SOURCE_FAILED" -> SourceFailed(p, r)
      [] r.kind = "TRANSFER_BURNED" -> Burn(p, r)
      [] r.kind \in TransferMove -> MoveTransfer(p, r)
      [] r.kind = "ACCRUE" -> Accrue(p, r)
      [] r.kind = "CLOSE" -> Close(p, r)

--------------------------------------------------------------------------------
Funded(costs, funding) == {c \in costs : c.funding = funding}

(* applyCosts: paid in cash, owed, or withheld from what the receipt moved. *)
Charged(p, r) ==
    [p EXCEPT !.cash = [f \in Family |->
                  p.cash[f] - Amounts({c \in Funded(r.costs, "AVAILABLE_CASH") : c.family = f})],
              !.payables = @ \cup {[id |-> c.id, network |-> c.network, amount |-> c.amount] :
                                     c \in Funded(r.costs, "PAYABLE")},
              !.costs = @ \cup {[id |-> c.id, op |-> r.op, funding |-> c.funding,
                                 amount |-> c.amount] : c \in r.costs}]

CostFaults(p, moved, r) ==
    Fault(~Distinct(r.costs) \/ \E c \in r.costs : With(p.costs, c.id) # {}, "COST_KNOWN")
      \cup Fault(\E c \in Funded(r.costs, "AVAILABLE_CASH") : c.network # NetworkOf[c.family],
                 "IDENTITY")
      \cup Fault(Amounts(Funded(r.costs, "WITHHELD")) # moved.gap, "GAP")

(* Branches credit before they debit, a swap two families: a family short of *)
(* cash at any point is short at the end, one over the limit before its costs. *)
StateFaults(moved, charged) ==
    Fault(\E f \in Family : charged.cash[f] < 0, "CASH")
      \cup Fault(\E f \in Family : moved.portfolio.cash[f] >= UintLimit, "OVERFLOW")
      \cup Fault(Amounts(charged.payables) > Gross(charged), "INSOLVENT")

(* The receipt becomes part of the history its version counts. *)
Recorded(p, r) ==
    [p EXCEPT !.version = @ + 1, !.last = r.at,
              !.applied = Append(@, [op |-> r.op, receipt |-> r, version |-> p.version + 1])]

Outcome(p, faults) == [portfolio |-> p, faults |-> faults]

Prior(p, r) == {i \in DOMAIN p.applied : p.applied[i].op = r.op}

(* A receipt counts whole or not at all. *)
Decided(p, next, faults) == Outcome(IF faults = {} THEN next ELSE p, faults)

Applied(p, r, moved) ==
    LET charged == Charged(moved.portfolio, r)
    IN  Decided(p, Recorded(charged, r),
                moved.faults \cup CostFaults(p, moved, r) \cup StateFaults(moved, charged))

(* The guards before any branch: an operation applied before is answered    *)
(* with the portfolio as it is, if its content is the same.                 *)
ApplyReceipt(p, r) ==
    IF Prior(p, r) # {}
      THEN Outcome(p, Fault(\E i \in Prior(p, r) : p.applied[i].receipt # r, "CONFLICT"))
    ELSE IF r.version # p.version THEN Outcome(p, {"STALE"})
    ELSE IF r.at < p.last THEN Outcome(p, {"TIME"})
    ELSE IF p.closed # None /\ r.kind \notin TransferMove THEN Outcome(p, {"CLOSED"})
    ELSE Applied(p, r, Effect(p, r))

--------------------------------------------------------------------------------
(* assertPortfolio: what every portfolio the reducer returns must satisfy. *)
AssertPortfolio(p) ==
    /\ Distinct(p.reservations) /\ Distinct(p.positions) /\ Distinct(p.receivables)
    /\ Distinct(p.payables) /\ Distinct(p.allowances) /\ Distinct(p.costs)
    /\ \A x, y \in p.receivables : x.message = y.message => x = y
    /\ p.version = Len(p.applied)
    /\ \A i \in DOMAIN p.applied :
         /\ p.applied[i].version = i
         /\ \A j \in DOMAIN p.applied : p.applied[i].op = p.applied[j].op => i = j
    /\ \A x \in p.positions : x = Rebooked(x) /\ x.at <= p.last
    /\ \A x \in p.receivables : x.tries <= DestinationAttempts /\ x.at <= p.last
    /\ \A x \in p.payables : \E c \in p.costs :
         c.id = x.id /\ c.funding = "PAYABLE" /\ c.amount = x.amount
    /\ \A c \in p.costs \cup p.reservations : \E i \in DOMAIN p.applied : p.applied[i].op = c.op
    /\ GlobalBook(p) >= 0
    /\ GlobalBook(p) = p.initial + p.pnl - Amounts(p.costs)
    /\ (p.closed = None) <=> (p.deadline = None)

(* valuePortfolio: inputs are one row per open position.  In transit is part *)
(* of the mark and not of what can be liquidated.                           *)
LiquidSum(p, sum) == Total(p.cash) + Amounts(p.reservations) + sum

MarkValue(p, inputs) ==
    LiquidSum(p, Amounts(p.receivables) + SumFunction([x \in inputs |-> x.mark]))
      - Amounts(p.payables)

LiquidationValue(p, inputs) ==
    LiquidSum(p, SumFunction([x \in inputs |-> x.recoverable - x.exit])) - Amounts(p.payables)

Unavailable(inputs) == \E x \in inputs : x.quality = "UNAVAILABLE"

ValuationFaults(p, inputs) ==
    Fault({x.id : x \in inputs} # {x.id : x \in p.positions} \/ ~Distinct(inputs), "INPUTS")
      \cup (IF Unavailable(inputs) THEN {}
            ELSE Fault(\E x \in inputs : x.exit > x.recoverable, "EXIT")
                   \cup Fault(MarkValue(p, inputs) < 0 \/ LiquidationValue(p, inputs) < 0,
                              "LIABILITIES"))

ValuePortfolio(p, inputs) ==
    [mark |-> IF Unavailable(inputs) THEN None ELSE MarkValue(p, inputs),
     liquidation |-> IF Unavailable(inputs) THEN None ELSE LiquidationValue(p, inputs),
     blocked |-> IF Unavailable(inputs) THEN None
                 ELSE SumFunction([x \in inputs |-> IF x.recoverable < x.mark
                                                  THEN x.mark - x.recoverable ELSE 0]),
     transit |-> Amounts(p.receivables)]
===============================================================================
