---------------------------- MODULE TransferLedger ----------------------------
(***************************************************************************)
(* The part of a scenario portfolio that transfers move: available cash,   *)
(* reservations, receivables, payables, recognized costs.  Each action is  *)
(* the branch of applyReceipt for one transfer receipt, written without    *)
(* reference to the lifecycle, whose state the code does not consult here. *)
(*                                                                         *)
(* A receipt carries a list of costs.  Each is paid in cash by a balance   *)
(* family, owed as a payable, or withheld from what the receipt moves.     *)
(* Positions and rounding do not meet transfers.                           *)
(***************************************************************************)
EXTENDS TransferDomain, FiniteSets, Functions

CONSTANTS
  Family,             \* canonical balance families
  Source, Dest,       \* [Transfer -> Family]
  Amount, Net,        \* [Transfer -> Nat] : reserved, receivable
  Opening,            \* [Family -> Nat] : initial cash
  PortfolioAttempts   \* maxDestinationAttempts of the portfolio

(* A portfolio has the transfers and the balances its scenario has rows for. *)
ASSUME LedgerAssumption ==
  /\ IsFiniteSet(Transfer)
  /\ IsFiniteSet(Family)
  /\ Source \in [Transfer -> Family]
  /\ Dest \in [Transfer -> Family]
  /\ Amount \in [Transfer -> Nat]
  /\ Net \in [Transfer -> Nat]
  /\ Opening \in [Family -> Nat]
  /\ PortfolioAttempts \in Nat

VARIABLES
  cash,        \* [Family -> Nat]
  reserved,    \* [Transfer -> BOOLEAN] : the reservation exists
  receivable,  \* [Transfer -> Receivable], state NONE when there is none
  owed,        \* total of payables
  spent        \* total of recognized costs

ledgerVars == <<cash, reserved, receivable, owed, spent>>

Receivable ==
  [state : {"NONE", "IN_TRANSIT", "DELAYED", "READY_TO_RECEIVE", "DESTINATION_RETRY"},
   tries : 0..PortfolioAttempts, message : Message \cup {NoMessage}]

NoReceivable == [state |-> "NONE", tries |-> 0, message |-> NoMessage]

(* The costs of one receipt, added up by how each is funded. *)
Costs == [paid : [Family -> Nat], payable : Nat, withheld : Nat]

LedgerInit ==
  /\ cash = Opening
  /\ reserved = [t \in Transfer |-> FALSE]
  /\ receivable = [t \in Transfer |-> NoReceivable]
  /\ owed = 0
  /\ spent = 0

InState(t, states) == receivable[t].state \in states

(* The units of a transfer outside available cash. *)
Held(t) ==
  (IF reserved[t] THEN Amount[t] ELSE 0)
    + (IF InState(t, {"NONE"}) THEN 0 ELSE Net[t])

Holding == [t \in Transfer |-> Held(t)]

(* assertPortfolio: liabilities never exceed gross assets. *)
Solvent == owed <= SumFunction(cash) + SumFunction(Holding)

Recognized(costs) == SumFunction(costs.paid) + costs.payable + costs.withheld

(* A relayer's charge that is recognized and never becomes a payable. *)
ForgottenDebtMutant(costs) == owed

Indebted(costs) == owed + costs.payable

(* applyCosts, on the cash the receipt leaves: what is withheld is exactly
   what its branch moved too little, payables leave cash alone. *)
ApplyCosts(money, costs, gap) ==
  /\ costs.withheld = gap
  /\ \A f \in Family : costs.paid[f] <= money[f]
  /\ cash' = [f \in Family |-> money[f] - costs.paid[f]]
  /\ owed' = Indebted(costs)
  /\ spent' = spent + Recognized(costs)

OverdraftMutant(t) == TRUE

(* debitCash *)
Available(t) == cash[Source[t]] >= Amount[t]

(* RESERVE *)
ReserveCash(t) ==
  /\ ~reserved[t]
  /\ Available(t)
  /\ cash' = [cash EXCEPT ![Source[t]] = @ - Amount[t]]
  /\ reserved' = [reserved EXCEPT ![t] = TRUE]
  /\ UNCHANGED <<receivable, owed, spent>>
  /\ Solvent'

(* TRANSFER_SOURCE_FAILED: whatever its costs withhold is not given back. *)
SourceFailed(t, costs) ==
  /\ reserved[t]
  /\ costs.withheld <= Amount[t]
  /\ ApplyCosts([cash EXCEPT ![Source[t]] = @ + (Amount[t] - costs.withheld)],
                costs, costs.withheld)
  /\ reserved' = [reserved EXCEPT ![t] = FALSE]
  /\ UNCHANGED receivable
  /\ Solvent'

(* Only receivables still open remember their message. *)
UnknownMessage(m) ==
  \A u \in Transfer : InState(u, {"NONE"}) \/ receivable[u].message # m

(* The reservation is replaced, the receivable is added to it. *)
KeepReservationMutant(t) == reserved

DropReservation(t) == [reserved EXCEPT ![t] = FALSE]

(* TRANSFER_BURNED: what is withheld is exactly what will not arrive. *)
Burned(t, m, costs) ==
  /\ reserved[t]
  /\ InState(t, {"NONE"}) /\ UnknownMessage(m)
  /\ Source[t] # Dest[t]
  /\ Net[t] <= Amount[t]
  /\ ApplyCosts(cash, costs, Amount[t] - Net[t])
  /\ reserved' = DropReservation(t)
  /\ receivable' = [receivable EXCEPT ![t] =
                      [state |-> "IN_TRANSIT", tries |-> 0, message |-> m]]
  /\ Solvent'

TriesLeft(t) == receivable[t].tries < PortfolioAttempts

Update(t, row, costs) ==
  /\ ApplyCosts(cash, costs, 0)
  /\ receivable' = [receivable EXCEPT ![t] = row]
  /\ UNCHANGED reserved
  /\ Solvent'

Ready(t, costs) ==
  /\ \/ InState(t, {"IN_TRANSIT", "DELAYED"})
     \/ InState(t, {"DESTINATION_RETRY"}) /\ TriesLeft(t)
  /\ Update(t, [receivable[t] EXCEPT !.state = "READY_TO_RECEIVE"], costs)

(* A receivable is delayed once: a second delay event is refused here. *)
Delayed(t, costs) ==
  /\ InState(t, {"IN_TRANSIT"})
  /\ Update(t, [receivable[t] EXCEPT !.state = "DELAYED"], costs)

DestinationRetry(t, costs) ==
  /\ InState(t, {"READY_TO_RECEIVE"}) /\ TriesLeft(t)
  /\ Update(t, [receivable[t] EXCEPT !.state = "DESTINATION_RETRY",
                                     !.tries = @ + 1], costs)

(* TRANSFER_SETTLED: the receivable is credited in full before the costs of
   the settlement are applied. *)
Settled(t, costs) ==
  /\ InState(t, {"READY_TO_RECEIVE"})
  /\ ApplyCosts([cash EXCEPT ![Dest[t]] = @ + Net[t]], costs, 0)
  /\ receivable' = [receivable EXCEPT ![t] = NoReceivable]
  /\ UNCHANGED reserved
  /\ Solvent'
=============================================================================
