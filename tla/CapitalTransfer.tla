--------------------------- MODULE CapitalTransfer ---------------------------
(***************************************************************************)
(* What accounting promises of a cross-chain transfer (ADR 0006): the same *)
(* units move from available cash to a reservation, then to one receivable *)
(* nobody can spend, then once to destination cash; a failed source        *)
(* releases the reservation.  Costs are paid in cash, withheld or owed, and *)
(* never exceed the capital.  Events, workers and queue are left out:      *)
(* TransferQueue implements this specification.                            *)
(***************************************************************************)
EXTENDS Naturals, Functions

CONSTANTS
  Transfer,  \* transfers of one capital scenario
  Family,    \* canonical balance families (cash on one network)
  Source,    \* [Transfer -> Family] debited
  Dest,      \* [Transfer -> Family] credited
  Amount,    \* [Transfer -> Nat] units reserved
  Net,       \* [Transfer -> Nat] units receivable after the route's fee
  Opening,   \* [Family -> Nat] initial cash
  Cost       \* costs one event may carry, by funding: [paid, payable, withheld]

VARIABLES
  place,     \* where the units of each transfer are
  cash,      \* [Family -> Nat] available
  owed,      \* recognized costs not yet paid
  spent      \* recognized costs

vars == <<place, cash, owed, spent>>

Place == {"CASH", "RESERVATION", "RECEIVABLE", "CREDITED", "RELEASED"}

Init ==
  /\ place = [t \in Transfer |-> "CASH"]
  /\ cash = Opening
  /\ owed = 0
  /\ spent = 0

(* The costs of one event, of which lost units are withheld, are taken from
   the cash it leaves or become a debt; the capital must bear all of them. *)
Book(gain, costs, lost) ==
  /\ costs.withheld = lost
  /\ \A f \in Family : costs.paid[f] <= gain[f]
  /\ cash' = [f \in Family |-> gain[f] - costs.paid[f]]
  /\ owed' = owed + costs.payable
  /\ spent' = spent + SumFunction(costs.paid) + costs.payable + lost
  /\ spent' <= SumFunction(Opening)

Move(t, from, to) ==
  /\ place[t] = from
  /\ place' = [place EXCEPT ![t] = to]

Reserve(t) ==
  /\ Move(t, "CASH", "RESERVATION")
  /\ cash[Source[t]] >= Amount[t]
  /\ cash' = [cash EXCEPT ![Source[t]] = @ - Amount[t]]
  /\ UNCHANGED <<owed, spent>>

Release(t, costs) ==
  /\ Move(t, "RESERVATION", "RELEASED")
  /\ costs.withheld <= Amount[t]
  /\ Book([cash EXCEPT ![Source[t]] = @ + (Amount[t] - costs.withheld)],
          costs, costs.withheld)

Depart(t, costs) ==
  /\ Move(t, "RESERVATION", "RECEIVABLE")
  /\ Net[t] <= Amount[t]
  /\ Book(cash, costs, Amount[t] - Net[t])

(* Attestation and destination attempts cost, and move nothing. *)
Attempt(t, costs) ==
  /\ place[t] = "RECEIVABLE"
  /\ Book(cash, costs, 0)
  /\ UNCHANGED place

Arrive(t, costs) ==
  /\ Move(t, "RECEIVABLE", "CREDITED")
  /\ Book([cash EXCEPT ![Dest[t]] = @ + Net[t]], costs, 0)

Next ==
  \E t \in Transfer :
    \/ Reserve(t)
    \/ \E costs \in Cost :
         Release(t, costs) \/ Depart(t, costs) \/ Attempt(t, costs) \/ Arrive(t, costs)

Spec == Init /\ [][Next]_vars
=============================================================================
