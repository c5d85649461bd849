--------------------------- MODULE FinancialAction ---------------------------
(***************************************************************************)
(* What the action pipeline promises an agent, without the queue, leases,  *)
(* workers, retries and crashes that realise it: an accepted action owns   *)
(* its capital scenario, takes its effects once each and in plan order,    *)
(* and settles once with an outcome that tells the truth about them.       *)
(* ActionExecution implements this specification.                          *)
(***************************************************************************)
EXTENDS Naturals

CONSTANTS
  Action,      \* signed intents an agent may submit
  Scenario,    \* capital scenarios of one experiment
  ScenarioOf,  \* the scenario each intent names
  NumOps,      \* financial operations of an execution plan
  NoAction     \* the empty active-action marker

Ops      == 1..NumOps
Live     == {"ACCEPTED", "IN_PROGRESS"}
Terminal == {"SUCCEEDED", "PARTIALLY_SUCCEEDED", "FAILED", "EXPIRED"}
Status   == {"NONE"} \cup Live \cup Terminal

VARIABLES
  status,   \* [Action -> Status]
  done,     \* [Action -> SUBSET Ops] : effects taken
  active    \* [Scenario -> Action \cup {NoAction}]

vars == <<status, done, active>>

Init ==
  /\ status = [a \in Action |-> "NONE"]
  /\ done = [a \in Action |-> {}]
  /\ active = [s \in Scenario |-> NoAction]

Accept(a) ==
  /\ status[a] = "NONE"
  /\ active[ScenarioOf[a]] = NoAction
  /\ status' = [status EXCEPT ![a] = "ACCEPTED"]
  /\ active' = [active EXCEPT ![ScenarioOf[a]] = a]
  /\ UNCHANGED done

Begin(a) ==
  /\ status[a] = "ACCEPTED"
  /\ status' = [status EXCEPT ![a] = "IN_PROGRESS"]
  /\ UNCHANGED <<done, active>>

Effect(a, i) ==
  /\ status[a] = "IN_PROGRESS"
  /\ active[ScenarioOf[a]] = a
  /\ i \notin done[a]
  /\ \A j \in Ops : j < i => j \in done[a]
  /\ done' = [done EXCEPT ![a] = @ \cup {i}]
  /\ UNCHANGED <<status, active>>

(* An expired action keeps whatever effects it had: see the README. *)
Truthful(a, outcome) ==
  /\ outcome = "SUCCEEDED" => done[a] = Ops
  /\ outcome = "PARTIALLY_SUCCEEDED" => done[a] # {}
  /\ outcome = "FAILED" => done[a] = {}

Settle(a, outcome) ==
  /\ status[a] \in Live
  /\ Truthful(a, outcome)
  /\ status' = [status EXCEPT ![a] = outcome]
  /\ active' = [active EXCEPT ![ScenarioOf[a]] = NoAction]
  /\ UNCHANGED done

Next ==
  \E a \in Action :
    \/ Accept(a)
    \/ Begin(a)
    \/ \E i \in Ops : Effect(a, i)
    \/ \E outcome \in Terminal : Settle(a, outcome)

Spec == Init /\ [][Next]_vars
=============================================================================
