--------------------------- MODULE ActionExecution ---------------------------
(***************************************************************************)
(* The life of an accepted action: the acceptance transaction, the job     *)
(* queue with leases and bounded attempts, the workers that claim jobs and *)
(* run them as a sequence of separate database transactions, and the other *)
(* writers of the same portfolio (checkpoints, transfer events).           *)
(*                                                                         *)
(* One action is one committed transaction or one read of the code; the    *)
(* memory a worker keeps between them (pc, task, seen, next) is lost in a  *)
(* crash.  The data a refusal depends on (signature, nonce, key, quota,    *)
(* policy, journal key) is abstracted: a refused request changes nothing.  *)
(***************************************************************************)
EXTENDS Naturals, Integers

CONSTANTS
  Action,       \* signed intents; an action id is the hash of its intent
  Scenario,     \* capital scenarios of one experiment
  ScenarioOf,   \* the scenario each intent names
  Worker,       \* worker processes
  NumOps,       \* receipts of a durable plan (approve, deposit: 2)
  MaxAttempts,  \* jobs.max_attempts
  MaxVersion,   \* bound: other writers stop at this portfolio version
  NoAction      \* SQL NULL in active_action_id

ASSUME ActionExecutionAssumption ==
  /\ ScenarioOf \in [Action -> Scenario]
  /\ NumOps \in Nat \ {0}
  /\ MaxAttempts \in Nat \ {0}
  /\ MaxVersion \in Nat
  /\ NoAction \notin Action

Ops      == 1..NumOps
Live     == {"ACCEPTED", "IN_PROGRESS"}
Terminal == {"SUCCEEDED", "PARTIALLY_SUCCEEDED", "FAILED", "EXPIRED"}
JobDone  == {"COMPLETED", "FAILED"}
NoPlan   == -1

VARIABLES
  \* durable: PostgreSQL rows
  closed,     \* experiments.state = CLOSED (else STARTED)
  status,     \* action_intents.status, NONE before the row exists
  active,     \* capital_scenarios.active_action_id
  version,    \* capital_scenarios.portfolio_version
  plan,       \* execution_plans: portfolio version the plan was prepared at
  receipt,    \* accounting_receipts: applied_portfolio_version, 0 = no row
  jobState,   \* jobs.state, NONE before the row exists
  attempt,    \* jobs.attempt
  leaseLive,  \* jobs.leased_until is in the future
  settled,    \* number of EXECUTION events in the journal
  \* facts of the data the code computes with
  expired,    \* intent.validUntil has passed
  costly,     \* the prepared cost exceeds the signed maximum
  refuseAt,   \* first operation the portfolio at plan[a] refuses (NumOps+1: none)
  \* volatile: memory of the worker processes
  pc,         \* next step of runActionWorkerOnce
  task,       \* the claimed action
  seen,       \* portfolio version read by loadExecution
  next        \* index of the next receipt to apply

ledgerVars == <<status, active, version, receipt, settled>>
queueVars  == <<jobState, attempt, leaseLive>>
planVars   == <<plan, refuseAt>>
inputVars  == <<expired, costly>>
workerVars == <<pc, task, seen, next>>
vars == <<closed, ledgerVars, queueVars, planVars, inputVars, workerVars>>

TryBlock == {"load", "count", "clock", "expire", "plan", "save", "apply", "complete"}
CatchBlock == {"recount", "partial", "fail", "retry"}
PC == {"idle"} \cup TryBlock \cup CatchBlock

Init ==
  /\ closed = FALSE
  /\ status = [a \in Action |-> "NONE"]
  /\ active = [s \in Scenario |-> NoAction]
  /\ version = [s \in Scenario |-> 0]
  /\ plan = [a \in Action |-> NoPlan]
  /\ receipt = [a \in Action |-> [i \in Ops |-> 0]]
  /\ jobState = [a \in Action |-> "NONE"]
  /\ attempt = [a \in Action |-> 0]
  /\ leaseLive = [a \in Action |-> FALSE]
  /\ settled = [a \in Action |-> 0]
  /\ expired = [a \in Action |-> FALSE]
  /\ costly \in [Action -> BOOLEAN]
  /\ refuseAt = [a \in Action |-> NumOps + 1]
  /\ pc = [w \in Worker |-> "idle"]
  /\ task = [w \in Worker |-> NoAction]
  /\ seen = [w \in Worker |-> 0]
  /\ next = [w \in Worker |-> 1]

Applied(a, i)  == receipt[a][i] # 0
HasReceipts(a) == \E i \in Ops : Applied(a, i)

-----------------------------------------------------------------------------
(* Intake and control plane.

   A definition whose name ends in Mutant is a bug the code does not have,
   named here so that every property can be shown to catch one. *)

NeverBusyMutant(s) == FALSE

Busy(s) == active[s] # NoAction

(* acceptAction: one transaction writes the intent, the marker and the job. *)
Accept(a) ==
  /\ ~closed
  /\ status[a] = "NONE"
  /\ ~expired[a]
  /\ ~Busy(ScenarioOf[a])
  /\ status' = [status EXCEPT ![a] = "ACCEPTED"]
  /\ active' = [active EXCEPT ![ScenarioOf[a]] = a]
  /\ jobState' = [jobState EXCEPT ![a] = "READY"]
  /\ UNCHANGED <<closed, version, receipt, settled, attempt, leaseLive,
                 planVars, inputVars, workerVars>>

(* stopExperiment: refused with SCENARIO_BUSY while any action is active. *)
Stop ==
  /\ ~closed
  /\ \A s \in Scenario : ~Busy(s)
  /\ closed' = TRUE
  /\ UNCHANGED <<ledgerVars, queueVars, planVars, inputVars, workerVars>>

(* A checkpoint's accruals or a transfer event: neither looks at
   active_action_id, nor at the state of the experiment. *)
OtherPortfolioWriter(s) ==
  /\ version[s] < MaxVersion
  /\ version' = [version EXCEPT ![s] = @ + 1]
  /\ UNCHANGED <<closed, status, active, receipt, settled, queueVars, planVars,
                 inputVars, workerVars>>

(* The clock reaches the intent's validUntil. *)
DeadlinePasses(a) ==
  /\ ~expired[a]
  /\ expired' = [expired EXCEPT ![a] = TRUE]
  /\ UNCHANGED <<closed, ledgerVars, queueVars, planVars, costly, workerVars>>

(* The clock reaches leased_until, whatever the lease's owner is doing. *)
LeaseLapses(a) ==
  /\ jobState[a] = "RUNNING" /\ leaseLive[a]
  /\ leaseLive' = [leaseLive EXCEPT ![a] = FALSE]
  /\ UNCHANGED <<closed, ledgerVars, jobState, attempt, planVars, inputVars,
                 workerVars>>

-----------------------------------------------------------------------------
(* Queue and completion transactions *)

Goto(w, label) ==
  /\ pc' = [pc EXCEPT ![w] = label]
  /\ UNCHANGED <<task, seen, next>>

(* The worker function returns or dies: its memory is gone. *)
Forget(w) ==
  /\ pc' = [pc EXCEPT ![w] = "idle"]
  /\ task' = [task EXCEPT ![w] = NoAction]
  /\ seen' = [seen EXCEPT ![w] = 0]
  /\ next' = [next EXCEPT ![w] = 1]

ReadyOnlyMutant(a) == jobState[a] \in {"READY", "RETRY"}

Claimable(a) ==
  \/ jobState[a] \in {"READY", "RETRY"}
  \/ jobState[a] = "RUNNING" /\ ~leaseLive[a]

UncappedMutant(a) == attempt[a] + 1

(* least(attempt + 1, max_attempts) *)
NextAttempt(a) == IF attempt[a] < MaxAttempts THEN attempt[a] + 1 ELSE attempt[a]

(* claimJob: a claim beyond the attempt bound only reports the exhaustion. *)
Claim(w, a) ==
  /\ pc[w] = "idle"
  /\ Claimable(a)
  /\ jobState' = [jobState EXCEPT ![a] = "RUNNING"]
  /\ leaseLive' = [leaseLive EXCEPT ![a] = TRUE]
  /\ attempt' = [attempt EXCEPT ![a] = NextAttempt(a)]
  /\ pc' = [pc EXCEPT ![w] = IF attempt[a] >= MaxAttempts THEN "retry" ELSE "load"]
  /\ task' = [task EXCEPT ![w] = a]
  /\ UNCHANGED <<closed, ledgerVars, planVars, inputVars, seen, next>>

Settle(a, outcome) ==
  /\ status' = [status EXCEPT ![a] = outcome]
  /\ active' = [active EXCEPT ![ScenarioOf[a]] = IF @ = a THEN NoAction ELSE @]
  /\ settled' = [settled EXCEPT ![a] = @ + 1]

NeverSettledMutant(a) == FALSE

Settled(a) == status[a] \in Terminal

(* completeAction: a terminal action is left alone, whoever settled it. *)
CompleteAction(a, outcome) ==
  \/ /\ Settled(a)
     /\ UNCHANGED <<status, active, settled, jobState, leaseLive>>
  \/ /\ ~Settled(a)
     /\ Settle(a, outcome)
     /\ jobState' = [jobState EXCEPT ![a] =
                       IF outcome = "FAILED" THEN "FAILED" ELSE "COMPLETED"]
     /\ leaseLive' = [leaseLive EXCEPT ![a] = FALSE]

AlwaysFailedMutant(a) == "FAILED"

(* The outcome of an interrupted action, from the receipts counted. *)
InterruptedOutcome(a) ==
  IF HasReceipts(a) THEN "PARTIALLY_SUCCEEDED" ELSE "FAILED"

AlwaysUnfinishedMutant(a) == TRUE

Unfinished(a) == jobState[a] \notin JobDone

(* retryJob: nothing checks that the caller still holds the lease. *)
RetryIgnored(w) ==
  /\ pc[w] = "retry"
  /\ ~Unfinished(task[w])
  /\ Forget(w)
  /\ UNCHANGED <<closed, ledgerVars, queueVars, planVars, inputVars>>

RetryReleases(w) ==
  LET a == task[w] IN
  /\ pc[w] = "retry"
  /\ Unfinished(a)
  /\ attempt[a] < MaxAttempts
  /\ jobState' = [jobState EXCEPT ![a] = "RETRY"]
  /\ leaseLive' = [leaseLive EXCEPT ![a] = FALSE]
  /\ Forget(w)
  /\ UNCHANGED <<closed, ledgerVars, attempt, planVars, inputVars>>

RetryExhausts(w) ==
  LET a == task[w] IN
  /\ pc[w] = "retry"
  /\ Unfinished(a)
  /\ attempt[a] >= MaxAttempts
  /\ jobState' = [jobState EXCEPT ![a] = "FAILED"]
  /\ leaseLive' = [leaseLive EXCEPT ![a] = FALSE]
  /\ IF Settled(a)
       THEN UNCHANGED <<status, active, settled>>
       ELSE Settle(a, InterruptedOutcome(a))
  /\ Forget(w)
  /\ UNCHANGED <<closed, version, receipt, attempt, planVars, inputVars>>

-----------------------------------------------------------------------------
(* runActionWorkerOnce, one transaction or read at a time *)

LoadExecution(w) ==
  /\ pc[w] = "load"
  /\ seen' = [seen EXCEPT ![w] = version[ScenarioOf[task[w]]]]
  /\ pc' = [pc EXCEPT ![w] = "count"]
  /\ UNCHANGED <<closed, ledgerVars, queueVars, planVars, inputVars, task, next>>

CountReceipts(w) ==
  /\ pc[w] = "count"
  /\ Goto(w, IF HasReceipts(task[w]) THEN "plan" ELSE "clock")
  /\ UNCHANGED <<closed, ledgerVars, queueVars, planVars, inputVars>>

ReadClock(w) ==
  /\ pc[w] = "clock"
  /\ Goto(w, IF expired[task[w]] THEN "expire" ELSE "plan")
  /\ UNCHANGED <<closed, ledgerVars, queueVars, planVars, inputVars>>

(* prepareSyntheticM3Execution, from the portfolio loadExecution read: the
   only refusal acceptance has not already checked is the signed maximum of
   the cost, which depends on the amount alone. *)
Prepare(a) == IF costly[a] THEN "recount" ELSE "save"

(* loadPlan, and the preparation when there is none. *)
LoadPlan(w) ==
  /\ pc[w] = "plan"
  /\ Goto(w, IF plan[task[w]] # NoPlan THEN "apply" ELSE Prepare(task[w]))
  /\ UNCHANGED <<closed, ledgerVars, queueVars, planVars, inputVars>>

ReplacePlanMutant(a) == status[a] \in Live

MayPlan(a) == plan[a] = NoPlan /\ status[a] = "ACCEPTED"

(* savePlan: the first plan wins; the same plan again is accepted, any
   other one, or a plan for an action already settled, is a conflict. *)
SavePlan(w) ==
  LET a == task[w] IN
  /\ pc[w] = "save"
  /\ \/ /\ plan[a] # NoPlan
        /\ Goto(w, IF plan[a] = seen[w] THEN "plan" ELSE "retry")
        /\ UNCHANGED <<status, planVars>>
     \/ /\ plan[a] = NoPlan
        /\ ~MayPlan(a)
        /\ Goto(w, "retry")
        /\ UNCHANGED <<status, planVars>>
     \/ /\ MayPlan(a)
        /\ status' = [status EXCEPT ![a] = "IN_PROGRESS"]
        /\ plan' = [plan EXCEPT ![a] = seen[w]]
        /\ \E i \in 1..(NumOps + 1) : refuseAt' = [refuseAt EXCEPT ![a] = i]
        /\ Goto(w, "plan")
  /\ UNCHANGED <<closed, active, version, receipt, settled, queueVars, inputVars>>

(* The version the plan pinned its i-th receipt to. *)
Pinned(a, i) == plan[a] + i - 1

UnpinnedMutant(a, i) == ~Settled(a)

AnyStatusMutant(a, i) == version[ScenarioOf[a]] = Pinned(a, i)

Applicable(a, i) ==
  /\ ~Settled(a)
  /\ version[ScenarioOf[a]] = Pinned(a, i)

LastButOneMutant(i) == i >= NumOps - 1

LastOp(i) == i = NumOps

Advance(w, i) ==
  /\ pc' = [pc EXCEPT ![w] = IF LastOp(i) THEN "complete" ELSE "apply"]
  /\ next' = [next EXCEPT ![w] = IF LastOp(i) THEN 1 ELSE i + 1]
  /\ UNCHANGED <<task, seen>>

(* applyActionReceipt with the receipt already persisted: a no-op. *)
ReplayReceipt(w) ==
  /\ pc[w] = "apply"
  /\ Applied(task[w], next[w])
  /\ Advance(w, next[w])
  /\ UNCHANGED <<closed, ledgerVars, queueVars, planVars, inputVars>>

SameVersionMutant(s) == version[s]

(* applyReceipt: every receipt is a new portfolio version. *)
NewVersion(s) == version[s] + 1

(* applyActionReceipt: receipt row and portfolio in one transaction. *)
ApplyReceipt(w) ==
  LET a == task[w]
      i == next[w]
      s == ScenarioOf[a] IN
  /\ pc[w] = "apply"
  /\ ~Applied(a, i)
  /\ Applicable(a, i)
  /\ refuseAt[a] # i
  /\ receipt' = [receipt EXCEPT ![a][i] = NewVersion(s)]
  /\ version' = [version EXCEPT ![s] = NewVersion(s)]
  /\ Advance(w, i)
  /\ UNCHANGED <<closed, status, active, settled, queueVars, planVars, inputVars>>

(* The reducer refuses the operation for good (insufficient balance, ...):
   a permanent error.  A terminal action or a moved portfolio is not; any
   other error that is not permanent is a Fault. *)
RefuseReceipt(w) ==
  LET a == task[w]
      i == next[w] IN
  /\ pc[w] = "apply"
  /\ ~Applied(a, i)
  /\ ~Applicable(a, i) \/ refuseAt[a] = i
  /\ Goto(w, IF Applicable(a, i) THEN "recount" ELSE "retry")
  /\ UNCHANGED <<closed, ledgerVars, queueVars, planVars, inputVars>>

Complete(w, label, outcome) ==
  /\ pc[w] = label
  /\ CompleteAction(task[w], outcome)
  /\ Forget(w)
  /\ UNCHANGED <<closed, version, receipt, attempt, planVars, inputVars>>

CompleteSucceeded(w) == Complete(w, "complete", "SUCCEEDED")
CompleteExpired(w)   == Complete(w, "expire", "EXPIRED")

(* The catch block's receiptCount, in a transaction before completeAction. *)
CountForOutcome(w) ==
  /\ pc[w] = "recount"
  /\ Goto(w, IF HasReceipts(task[w]) THEN "partial" ELSE "fail")
  /\ UNCHANGED <<closed, ledgerVars, queueVars, planVars, inputVars>>

CompleteRefused(w) ==
  \/ Complete(w, "partial", "PARTIALLY_SUCCEEDED")
  \/ Complete(w, "fail", "FAILED")

(* A database or runtime error in the try block, before the step commits;
   an error after it is the same fault at the following step. *)
Fault(w) ==
  /\ pc[w] \in TryBlock
  /\ Goto(w, "retry")
  /\ UNCHANGED <<closed, ledgerVars, queueVars, planVars, inputVars>>

(* The process dies, or the catch block itself throws. *)
Crash(w) ==
  /\ pc[w] # "idle"
  /\ Forget(w)
  /\ UNCHANGED <<closed, ledgerVars, queueVars, planVars, inputVars>>

-----------------------------------------------------------------------------
RetryJob(w) == RetryIgnored(w) \/ RetryReleases(w) \/ RetryExhausts(w)

WorkerStep(w) ==
  \/ LoadExecution(w) \/ CountReceipts(w) \/ ReadClock(w)
  \/ LoadPlan(w) \/ SavePlan(w)
  \/ ReplayReceipt(w) \/ ApplyReceipt(w) \/ RefuseReceipt(w)
  \/ CompleteSucceeded(w) \/ CompleteExpired(w)
  \/ CountForOutcome(w) \/ CompleteRefused(w)
  \/ RetryJob(w)

Next ==
  \/ \E a \in Action : Accept(a) \/ DeadlinePasses(a) \/ LeaseLapses(a)
  \/ Stop
  \/ \E s \in Scenario : OtherPortfolioWriter(s)
  \/ \E w \in Worker :
       \/ \E a \in Action : Claim(w, a)
       \/ WorkerStep(w) \/ Fault(w) \/ Crash(w)

Spec == Init /\ [][Next]_vars

-----------------------------------------------------------------------------
(* Safety *)

TypeOK ==
  /\ closed \in BOOLEAN
  /\ status \in [Action -> {"NONE"} \cup Live \cup Terminal]
  /\ active \in [Scenario -> Action \cup {NoAction}]
  /\ version \in [Scenario -> Nat]
  /\ plan \in [Action -> Nat \cup {NoPlan}]
  /\ receipt \in [Action -> [Ops -> Nat]]
  /\ jobState \in [Action -> {"NONE", "READY", "RUNNING", "RETRY"} \cup JobDone]
  /\ attempt \in [Action -> 0..MaxAttempts]
  /\ leaseLive \in [Action -> BOOLEAN]
  /\ settled \in [Action -> Nat]
  /\ expired \in [Action -> BOOLEAN]
  /\ costly \in [Action -> BOOLEAN]
  /\ refuseAt \in [Action -> 1..(NumOps + 1)]
  /\ pc \in [Worker -> PC]
  /\ task \in [Worker -> Action \cup {NoAction}]
  /\ \A w \in Worker : pc[w] # "idle" => task[w] \in Action
  /\ seen \in [Worker -> Nat]
  /\ next \in [Worker -> Ops]

(* An action is pending exactly while it holds its scenario's marker: two
   pending actions never share a scenario, and no settled action, however
   it was settled and by whichever worker, leaves the scenario busy. *)
ScenarioHeldByPending ==
  \A a \in Action : status[a] \in Live <=> active[ScenarioOf[a]] = a

(* A job is finished exactly when its action is: the queue never drops an
   action that is still pending nor redelivers one that is settled. *)
JobFollowsAction ==
  \A a \in Action :
    /\ status[a] = "NONE" <=> jobState[a] = "NONE"
    /\ status[a] \in Terminal <=> jobState[a] \in JobDone

(* The receipts of an action are an initial segment of its durable plan,
   each at the portfolio version the plan pinned it to: no other worker,
   action, checkpoint or transfer slipped a change between them. *)
EffectsFollowPlan ==
  \A a \in Action : \A i \in Ops : Applied(a, i) =>
    /\ plan[a] # NoPlan
    /\ receipt[a][i] = Pinned(a, i) + 1
    /\ \A j \in Ops : j < i => Applied(a, j)

(* One effect per portfolio version, none beyond the current one: two
   actions of a scenario never both produced the same version. *)
OneEffectPerVersion ==
  \A a, b \in Action : \A i, j \in Ops :
    (Applied(a, i) /\ ScenarioOf[a] = ScenarioOf[b]) =>
      /\ receipt[a][i] <= version[ScenarioOf[a]]
      /\ (receipt[a][i] = receipt[b][j]) => (a = b /\ i = j)

(* The recorded outcome tells what happened to the money: every receipt of a
   SUCCEEDED action, some receipt of a PARTIALLY_SUCCEEDED one, none of a
   FAILED one, although the outcome is chosen from a count read earlier. *)
OutcomeTellsEffects ==
  \A a \in Action :
    /\ status[a] = "SUCCEEDED" => \A i \in Ops : Applied(a, i)
    /\ status[a] = "PARTIALLY_SUCCEEDED" => HasReceipts(a)
    /\ status[a] = "FAILED" => ~HasReceipts(a)

(* ADR 0017: "Repeated completion does not duplicate the terminal journal
   event" - one EXECUTION event per settled action, none before. *)
SettledOnce ==
  \A a \in Action : settled[a] = IF status[a] \in Terminal THEN 1 ELSE 0

(* A settled action keeps its outcome and gains no receipt, even from a
   worker that lost its lease before the settlement and runs on. *)
TerminalFrozen ==
  [][\A a \in Action : status[a] \in Terminal =>
       status'[a] = status[a] /\ receipt'[a] = receipt[a]]_vars

(* The first durable plan is the only one: retries and concurrent workers
   resume it even when the portfolio has moved since. *)
PlanFrozen ==
  [][\A a \in Action : plan[a] # NoPlan =>
       plan'[a] = plan[a] /\ refuseAt'[a] = refuseAt[a]]_vars

(* After an operator stop no action is accepted, changes status or gains a
   receipt: the pending work was really done when the stop was granted. *)
StopIsQuiet == [][closed => UNCHANGED <<status, active, receipt>>]_vars

(* ADR 0017 says a restart "may not start an expired action".  Read of the
   record: an action closed as EXPIRED has no financial effect. *)
ExpiredHasNoEffect ==
  \A a \in Action : status[a] = "EXPIRED" => ~HasReceipts(a)

-----------------------------------------------------------------------------
(* Liveness *)

(* Worker processes run and are restarted, clocks advance, the queue is
   served in available_at order, and a worker that finds a job exhausted is
   not killed every single time before it can record so.  Faults, crashes,
   lapsed leases and other writers are unrestricted: the attempt bound is
   what ends the retries. *)
Fairness ==
  /\ \A w \in Worker : WF_vars(WorkerStep(w))
  /\ \A a \in Action :
       /\ WF_vars(LeaseLapses(a))
       /\ WF_vars(\E w \in Worker : Claim(w, a))
       /\ SF_vars(\E w \in Worker : task[w] = a /\ RetryJob(w))

FairSpec == Spec /\ Fairness

(* Every accepted action is eventually settled, which releases its scenario. *)
AcceptedSettles ==
  \A a \in Action : (status[a] \in Live) ~> (status[a] \in Terminal)

-----------------------------------------------------------------------------
(* The pipeline implements what FinancialAction promises. *)

Promise == INSTANCE FinancialAction
             WITH done <- [a \in Action |-> {i \in Ops : Applied(a, i)}]

PromiseSpec == Promise!Spec
=============================================================================
