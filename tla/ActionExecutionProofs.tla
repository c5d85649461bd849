----------------------- MODULE ActionExecutionProofs -----------------------
(***************************************************************************)
(* TLAPS proofs about ActionExecution, for every number of actions,        *)
(* scenarios, workers, plan operations and attempts.                       *)
(*                                                                         *)
(* The safety properties are not inductive: what a worker is about to      *)
(* commit rests on what it read several transactions ago.  IInv records,   *)
(* for each place of runActionWorkerOnce, what of that reading is still    *)
(* true however the other workers, the leases and the portfolio moved.     *)
(***************************************************************************)
EXTENDS ActionExecution, TLAPS

\* Names of one-line conditions, always read through.
USE DEF Busy, NextAttempt, Settled, Unfinished, MayPlan, LastOp, NewVersion, Prepare

(* A refusal that will meet every worker again: the cost exceeds the signed
   maximum, or the durable plan has reached the operation it fails at. *)
Refused(a) ==
  \/ costly[a]
  \/ /\ plan[a] # NoPlan
     /\ refuseAt[a] \in Ops
     /\ \A j \in Ops : j < refuseAt[a] => Applied(a, j)

(* The plan and the receipts that follow it. *)
PlanInv ==
  \A a \in Action :
    /\ plan[a] # NoPlan => ~costly[a] /\ status[a] \notin {"NONE", "ACCEPTED"}
    /\ status[a] = "IN_PROGRESS" => plan[a] # NoPlan
    /\ \A i \in Ops : Applied(a, i) =>
         /\ plan[a] # NoPlan
         /\ i < refuseAt[a]
         /\ receipt[a][i] = plan[a] + i
         /\ receipt[a][i] <= version[ScenarioOf[a]]
         /\ \A j \in Ops : j < i => Applied(a, j)

BeforeReceipts == {"idle", "load", "count", "clock", "plan", "save"}

(* What each place of the worker function still knows. *)
WorkerOK(w) ==
  /\ pc[w] # "idle" => status[task[w]] # "NONE"
  /\ pc[w] \in BeforeReceipts => next[w] = 1
  /\ pc[w] = "save" => ~costly[task[w]]
  /\ pc[w] = "apply" =>
       /\ plan[task[w]] # NoPlan
       /\ \A j \in Ops : j < next[w] => Applied(task[w], j)
  /\ pc[w] = "complete" => \A j \in Ops : Applied(task[w], j)
  /\ pc[w] = "recount" => Refused(task[w])
  /\ pc[w] = "partial" => HasReceipts(task[w])
  /\ pc[w] = "fail" =>
       costly[task[w]] \/ (plan[task[w]] # NoPlan /\ refuseAt[task[w]] = 1)

WorkerInv == \A w \in Worker : WorkerOK(w)

DurableInv ==
  /\ ScenarioHeldByPending
  /\ JobFollowsAction
  /\ PlanInv
  /\ OneEffectPerVersion
  /\ OutcomeTellsEffects

IInv == TypeOK /\ DurableInv /\ WorkerInv

-----------------------------------------------------------------------------
(* Type correctness *)

LEMMA TypeInit == Init => TypeOK
<1> SUFFICES ASSUME Init PROVE TypeOK
  OBVIOUS
<1>1. /\ 0 \in 0..MaxAttempts
      /\ 1 \in Ops
      /\ NumOps + 1 \in 1..(NumOps + 1)
  BY ActionExecutionAssumption DEF Ops
<1>2. "idle" \in PC
  BY DEF PC
<1> QED BY <1>1, <1>2 DEF Init, TypeOK

LEMMA TypeIntake ==
  ASSUME TypeOK,
         \/ \E a \in Action : Accept(a) \/ DeadlinePasses(a) \/ LeaseLapses(a)
         \/ Stop
         \/ \E s \in Scenario : OtherPortfolioWriter(s)
  PROVE  TypeOK'
<1> USE ActionExecutionAssumption
        DEF TypeOK, ledgerVars, queueVars, planVars, inputVars, workerVars
<1>1. ASSUME NEW a \in Action, Accept(a) PROVE TypeOK'
  BY <1>1 DEF Accept, Live
<1>2. ASSUME NEW a \in Action, DeadlinePasses(a) PROVE TypeOK'
  BY <1>2 DEF DeadlinePasses
<1>3. ASSUME NEW a \in Action, LeaseLapses(a) PROVE TypeOK'
  BY <1>3 DEF LeaseLapses
<1>4. CASE Stop
  BY <1>4 DEF Stop
<1>5. ASSUME NEW s \in Scenario, OtherPortfolioWriter(s) PROVE TypeOK'
  BY <1>5 DEF OtherPortfolioWriter
<1> QED BY <1>1, <1>2, <1>3, <1>4, <1>5

(* A step that moves one worker to a label of its function, or ends it. *)
LEMMA TypeGoto ==
  ASSUME TypeOK, NEW w \in Worker, NEW label \in PC,
         pc[w] # "idle", Goto(w, label)
  PROVE  /\ pc' \in [Worker -> PC]
         /\ task' \in [Worker -> Action \cup {NoAction}]
         /\ \A v \in Worker : pc'[v] # "idle" => task'[v] \in Action
         /\ seen' \in [Worker -> Nat]
         /\ next' \in [Worker -> Ops]
BY DEF TypeOK, Goto

LEMMA TypeForget ==
  ASSUME TypeOK, NEW w \in Worker, Forget(w)
  PROVE  /\ pc' \in [Worker -> PC]
         /\ task' \in [Worker -> Action \cup {NoAction}]
         /\ \A v \in Worker : pc'[v] # "idle" => task'[v] \in Action
         /\ seen' \in [Worker -> Nat]
         /\ next' \in [Worker -> Ops]
BY ActionExecutionAssumption DEF TypeOK, Forget, PC, Ops

LEMMA TypeSettle ==
  ASSUME TypeOK, NEW a \in Action, NEW outcome \in Terminal, Settle(a, outcome)
  PROVE  /\ status' \in [Action -> {"NONE"} \cup Live \cup Terminal]
         /\ active' \in [Scenario -> Action \cup {NoAction}]
         /\ settled' \in [Action -> Nat]
<1>1. status' \in [Action -> {"NONE"} \cup Live \cup Terminal]
  BY DEF Settle, TypeOK
<1>2. active' \in [Scenario -> Action \cup {NoAction}]
  <2>1. ScenarioOf[a] \in Scenario
    BY ActionExecutionAssumption
  <2> QED BY <2>1 DEF Settle, TypeOK
<1>3. settled' \in [Action -> Nat]
  <2>1. settled[a] + 1 \in Nat
    BY DEF TypeOK
  <2> QED BY <2>1 DEF Settle, TypeOK
<1> QED BY <1>1, <1>2, <1>3

LEMMA TypeQueue ==
  ASSUME TypeOK, NEW w \in Worker,
         (\E a \in Action : Claim(w, a)) \/ RetryJob(w)
  PROVE  TypeOK'
<1> USE DEF ledgerVars, queueVars, planVars, inputVars
<1>1. ASSUME NEW a \in Action, Claim(w, a) PROVE TypeOK'
  BY <1>1, ActionExecutionAssumption DEF Claim, TypeOK, PC, TryBlock, CatchBlock
<1>2. CASE RetryIgnored(w)
  BY <1>2, TypeForget DEF RetryIgnored, TypeOK
<1>3. CASE RetryReleases(w)
  BY <1>3, TypeForget DEF RetryReleases, TypeOK
<1>4. CASE RetryExhausts(w)
  <2>1. task[w] \in Action
    BY <1>4 DEF RetryExhausts, TypeOK
  <2>2. InterruptedOutcome(task[w]) \in Terminal
    BY DEF InterruptedOutcome, Terminal
  <2>3. /\ status' \in [Action -> {"NONE"} \cup Live \cup Terminal]
        /\ active' \in [Scenario -> Action \cup {NoAction}]
        /\ settled' \in [Action -> Nat]
    BY <1>4, <2>1, <2>2, TypeSettle DEF RetryExhausts, TypeOK
  <2> QED
    BY <1>4, <2>1, <2>3, TypeForget DEF RetryExhausts, TypeOK, JobDone
<1> QED BY <1>1, <1>2, <1>3, <1>4 DEF RetryJob

LEMMA TypeComplete ==
  ASSUME TypeOK, NEW w \in Worker, NEW label \in PC \ {"idle"},
         NEW outcome \in Terminal, Complete(w, label, outcome)
  PROVE  TypeOK'
<1>1. task[w] \in Action
  BY DEF Complete, TypeOK
<1>2. /\ status' \in [Action -> {"NONE"} \cup Live \cup Terminal]
      /\ active' \in [Scenario -> Action \cup {NoAction}]
      /\ settled' \in [Action -> Nat]
  BY <1>1, TypeSettle DEF Complete, CompleteAction, TypeOK
<1>3. /\ jobState' \in [Action -> {"NONE", "READY", "RUNNING", "RETRY"} \cup JobDone]
      /\ leaseLive' \in [Action -> BOOLEAN]
  BY <1>1 DEF Complete, CompleteAction, TypeOK, JobDone
<1> QED
  BY <1>2, <1>3, TypeForget DEF Complete, TypeOK, planVars, inputVars

(* The steps that read, and the two that write a plan or a receipt. *)
LEMMA TypeWorkerStep ==
  ASSUME TypeOK, NEW w \in Worker, WorkerStep(w) \/ Fault(w) \/ Crash(w)
  PROVE  TypeOK'
<1> USE DEF ledgerVars, queueVars, planVars, inputVars
<1>0. /\ {"count", "clock", "expire", "plan", "save", "apply", "complete"} \subseteq PC
      /\ {"recount", "partial", "fail", "retry"} \subseteq PC
  BY DEF PC, TryBlock, CatchBlock
<1>1. CASE LoadExecution(w)
  <2>1. task[w] \in Action
    BY <1>1 DEF LoadExecution, TypeOK
  <2>2. version[ScenarioOf[task[w]]] \in Nat
    BY <2>1, ActionExecutionAssumption DEF TypeOK
  <2> QED BY <1>0, <1>1, <2>2 DEF LoadExecution, TypeOK
<1>2. CASE CountReceipts(w)
  BY <1>0, <1>2, TypeGoto DEF CountReceipts, TypeOK
<1>3. CASE ReadClock(w)
  BY <1>0, <1>3, TypeGoto DEF ReadClock, TypeOK
<1>4. CASE LoadPlan(w)
  BY <1>0, <1>4, TypeGoto DEF LoadPlan, TypeOK
<1>5. CASE SavePlan(w)
  <2>1. task[w] \in Action /\ seen[w] \in Nat
    BY <1>5 DEF SavePlan, TypeOK
  <2>2. status' \in [Action -> {"NONE"} \cup Live \cup Terminal]
    BY <1>5, <2>1 DEF SavePlan, TypeOK, Live
  <2>3. plan' \in [Action -> Nat \cup {NoPlan}]
    BY <1>5, <2>1 DEF SavePlan, TypeOK
  <2>4. refuseAt' \in [Action -> 1..(NumOps + 1)]
    BY <1>5, <2>1 DEF SavePlan, TypeOK
  <2>5. \E label \in PC : Goto(w, label)
    BY <1>0, <1>5 DEF SavePlan
  <2> QED BY <1>5, <2>2, <2>3, <2>4, <2>5, TypeGoto DEF SavePlan, TypeOK
<1>6. CASE ReplayReceipt(w)
  BY <1>0, <1>6, ActionExecutionAssumption
     DEF ReplayReceipt, Advance, TypeOK, Ops
<1>7. CASE ApplyReceipt(w)
  <2>1. task[w] \in Action /\ next[w] \in Ops /\ ScenarioOf[task[w]] \in Scenario
    BY <1>7, ActionExecutionAssumption DEF ApplyReceipt, TypeOK
  <2>2. version[ScenarioOf[task[w]]] + 1 \in Nat
    BY <2>1 DEF TypeOK
  <2>3. version' \in [Scenario -> Nat] /\ receipt' \in [Action -> [Ops -> Nat]]
    BY <1>7, <2>1, <2>2 DEF ApplyReceipt, TypeOK
  <2>4. pc' \in [Worker -> PC] /\ next' \in [Worker -> Ops]
    BY <1>0, <1>7, <2>1, ActionExecutionAssumption
       DEF ApplyReceipt, Advance, TypeOK, Ops
  <2>5. \A v \in Worker : pc'[v] # "idle" => task'[v] \in Action
    BY <1>7, <2>1 DEF ApplyReceipt, Advance, TypeOK
  <2> QED BY <1>7, <2>3, <2>4, <2>5 DEF ApplyReceipt, Advance, TypeOK
<1>8. CASE RefuseReceipt(w)
  BY <1>0, <1>8, TypeGoto DEF RefuseReceipt, TypeOK
<1>9. CASE CompleteSucceeded(w) \/ CompleteExpired(w) \/ CompleteRefused(w)
  BY <1>0, <1>9, TypeComplete
     DEF CompleteSucceeded, CompleteExpired, CompleteRefused, Terminal
<1>10. CASE CountForOutcome(w)
  BY <1>0, <1>10, TypeGoto DEF CountForOutcome, TypeOK
<1>11. CASE RetryJob(w)
  BY <1>11, TypeQueue
<1>12. CASE Fault(w)
  BY <1>0, <1>12, TypeGoto DEF Fault, TypeOK, TryBlock
<1>13. CASE Crash(w)
  BY <1>13, TypeForget DEF Crash, TypeOK
<1> QED
  BY <1>1, <1>2, <1>3, <1>4, <1>5, <1>6, <1>7, <1>8, <1>9, <1>10, <1>11,
     <1>12, <1>13 DEF WorkerStep

(* Every reachable state is well typed: in particular a worker that is not
   idle always holds a real action, and the attempt count respects its bound. *)
THEOREM TypeCorrect == Spec => []TypeOK
<1>1. TypeOK /\ [Next]_vars => TypeOK'
  <2> SUFFICES ASSUME TypeOK, [Next]_vars PROVE TypeOK'
    OBVIOUS
  <2>1. CASE UNCHANGED vars
    BY <2>1 DEF TypeOK, vars, ledgerVars, queueVars, planVars, inputVars, workerVars
  <2> QED BY <2>1, TypeIntake, TypeQueue, TypeWorkerStep DEF Next
<1> QED BY <1>1, TypeInit, PTL DEF Spec

-----------------------------------------------------------------------------
(* Facts that only grow: what a worker has read and relies on *)

Monotone ==
  \A a \in Action :
    /\ status[a] # "NONE" => status'[a] # "NONE"
    /\ status[a] \in Terminal => status'[a] = status[a] /\ receipt'[a] = receipt[a]
    /\ costly'[a] = costly[a]
    /\ plan[a] # NoPlan => plan'[a] = plan[a] /\ refuseAt'[a] = refuseAt[a]
    /\ \A i \in Ops : Applied(a, i) => receipt'[a][i] = receipt[a][i]

LEMMA QuietMonotone ==
  ASSUME UNCHANGED <<status, receipt, costly, plan, refuseAt>>
  PROVE  Monotone
BY DEF Monotone

LEMMA SettleMonotone ==
  ASSUME TypeOK, NEW a \in Action, NEW outcome \in Terminal,
         status[a] \notin Terminal, Settle(a, outcome),
         UNCHANGED <<receipt, costly, plan, refuseAt>>
  PROVE  Monotone
BY DEF Monotone, Settle, TypeOK, Terminal

(* No step unsettles an action, withdraws a receipt or replaces a plan. *)
LEMMA StepMonotone ==
  ASSUME TypeOK, [Next]_vars
  PROVE  Monotone
<1> USE DEF ledgerVars, queueVars, planVars, inputVars
<1>1. CASE UNCHANGED vars
  BY <1>1, QuietMonotone DEF vars
<1>2. ASSUME NEW a \in Action, Accept(a) PROVE Monotone
  BY <1>2 DEF Accept, Monotone, TypeOK, Terminal
<1>3. CASE \/ \E a \in Action : DeadlinePasses(a) \/ LeaseLapses(a)
           \/ Stop
           \/ \E s \in Scenario : OtherPortfolioWriter(s)
  BY <1>3, QuietMonotone DEF DeadlinePasses, LeaseLapses, Stop, OtherPortfolioWriter
<1>4. ASSUME NEW w \in Worker,
             \/ \E a \in Action : Claim(w, a)
             \/ Fault(w) \/ Crash(w) \/ RetryIgnored(w) \/ RetryReleases(w)
             \/ LoadExecution(w) \/ CountReceipts(w) \/ ReadClock(w) \/ LoadPlan(w)
             \/ ReplayReceipt(w) \/ RefuseReceipt(w) \/ CountForOutcome(w)
      PROVE Monotone
  BY <1>4, QuietMonotone
     DEF Claim, Fault, Crash, RetryIgnored, RetryReleases, LoadExecution,
         CountReceipts, ReadClock, LoadPlan, ReplayReceipt, RefuseReceipt,
         CountForOutcome
<1>5. ASSUME NEW w \in Worker, RetryExhausts(w) PROVE Monotone
  <2>1. task[w] \in Action /\ InterruptedOutcome(task[w]) \in Terminal
    BY <1>5 DEF RetryExhausts, TypeOK, InterruptedOutcome, Terminal
  <2> QED BY <1>5, <2>1, QuietMonotone, SettleMonotone DEF RetryExhausts
<1>6. ASSUME NEW w \in Worker, NEW label \in PC \ {"idle"}, NEW outcome \in Terminal,
             Complete(w, label, outcome)
      PROVE Monotone
  <2>1. task[w] \in Action
    BY <1>6 DEF Complete, TypeOK
  <2> QED BY <1>6, <2>1, QuietMonotone, SettleMonotone DEF Complete, CompleteAction
<1>7. ASSUME NEW w \in Worker, SavePlan(w) PROVE Monotone
  <2>1. task[w] \in Action
    BY <1>7 DEF SavePlan, TypeOK
  <2> QED BY <1>7, <2>1 DEF SavePlan, Monotone, TypeOK, Terminal
<1>8. ASSUME NEW w \in Worker, ApplyReceipt(w) PROVE Monotone
  <2>1. task[w] \in Action /\ next[w] \in Ops
    BY <1>8 DEF ApplyReceipt, TypeOK
  <2> QED BY <1>8, <2>1 DEF ApplyReceipt, Applicable, Applied, Monotone, TypeOK
<1>9. {"complete", "expire", "partial", "fail"} \subseteq PC \ {"idle"}
  BY DEF PC, TryBlock, CatchBlock
<1> QED
  BY <1>1, <1>2, <1>3, <1>4, <1>5, <1>6, <1>7, <1>8, <1>9
     DEF Next, WorkerStep, RetryJob, CompleteSucceeded, CompleteExpired,
         CompleteRefused, Terminal

(* ADR 0017: a settled action cannot gain a new financial effect. *)
THEOREM SettledActionFrozen == Spec => TerminalFrozen
<1>1. TypeOK /\ [Next]_vars =>
        [\A a \in Action : status[a] \in Terminal =>
           status'[a] = status[a] /\ receipt'[a] = receipt[a]]_vars
  BY StepMonotone DEF Monotone
<1> QED BY <1>1, TypeCorrect, PTL DEF Spec, TerminalFrozen

(* ADR 0010: a plan is create-only and a restart reuses it. *)
THEOREM DurablePlanFrozen == Spec => PlanFrozen
<1>1. TypeOK /\ [Next]_vars =>
        [\A a \in Action : plan[a] # NoPlan =>
           plan'[a] = plan[a] /\ refuseAt'[a] = refuseAt[a]]_vars
  BY StepMonotone DEF Monotone
<1> QED BY <1>1, TypeCorrect, PTL DEF Spec, PlanFrozen

-----------------------------------------------------------------------------
(* The invariant: the worker that moves *)

(* What a worker at rest between two transactions relies on stays true. *)
LEMMA WorkerStable ==
  ASSUME TypeOK, Monotone, NEW v \in Worker, WorkerOK(v),
         pc'[v] = pc[v], task'[v] = task[v], next'[v] = next[v]
  PROVE  WorkerOK(v)'
<1>1. CASE pc[v] = "idle"
  BY <1>1 DEF WorkerOK
<1>2. CASE pc[v] # "idle"
  <2>1. task[v] \in Action /\ next[v] \in Ops
    BY <1>2 DEF TypeOK
  <2>2. \A j \in Ops : Applied(task[v], j) => Applied(task[v], j)'
    BY <2>1 DEF Monotone, Applied
  <2>3. HasReceipts(task[v]) => HasReceipts(task[v])'
    BY <2>2 DEF HasReceipts
  <2>4. Refused(task[v]) => Refused(task[v])'
    BY <2>1, <2>2 DEF Monotone, Refused
  <2> QED
    BY <2>1, <2>2, <2>3, <2>4 DEF WorkerOK, Monotone
<1> QED BY <1>1, <1>2

(* All workers but one are untouched by a step of that one. *)
LEMMA OtherWorkers ==
  ASSUME IInv, Monotone, NEW w \in Worker,
         \A v \in Worker \ {w} :
           pc'[v] = pc[v] /\ task'[v] = task[v] /\ next'[v] = next[v],
         WorkerOK(w)'
  PROVE  WorkerInv'
<1> SUFFICES ASSUME NEW v \in Worker PROVE WorkerOK(v)'
  BY DEF WorkerInv
<1>1. CASE v = w
  BY <1>1
<1>2. CASE v # w
  BY <1>2, WorkerStable DEF IInv, WorkerInv
<1> QED BY <1>1, <1>2

LEMMA MovedOnly ==
  ASSUME TypeOK, NEW w \in Worker,
         \/ \E label \in PC : Goto(w, label)
         \/ Forget(w)
         \/ Advance(w, next[w])
  PROVE  \A v \in Worker \ {w} :
           pc'[v] = pc[v] /\ task'[v] = task[v] /\ next'[v] = next[v]
BY DEF TypeOK, Goto, Forget, Advance

LEMMA ForgetOK ==
  ASSUME IInv, Monotone, NEW w \in Worker, Forget(w)
  PROVE  WorkerInv'
<1>1. pc'[w] = "idle" /\ next'[w] = 1
  BY DEF IInv, TypeOK, Forget
<1>2. WorkerOK(w)'
  BY <1>1 DEF WorkerOK
<1> QED BY <1>2, MovedOnly, OtherWorkers DEF IInv

(* The reads and the two labels an error leads to. *)
LEMMA WorkerReads ==
  ASSUME IInv, Monotone, NEW w \in Worker,
         \/ LoadExecution(w) \/ CountReceipts(w) \/ ReadClock(w)
         \/ LoadPlan(w) \/ CountForOutcome(w) \/ Fault(w)
  PROVE  WorkerInv'
<1> USE DEF ledgerVars, queueVars, planVars, inputVars
<1>1. task[w] \in Action /\ next[w] \in Ops /\ status[task[w]] # "NONE"
  BY DEF IInv, TypeOK, WorkerInv, WorkerOK, LoadExecution, CountReceipts,
         ReadClock, LoadPlan, CountForOutcome, Fault, TryBlock
<1>2. /\ UNCHANGED <<status, receipt, plan, refuseAt, costly>>
      /\ task' = task /\ next' = next
  BY DEF LoadExecution, CountReceipts, ReadClock, LoadPlan, CountForOutcome,
         Fault, Goto
<1>3. \A v \in Worker \ {w} : pc'[v] = pc[v]
  BY DEF IInv, TypeOK, LoadExecution, CountReceipts, ReadClock, LoadPlan,
         CountForOutcome, Fault, Goto
<1>4. WorkerOK(w)'
  <2>1. CASE LoadExecution(w) \/ CountReceipts(w) \/ ReadClock(w) \/ Fault(w)
    <3>1. pc'[w] \in {"count", "plan", "clock", "expire", "retry"}
      BY <2>1 DEF IInv, TypeOK, LoadExecution, CountReceipts, ReadClock, Fault, Goto
    <3>2. pc'[w] \in BeforeReceipts => next[w] = 1
      BY <2>1, <3>1 DEF IInv, WorkerInv, WorkerOK, BeforeReceipts, LoadExecution,
             CountReceipts, ReadClock, Fault, TypeOK, Goto
    <3> QED BY <3>1, <3>2, <1>1, <1>2 DEF WorkerOK
  <2>2. CASE LoadPlan(w)
    <3>1. \/ pc'[w] = "apply" /\ plan[task[w]] # NoPlan
          \/ pc'[w] = "recount" /\ costly[task[w]]
          \/ pc'[w] = "save" /\ ~costly[task[w]]
      BY <2>2 DEF IInv, TypeOK, LoadPlan, Goto
    <3>2. next[w] = 1
      BY <2>2 DEF LoadPlan, IInv, WorkerInv, WorkerOK, BeforeReceipts
    <3> QED BY <3>1, <3>2, <1>1, <1>2 DEF WorkerOK, Refused, Ops
  <2>3. CASE CountForOutcome(w)
    <3>1. \/ pc'[w] = "partial" /\ HasReceipts(task[w])
          \/ pc'[w] = "fail" /\ ~HasReceipts(task[w])
      BY <2>3 DEF IInv, TypeOK, CountForOutcome, Goto
    <3>2. Refused(task[w])
      BY <2>3 DEF IInv, WorkerInv, WorkerOK, CountForOutcome
    <3>3. ~HasReceipts(task[w]) =>
            costly[task[w]] \/ (plan[task[w]] # NoPlan /\ refuseAt[task[w]] = 1)
      BY <3>2, ActionExecutionAssumption DEF Refused, HasReceipts, Ops
    <3> QED BY <3>1, <3>3, <1>1, <1>2 DEF WorkerOK, HasReceipts, Applied, BeforeReceipts
  <2> QED BY <2>1, <2>2, <2>3
<1> QED BY <1>2, <1>3, <1>4, OtherWorkers

LEMMA WorkerForgets ==
  ASSUME IInv, Monotone, NEW w \in Worker,
         \/ Crash(w) \/ RetryJob(w)
         \/ \E label \in PC, outcome \in Terminal : Complete(w, label, outcome)
  PROVE  WorkerInv'
BY ForgetOK DEF Crash, RetryJob, RetryIgnored, RetryReleases, RetryExhausts, Complete

LEMMA WorkerClaims ==
  ASSUME IInv, Monotone, NEW w \in Worker, NEW a \in Action, Claim(w, a)
  PROVE  WorkerInv'
<1>1. status[a] # "NONE"
  BY DEF IInv, DurableInv, JobFollowsAction, Claim, Claimable, TypeOK
<1>2. /\ pc'[w] \in {"retry", "load"} /\ task'[w] = a /\ next' = next
      /\ status' = status
  BY DEF IInv, TypeOK, Claim, ledgerVars
<1>3. next[w] = 1
  BY DEF IInv, WorkerInv, WorkerOK, BeforeReceipts, Claim
<1>4. WorkerOK(w)'
  BY <1>1, <1>2, <1>3 DEF WorkerOK
<1>5. \A v \in Worker \ {w} :
        pc'[v] = pc[v] /\ task'[v] = task[v] /\ next'[v] = next[v]
  BY DEF IInv, TypeOK, Claim
<1> QED BY <1>4, <1>5, OtherWorkers

LEMMA WorkerSaves ==
  ASSUME IInv, Monotone, NEW w \in Worker, SavePlan(w)
  PROVE  WorkerInv'
<1>1. task[w] \in Action /\ status[task[w]] # "NONE" /\ next[w] = 1
  BY DEF IInv, TypeOK, WorkerInv, WorkerOK, BeforeReceipts, SavePlan
<1>2. pc'[w] \in {"plan", "retry"} /\ task' = task /\ next' = next
  BY DEF IInv, TypeOK, SavePlan, Goto
<1>3. status'[task[w]] # "NONE"
  BY <1>1 DEF Monotone
<1>4. WorkerOK(w)'
  BY <1>1, <1>2, <1>3 DEF WorkerOK
<1>5. {"plan", "retry"} \subseteq PC
  BY DEF PC, TryBlock, CatchBlock
<1>6. \E label \in PC : Goto(w, label)
  BY <1>5 DEF SavePlan
<1> QED BY <1>4, <1>6, MovedOnly, OtherWorkers DEF IInv

(* After a receipt is replayed or recorded, all up to it are recorded. *)
LEMMA WorkerAdvances ==
  ASSUME IInv, Monotone, NEW w \in Worker,
         pc[w] = "apply", receipt'[task[w]][next[w]] # 0, Advance(w, next[w])
  PROVE  WorkerInv'
<1>1. /\ task[w] \in Action /\ next[w] \in Ops /\ status[task[w]] # "NONE"
      /\ plan[task[w]] # NoPlan
      /\ \A j \in Ops : j < next[w] => Applied(task[w], j)
  BY DEF IInv, TypeOK, WorkerInv, WorkerOK
<1>2. \A j \in Ops : j <= next[w] => receipt'[task[w]][j] # 0
  <2> SUFFICES ASSUME NEW j \in Ops, j <= next[w] PROVE receipt'[task[w]][j] # 0
    OBVIOUS
  <2>1. CASE j = next[w]
    BY <2>1
  <2>2. CASE j < next[w]
    BY <2>2, <1>1 DEF Monotone, Applied
  <2> QED BY <2>1, <2>2, <1>1 DEF Ops
<1>3. task' = task /\ status'[task[w]] # "NONE" /\ plan'[task[w]] # NoPlan
  BY <1>1 DEF Advance, Monotone
<1>4. WorkerOK(w)'
  <2>1. CASE next[w] = NumOps
    <3>1. pc'[w] = "complete"
      BY <2>1 DEF IInv, TypeOK, Advance
    <3>2. \A j \in Ops : receipt'[task[w]][j] # 0
      BY <1>2, <2>1, ActionExecutionAssumption DEF Ops
    <3> QED BY <1>3, <3>1, <3>2 DEF WorkerOK, BeforeReceipts, Applied
  <2>2. CASE next[w] # NumOps
    <3>1. pc'[w] = "apply" /\ next'[w] = next[w] + 1
      BY <2>2 DEF IInv, TypeOK, Advance
    <3>2. \A j \in Ops : j < next'[w] => receipt'[task[w]][j] # 0
      BY <1>1, <1>2, <3>1 DEF Ops
    <3> QED BY <1>3, <3>1, <3>2 DEF WorkerOK, BeforeReceipts, Applied
  <2> QED BY <2>1, <2>2
<1> QED BY <1>4, MovedOnly, OtherWorkers DEF IInv

LEMMA WorkerApplies ==
  ASSUME IInv, Monotone, NEW w \in Worker,
         ReplayReceipt(w) \/ ApplyReceipt(w) \/ RefuseReceipt(w)
  PROVE  WorkerInv'
<1> USE DEF ledgerVars, planVars, inputVars
<1>1. /\ task[w] \in Action /\ next[w] \in Ops /\ status[task[w]] # "NONE"
      /\ plan[task[w]] # NoPlan
      /\ \A j \in Ops : j < next[w] => Applied(task[w], j)
  BY DEF IInv, TypeOK, WorkerInv, WorkerOK, ReplayReceipt, ApplyReceipt, RefuseReceipt
<1>2. CASE ReplayReceipt(w)
  <2>1. receipt'[task[w]][next[w]] # 0
    BY <1>2, <1>1 DEF ReplayReceipt, Monotone, Applied
  <2> QED BY <1>2, <2>1, WorkerAdvances DEF ReplayReceipt
<1>3. CASE ApplyReceipt(w)
  <2>1. version[ScenarioOf[task[w]]] \in Nat
    BY <1>1, ActionExecutionAssumption DEF IInv, TypeOK
  <2>2. receipt'[task[w]][next[w]] = version[ScenarioOf[task[w]]] + 1
    BY <1>1, <1>3 DEF IInv, TypeOK, ApplyReceipt
  <2>3. receipt'[task[w]][next[w]] # 0
    BY <2>1, <2>2
  <2> QED BY <1>3, <2>3, WorkerAdvances DEF ApplyReceipt
<1>4. CASE RefuseReceipt(w)
  <2>1. /\ UNCHANGED <<status, receipt, plan, refuseAt, costly>>
        /\ task' = task
    BY <1>4 DEF RefuseReceipt, Goto
  <2>2. \/ pc'[w] = "retry"
        \/ pc'[w] = "recount" /\ refuseAt[task[w]] = next[w]
    BY <1>4 DEF IInv, TypeOK, RefuseReceipt, Goto
  <2>3. pc'[w] = "recount" => Refused(task[w])
    BY <1>1, <2>2 DEF Refused
  <2>4. WorkerOK(w)'
    BY <1>1, <2>1, <2>2, <2>3 DEF WorkerOK, BeforeReceipts, Refused, Applied
  <2>5. \E label \in PC : Goto(w, label)
    BY <1>4 DEF RefuseReceipt, PC, CatchBlock
  <2> QED BY <2>4, <2>5, MovedOnly, OtherWorkers DEF IInv
<1> QED BY <1>2, <1>3, <1>4

-----------------------------------------------------------------------------
(* The invariant: the rows a step writes *)

LEMMA QuietDurable ==
  ASSUME DurableInv,
         UNCHANGED <<status, active, version, receipt, jobState, plan, refuseAt, costly>>
  PROVE  DurableInv'
BY DEF DurableInv, ScenarioHeldByPending, JobFollowsAction, PlanInv,
       OneEffectPerVersion, OutcomeTellsEffects, Applied, HasReceipts

(* A queue transaction moves a job between the states of an unfinished one. *)
LEMMA QueueDurable ==
  ASSUME IInv, NEW a \in Action, NEW js \in {"RUNNING", "RETRY"},
         jobState[a] \notin JobDone \cup {"NONE"},
         jobState' = [jobState EXCEPT ![a] = js],
         UNCHANGED <<status, active, version, receipt, plan, refuseAt, costly>>
  PROVE  DurableInv'
<1>1. JobFollowsAction'
  BY DEF IInv, TypeOK, DurableInv, JobFollowsAction, JobDone
<1> QED
  BY <1>1 DEF IInv, DurableInv, ScenarioHeldByPending, PlanInv,
     OneEffectPerVersion, OutcomeTellsEffects, Applied, HasReceipts

LEMMA SettleDurable ==
  ASSUME IInv, NEW a \in Action, NEW outcome \in Terminal, NEW js \in JobDone,
         status[a] \in Live,
         Settle(a, outcome),
         jobState' = [jobState EXCEPT ![a] = js],
         UNCHANGED <<version, receipt, plan, refuseAt, costly>>,
         outcome = "SUCCEEDED" => \A i \in Ops : Applied(a, i),
         outcome = "PARTIALLY_SUCCEEDED" => HasReceipts(a),
         outcome = "FAILED" => ~HasReceipts(a)
  PROVE  DurableInv'
<1>1. /\ status'[a] = outcome
      /\ jobState'[a] = js
      /\ \A b \in Action \ {a} : status'[b] = status[b] /\ jobState'[b] = jobState[b]
  BY DEF IInv, TypeOK, Settle
<1>2. /\ active[ScenarioOf[a]] = a /\ active'[ScenarioOf[a]] = NoAction
      /\ \A s \in Scenario \ {ScenarioOf[a]} : active'[s] = active[s]
  BY ActionExecutionAssumption
     DEF IInv, TypeOK, DurableInv, ScenarioHeldByPending, Settle
<1>3. ScenarioHeldByPending'
  <2> SUFFICES ASSUME NEW b \in Action
               PROVE  status'[b] \in Live <=> active'[ScenarioOf[b]] = b
    BY DEF ScenarioHeldByPending
  <2>1. CASE b = a
    BY <2>1, <1>1, <1>2, ActionExecutionAssumption DEF Live, Terminal
  <2>2. CASE b # a /\ ScenarioOf[b] = ScenarioOf[a]
    BY <2>2, <1>1, <1>2, ActionExecutionAssumption
       DEF IInv, DurableInv, ScenarioHeldByPending
  <2>3. CASE b # a /\ ScenarioOf[b] # ScenarioOf[a]
    BY <2>3, <1>1, <1>2, ActionExecutionAssumption
       DEF IInv, DurableInv, ScenarioHeldByPending
  <2> QED BY <2>1, <2>2, <2>3
<1>4. JobFollowsAction'
  BY <1>1 DEF IInv, DurableInv, JobFollowsAction, JobDone, Terminal
<1>5. PlanInv'
  BY <1>1 DEF IInv, DurableInv, PlanInv, Applied, Live, Terminal
<1>6. OneEffectPerVersion'
  BY DEF IInv, DurableInv, OneEffectPerVersion, Applied
<1>7. OutcomeTellsEffects'
  BY <1>1 DEF IInv, DurableInv, OutcomeTellsEffects, Applied, HasReceipts
<1> QED BY <1>3, <1>4, <1>5, <1>6, <1>7 DEF DurableInv

LEMMA CompleteDurable ==
  ASSUME IInv, NEW w \in Worker, NEW outcome \in Terminal, NEW label \in PC,
         Complete(w, label, outcome), label # "idle",
         outcome = "SUCCEEDED" => \A i \in Ops : Applied(task[w], i),
         outcome = "PARTIALLY_SUCCEEDED" => HasReceipts(task[w]),
         outcome = "FAILED" => ~HasReceipts(task[w])
  PROVE  DurableInv'
<1> USE DEF planVars, inputVars
<1>1. task[w] \in Action /\ status[task[w]] # "NONE"
  BY DEF IInv, TypeOK, WorkerInv, WorkerOK, Complete
<1>2. CASE status[task[w]] \in Terminal
  BY <1>2, QuietDurable DEF Complete, CompleteAction, IInv
<1>3. CASE status[task[w]] \notin Terminal
  <2>1. status[task[w]] \in Live
    BY <1>1, <1>3 DEF IInv, TypeOK
  <2>2. \E js \in JobDone : jobState' = [jobState EXCEPT ![task[w]] = js]
    BY <1>3 DEF Complete, CompleteAction, JobDone
  <2> QED
    BY <1>1, <1>3, <2>1, <2>2, SettleDurable DEF Complete, CompleteAction
<1> QED BY <1>2, <1>3

LEMMA AcceptDurable ==
  ASSUME IInv, NEW a \in Action, Accept(a)
  PROVE  DurableInv'
<1> USE DEF planVars, inputVars
<1>1. /\ status[a] = "NONE" /\ status'[a] = "ACCEPTED" /\ jobState'[a] = "READY"
      /\ \A b \in Action \ {a} : status'[b] = status[b] /\ jobState'[b] = jobState[b]
      /\ UNCHANGED <<version, receipt, plan, refuseAt, costly>>
  BY DEF IInv, TypeOK, Accept
<1>2. /\ active[ScenarioOf[a]] = NoAction /\ active'[ScenarioOf[a]] = a
      /\ \A s \in Scenario \ {ScenarioOf[a]} : active'[s] = active[s]
  BY ActionExecutionAssumption DEF IInv, TypeOK, Accept
<1>3. ScenarioHeldByPending'
  <2> SUFFICES ASSUME NEW b \in Action
               PROVE  status'[b] \in Live <=> active'[ScenarioOf[b]] = b
    BY DEF ScenarioHeldByPending
  <2>1. CASE b = a
    BY <2>1, <1>1, <1>2 DEF Live
  <2>2. CASE b # a /\ ScenarioOf[b] = ScenarioOf[a]
    BY <2>2, <1>1, <1>2, ActionExecutionAssumption
       DEF IInv, DurableInv, ScenarioHeldByPending
  <2>3. CASE b # a /\ ScenarioOf[b] # ScenarioOf[a]
    BY <2>3, <1>1, <1>2, ActionExecutionAssumption
       DEF IInv, DurableInv, ScenarioHeldByPending
  <2> QED BY <2>1, <2>2, <2>3
<1>4. JobFollowsAction'
  BY <1>1 DEF IInv, DurableInv, JobFollowsAction, JobDone, Terminal
<1>5. PlanInv'
  BY <1>1 DEF IInv, DurableInv, PlanInv, Applied
<1>6. OneEffectPerVersion'
  BY <1>1 DEF IInv, DurableInv, OneEffectPerVersion, Applied
<1>7. OutcomeTellsEffects'
  BY <1>1 DEF IInv, DurableInv, OutcomeTellsEffects, Applied, HasReceipts
<1> QED BY <1>3, <1>4, <1>5, <1>6, <1>7 DEF DurableInv

LEMMA OtherWriterDurable ==
  ASSUME IInv, NEW s \in Scenario, OtherPortfolioWriter(s)
  PROVE  DurableInv'
<1>1. /\ UNCHANGED <<status, active, receipt, jobState, plan, refuseAt, costly>>
      /\ version \in [Scenario -> Nat]
      /\ version' = [version EXCEPT ![s] = @ + 1]
  BY DEF IInv, TypeOK, OtherPortfolioWriter, queueVars, planVars, inputVars
<1>2. \A a \in Action : version[ScenarioOf[a]] <= version'[ScenarioOf[a]]
  BY <1>1, ActionExecutionAssumption
<1>3. \A a \in Action : \A i \in Ops :
        receipt[a][i] <= version[ScenarioOf[a]] => receipt[a][i] <= version'[ScenarioOf[a]]
  <2> TAKE a \in Action
  <2> TAKE i \in Ops
  <2>1. /\ receipt[a][i] \in Nat
        /\ version[ScenarioOf[a]] \in Nat
        /\ version'[ScenarioOf[a]] \in Nat
    BY <1>1, ActionExecutionAssumption DEF IInv, TypeOK
  <2> QED BY <1>2, <2>1
<1>4. ScenarioHeldByPending' /\ JobFollowsAction' /\ OutcomeTellsEffects'
  BY <1>1 DEF IInv, DurableInv, ScenarioHeldByPending, JobFollowsAction,
     OutcomeTellsEffects, Applied, HasReceipts
<1>5. PlanInv'
  BY <1>1, <1>3 DEF IInv, DurableInv, PlanInv, Applied
<1>6. OneEffectPerVersion'
  BY <1>1, <1>3 DEF IInv, DurableInv, OneEffectPerVersion, Applied
<1> QED BY <1>4, <1>5, <1>6 DEF DurableInv

(* The first plan: the action starts, nothing has been applied yet. *)
LEMMA SaveDurable ==
  ASSUME IInv, NEW w \in Worker, SavePlan(w)
  PROVE  DurableInv'
<1> USE DEF queueVars, inputVars, planVars
<1>1. /\ task[w] \in Action /\ seen[w] \in Nat /\ ~costly[task[w]]
      /\ UNCHANGED <<active, version, receipt, jobState, costly>>
  BY DEF IInv, TypeOK, WorkerInv, WorkerOK, SavePlan
<1>2. CASE UNCHANGED <<status, planVars>>
  BY <1>1, <1>2, QuietDurable DEF IInv
<1>3. CASE ~(UNCHANGED <<status, planVars>>)
  <2> DEFINE a == task[w]
  <2>1. /\ plan[a] = NoPlan /\ status[a] = "ACCEPTED"
        /\ status' = [status EXCEPT ![a] = "IN_PROGRESS"]
        /\ plan' = [plan EXCEPT ![a] = seen[w]]
        /\ \E i \in 1..(NumOps + 1) : refuseAt' = [refuseAt EXCEPT ![a] = i]
    BY <1>3 DEF SavePlan
  <2>2. /\ status'[a] = "IN_PROGRESS" /\ plan'[a] \in Nat
        /\ \A b \in Action \ {a} :
             status'[b] = status[b] /\ plan'[b] = plan[b] /\ refuseAt'[b] = refuseAt[b]
    BY <1>1, <2>1 DEF IInv, TypeOK
  <2>3. \A i \in Ops : ~Applied(a, i)
    BY <1>1, <2>1 DEF IInv, DurableInv, PlanInv
  <2> HIDE DEF a
  <2>4. ScenarioHeldByPending' /\ JobFollowsAction'
    BY <1>1, <2>1, <2>2
       DEF IInv, DurableInv, ScenarioHeldByPending, JobFollowsAction, Live, Terminal
  <2>5. PlanInv'
    <3> SUFFICES ASSUME NEW b \in Action
                 PROVE  /\ plan'[b] # NoPlan =>
                             ~costly'[b] /\ status'[b] \notin {"NONE", "ACCEPTED"}
                        /\ status'[b] = "IN_PROGRESS" => plan'[b] # NoPlan
                        /\ \A i \in Ops : Applied(b, i)' =>
                             /\ plan'[b] # NoPlan
                             /\ i < refuseAt'[b]
                             /\ receipt'[b][i] = plan'[b] + i
                             /\ receipt'[b][i] <= version'[ScenarioOf[b]]
                             /\ \A j \in Ops : j < i => Applied(b, j)'
      BY DEF PlanInv
    <3>1. CASE b = a
      BY <3>1, <1>1, <2>2, <2>3 DEF NoPlan, Applied, a
    <3>2. CASE b # a
      BY <3>2, <1>1, <2>2 DEF IInv, DurableInv, PlanInv, Applied
    <3> QED BY <3>1, <3>2
  <2>6. OneEffectPerVersion'
    BY <1>1 DEF IInv, DurableInv, OneEffectPerVersion, Applied
  <2>7. OutcomeTellsEffects'
    BY <1>1, <2>2 DEF IInv, DurableInv, OutcomeTellsEffects, Applied, HasReceipts
  <2> QED BY <2>4, <2>5, <2>6, <2>7 DEF DurableInv
<1> QED BY <1>2, <1>3

(* A receipt: the next of its plan, at a version no other effect has. *)
LEMMA ApplyDurable ==
  ASSUME IInv, NEW w \in Worker, ApplyReceipt(w)
  PROVE  DurableInv'
<1> DEFINE a == task[w]
           k == next[w]
           s == ScenarioOf[a]
<1>1. /\ a \in Action /\ k \in Ops /\ s \in Scenario
      /\ ~Applied(a, k) /\ status[a] \notin Terminal /\ refuseAt[a] # k
      /\ UNCHANGED <<status, active, jobState, plan, refuseAt, costly>>
      /\ receipt' = [receipt EXCEPT ![a][k] = version[s] + 1]
      /\ version' = [version EXCEPT ![s] = version[s] + 1]
  BY ActionExecutionAssumption
     DEF IInv, TypeOK, ApplyReceipt, Applicable, queueVars, planVars, inputVars
<1>2. /\ plan[a] \in Nat /\ version[s] = plan[a] + k - 1
      /\ \A j \in Ops : j < k => Applied(a, j)
  BY <1>1 DEF IInv, TypeOK, WorkerInv, WorkerOK, ApplyReceipt, Applicable, Pinned
<1>3. /\ refuseAt[a] \in Nat /\ refuseAt[a] >= 1 /\ version[s] \in Nat /\ k \in Nat
      /\ receipt \in [Action -> [Ops -> Nat]] /\ version \in [Scenario -> Nat]
  <2>1. refuseAt[a] \in 1..(NumOps + 1) /\ version[s] \in Nat
    BY <1>1 DEF IInv, TypeOK
  <2>2. receipt \in [Action -> [Ops -> Nat]] /\ version \in [Scenario -> Nat]
    BY DEF IInv, TypeOK
  <2>3. k \in 1..NumOps
    BY <1>1 DEF Ops
  <2> HIDE DEF a, k, s
  <2> QED BY <2>1, <2>2, <2>3, ActionExecutionAssumption
<1> HIDE DEF a, k, s
<1>4. /\ receipt'[a][k] = version[s] + 1
      /\ version'[s] = version[s] + 1
      /\ \A b \in Action, i \in Ops : (b # a \/ i # k) => receipt'[b][i] = receipt[b][i]
      /\ \A r \in Scenario \ {s} : version'[r] = version[r]
  BY <1>1, <1>3
<1>5. \A b \in Action : \A i \in Ops :
        receipt[b][i] <= version[ScenarioOf[b]] => receipt[b][i] <= version'[ScenarioOf[b]]
  <2> TAKE b \in Action
  <2> TAKE i \in Ops
  <2>1. receipt[b][i] \in Nat /\ ScenarioOf[b] \in Scenario
    BY <1>3, ActionExecutionAssumption
  <2> QED BY <2>1, <1>3, <1>4
<1>6. k < refuseAt[a]
  <2>1. CASE k = 1
    BY <2>1, <1>1, <1>3
  <2>2. CASE k # 1
    <3>1. k - 1 \in Ops /\ k - 1 < k
      BY <2>2, <1>1, ActionExecutionAssumption DEF Ops
    <3>2. k - 1 < refuseAt[a]
      BY <3>1, <1>1, <1>2 DEF IInv, DurableInv, PlanInv
    <3> QED BY <3>2, <1>1, <1>3
  <2> QED BY <2>1, <2>2
<1>7. ScenarioHeldByPending' /\ JobFollowsAction'
  BY <1>1 DEF IInv, DurableInv, ScenarioHeldByPending, JobFollowsAction
<1>8. PlanInv'
  <2> SUFFICES ASSUME NEW b \in Action
               PROVE  \A i \in Ops : Applied(b, i)' =>
                        /\ plan[b] # NoPlan
                        /\ i < refuseAt[b]
                        /\ receipt'[b][i] = plan[b] + i
                        /\ receipt'[b][i] <= version'[ScenarioOf[b]]
                        /\ \A j \in Ops : j < i => Applied(b, j)'
    BY <1>1 DEF IInv, DurableInv, PlanInv
  <2>1. \A j \in Ops : Applied(b, j) => Applied(b, j)'
    BY <1>1, <1>4 DEF Applied
  <2> TAKE i \in Ops
  <2>2. CASE b = a /\ i = k
    BY <2>2, <2>1, <1>1, <1>2, <1>3, <1>4, <1>6 DEF s, NoPlan
  <2>3. CASE b # a \/ i # k
    BY <2>3, <2>1, <1>4, <1>5 DEF IInv, DurableInv, PlanInv, Applied
  <2> QED BY <2>2, <2>3
<1>9. OneEffectPerVersion'
  <2>1. \A b \in Action : \A i \in Ops : Applied(b, i) =>
          receipt[b][i] <= version[ScenarioOf[b]]
    BY DEF IInv, DurableInv, PlanInv
  <2>2. \A b \in Action : \A i \in Ops :
          ScenarioOf[b] = s /\ (b # a \/ i # k) => receipt'[b][i] # version[s] + 1
    <3> TAKE b \in Action
    <3> TAKE i \in Ops
    <3>1. receipt[b][i] \in Nat
      BY <1>3
    <3> QED BY <3>1, <2>1, <1>3, <1>4 DEF Applied
  <2> SUFFICES ASSUME NEW b \in Action, NEW c \in Action, NEW i \in Ops, NEW j \in Ops,
                      Applied(b, i)', ScenarioOf[b] = ScenarioOf[c]
               PROVE  /\ receipt'[b][i] <= version'[ScenarioOf[b]]
                      /\ receipt'[b][i] = receipt'[c][j] => b = c /\ i = j
    BY DEF OneEffectPerVersion
  <2>3. receipt'[b][i] <= version'[ScenarioOf[b]]
    <3>1. CASE b = a /\ i = k
      BY <3>1, <1>3, <1>4 DEF s
    <3>2. CASE b # a \/ i # k
      BY <3>2, <2>1, <1>4, <1>5 DEF Applied
    <3> QED BY <3>1, <3>2
  <2>4. receipt'[b][i] = receipt'[c][j] => b = c /\ i = j
    <3>1. CASE b = a /\ i = k
      BY <3>1, <2>2, <1>4 DEF s
    <3>2. CASE c = a /\ j = k
      BY <3>2, <2>2, <1>4 DEF s
    <3>3. CASE (b # a \/ i # k) /\ (c # a \/ j # k)
      BY <3>3, <1>4 DEF IInv, DurableInv, OneEffectPerVersion, Applied
    <3> QED BY <3>1, <3>2, <3>3
  <2> QED BY <2>3, <2>4
<1>10. OutcomeTellsEffects'
  <2>1. \A b \in Action : b # a => receipt'[b] = receipt[b]
    BY <1>1, <1>3
  <2>2. status[a] \notin {"SUCCEEDED", "PARTIALLY_SUCCEEDED", "FAILED"}
    BY <1>1 DEF Terminal
  <2> QED
    BY <1>1, <2>1, <2>2 DEF IInv, DurableInv, OutcomeTellsEffects, Applied, HasReceipts
<1> QED BY <1>7, <1>8, <1>9, <1>10 DEF DurableInv

-----------------------------------------------------------------------------
(* The invariant: every step *)

LEMMA IInvInit == Init => IInv
<1> SUFFICES ASSUME Init PROVE IInv
  OBVIOUS
<1>1. \A a \in Action : \A i \in Ops : ~Applied(a, i)
  BY DEF Init, Applied
<1>2. \A a \in Action : status[a] = "NONE" /\ jobState[a] = "NONE" /\ plan[a] = NoPlan
  BY DEF Init
<1>3. ScenarioHeldByPending
  BY <1>2, ActionExecutionAssumption DEF Init, ScenarioHeldByPending, Live
<1>4. JobFollowsAction
  BY <1>2 DEF JobFollowsAction, Terminal, JobDone
<1>5. PlanInv /\ OneEffectPerVersion /\ OutcomeTellsEffects
  BY <1>1, <1>2 DEF PlanInv, OneEffectPerVersion, OutcomeTellsEffects, HasReceipts
<1>6. WorkerInv
  BY DEF Init, WorkerInv, WorkerOK
<1> QED BY <1>3, <1>4, <1>5, <1>6, TypeInit DEF IInv, DurableInv

LEMMA RetryDurable ==
  ASSUME IInv, NEW w \in Worker, RetryJob(w)
  PROVE  DurableInv'
<1> USE DEF planVars, inputVars, ledgerVars, queueVars
<1>1. CASE RetryIgnored(w)
  BY <1>1, QuietDurable DEF RetryIgnored, IInv
<1>2. ASSUME RetryReleases(w) \/ RetryExhausts(w)
      PROVE  /\ task[w] \in Action /\ status[task[w]] \in Live
             /\ jobState[task[w]] \notin JobDone \cup {"NONE"}
  BY <1>2 DEF IInv, TypeOK, WorkerInv, WorkerOK, DurableInv, JobFollowsAction,
              RetryReleases, RetryExhausts
<1>3. CASE RetryReleases(w)
  BY <1>2, <1>3, QueueDurable DEF RetryReleases
<1>4. CASE RetryExhausts(w)
  <2>1. /\ Settle(task[w], InterruptedOutcome(task[w]))
        /\ jobState' = [jobState EXCEPT ![task[w]] = "FAILED"]
        /\ UNCHANGED <<version, receipt, plan, refuseAt, costly>>
    BY <1>2, <1>4 DEF RetryExhausts, Live, Terminal
  <2>2. /\ InterruptedOutcome(task[w]) \in Terminal
        /\ InterruptedOutcome(task[w]) # "SUCCEEDED"
        /\ InterruptedOutcome(task[w]) = "PARTIALLY_SUCCEEDED" => HasReceipts(task[w])
        /\ InterruptedOutcome(task[w]) = "FAILED" => ~HasReceipts(task[w])
    BY DEF InterruptedOutcome, Terminal
  <2>3. "FAILED" \in JobDone
    BY DEF JobDone
  <2> QED BY <1>2, <1>4, <2>1, <2>2, <2>3, SettleDurable
<1> QED BY <1>1, <1>3, <1>4 DEF RetryJob

(* What each outcome claims is what the worker that records it knows. *)
LEMMA OutcomeDurable ==
  ASSUME IInv, NEW w \in Worker,
         CompleteSucceeded(w) \/ CompleteExpired(w) \/ CompleteRefused(w)
  PROVE  DurableInv'
<1>0. {"complete", "expire", "partial", "fail"} \subseteq PC
  BY DEF PC, TryBlock, CatchBlock
<1>1. CASE CompleteSucceeded(w)
  <2>1. \A i \in Ops : Applied(task[w], i)
    BY <1>1 DEF CompleteSucceeded, Complete, IInv, WorkerInv, WorkerOK
  <2> QED BY <1>0, <1>1, <2>1, CompleteDurable DEF CompleteSucceeded, Terminal
<1>2. CASE CompleteExpired(w)
  BY <1>0, <1>2, CompleteDurable DEF CompleteExpired, Terminal
<1>3. CASE Complete(w, "partial", "PARTIALLY_SUCCEEDED")
  <2>1. HasReceipts(task[w])
    BY <1>3 DEF Complete, IInv, WorkerInv, WorkerOK
  <2> QED BY <1>0, <1>3, <2>1, CompleteDurable DEF Terminal
<1>4. CASE Complete(w, "fail", "FAILED")
  <2>1. /\ task[w] \in Action
        /\ costly[task[w]] \/ (plan[task[w]] # NoPlan /\ refuseAt[task[w]] = 1)
    BY <1>4 DEF Complete, IInv, TypeOK, WorkerInv, WorkerOK
  <2>2. ~HasReceipts(task[w])
    BY <2>1 DEF IInv, DurableInv, PlanInv, HasReceipts, Ops
  <2> QED BY <1>0, <1>4, <2>2, CompleteDurable DEF Terminal
<1> QED BY <1>1, <1>2, <1>3, <1>4 DEF CompleteRefused

LEMMA DurableStep ==
  ASSUME IInv, [Next]_vars
  PROVE  DurableInv'
<1> USE DEF ledgerVars, queueVars, planVars, inputVars
<1>1. CASE UNCHANGED vars
  BY <1>1, QuietDurable DEF vars, IInv
<1>2. CASE \E a \in Action : Accept(a)
  BY <1>2, AcceptDurable
<1>3. CASE (\E a \in Action : DeadlinePasses(a) \/ LeaseLapses(a)) \/ Stop
  BY <1>3, QuietDurable DEF DeadlinePasses, LeaseLapses, Stop, IInv
<1>4. CASE \E s \in Scenario : OtherPortfolioWriter(s)
  BY <1>4, OtherWriterDurable
<1>5. ASSUME NEW w \in Worker, NEW a \in Action, Claim(w, a) PROVE DurableInv'
  <2>1. jobState[a] \notin JobDone \cup {"NONE"}
    BY <1>5 DEF Claim, Claimable, JobDone
  <2> QED BY <1>5, <2>1, QueueDurable DEF Claim
<1>6. ASSUME NEW w \in Worker,
             \/ Fault(w) \/ Crash(w) \/ LoadExecution(w) \/ CountReceipts(w)
             \/ ReadClock(w) \/ LoadPlan(w) \/ ReplayReceipt(w)
             \/ RefuseReceipt(w) \/ CountForOutcome(w)
      PROVE DurableInv'
  BY <1>6, QuietDurable
     DEF IInv, Fault, Crash, LoadExecution, CountReceipts, ReadClock, LoadPlan,
         ReplayReceipt, RefuseReceipt, CountForOutcome
<1> QED
  BY <1>1, <1>2, <1>3, <1>4, <1>5, <1>6, SaveDurable, ApplyDurable, RetryDurable,
     OutcomeDurable DEF Next, WorkerStep

LEMMA WorkerInvStep ==
  ASSUME IInv, [Next]_vars
  PROVE  WorkerInv'
<1> USE DEF ledgerVars, queueVars, planVars, inputVars, workerVars
<1>0. Monotone
  BY StepMonotone DEF IInv
<1>1. CASE /\ UNCHANGED <<pc, task, next>>
  <2> SUFFICES ASSUME NEW v \in Worker PROVE WorkerOK(v)'
    BY DEF WorkerInv
  <2> QED BY <1>0, <1>1, WorkerStable DEF IInv, WorkerInv
<1>2. CASE \/ UNCHANGED vars
           \/ \E a \in Action : Accept(a) \/ DeadlinePasses(a) \/ LeaseLapses(a)
           \/ Stop
           \/ \E s \in Scenario : OtherPortfolioWriter(s)
  BY <1>1, <1>2
     DEF vars, Accept, DeadlinePasses, LeaseLapses, Stop, OtherPortfolioWriter
<1>3. ASSUME NEW w \in Worker,
             CompleteSucceeded(w) \/ CompleteExpired(w) \/ CompleteRefused(w)
      PROVE WorkerInv'
  <2>1. \E label \in PC, outcome \in Terminal : Complete(w, label, outcome)
    BY <1>3 DEF CompleteSucceeded, CompleteExpired, CompleteRefused,
                PC, TryBlock, CatchBlock, Terminal
  <2> QED BY <1>0, <2>1, WorkerForgets
<1> QED
  BY <1>0, <1>2, <1>3, WorkerReads, WorkerForgets, WorkerClaims, WorkerSaves,
     WorkerApplies DEF Next, WorkerStep

LEMMA IInvStep == IInv /\ [Next]_vars => IInv'
<1> SUFFICES ASSUME IInv, [Next]_vars PROVE IInv'
  OBVIOUS
<1>1. TypeOK'
  <2>1. CASE UNCHANGED vars
    BY <2>1 DEF IInv, TypeOK, vars, ledgerVars, queueVars, planVars, inputVars, workerVars
  <2> QED BY <2>1, TypeIntake, TypeQueue, TypeWorkerStep DEF IInv, Next
<1> QED BY <1>1, DurableStep, WorkerInvStep DEF IInv

LEMMA IInvHolds == Spec => []IInv
BY IInvInit, IInvStep, PTL DEF Spec

-----------------------------------------------------------------------------
(* What the invariant gives *)

(* Two pending actions never share a capital scenario and no settled action
   leaves one busy, for any number of workers and any crash. *)
THEOREM MarkerMatchesPending == Spec => []ScenarioHeldByPending
<1>1. IInv => ScenarioHeldByPending
  BY DEF IInv, DurableInv
<1> QED BY <1>1, IInvHolds, PTL

(* The queue neither drops a pending action nor redelivers a settled one. *)
THEOREM QueueMatchesAction == Spec => []JobFollowsAction
<1>1. IInv => JobFollowsAction
  BY DEF IInv, DurableInv
<1> QED BY <1>1, IInvHolds, PTL

(* Receipts are an initial segment of the durable plan, each at the version
   the plan pinned it to. *)
THEOREM ReceiptsFollowPlan == Spec => []EffectsFollowPlan
<1>1. IInv => EffectsFollowPlan
  <2> SUFFICES ASSUME IInv, NEW a \in Action, NEW i \in Ops, Applied(a, i)
               PROVE  /\ plan[a] # NoPlan
                      /\ receipt[a][i] = Pinned(a, i) + 1
                      /\ \A j \in Ops : j < i => Applied(a, j)
    BY DEF EffectsFollowPlan
  <2>1. /\ plan[a] # NoPlan /\ receipt[a][i] = plan[a] + i
        /\ \A j \in Ops : j < i => Applied(a, j)
    BY DEF IInv, DurableInv, PlanInv
  <2>2. plan[a] \in Nat /\ i \in Nat
    BY <2>1 DEF IInv, TypeOK, Ops
  <2> QED BY <2>1, <2>2 DEF Pinned
<1> QED BY <1>1, IInvHolds, PTL

(* ADR 0010: duplicate workers cannot repeat an economic effect; no two
   effects of a scenario share a portfolio version. *)
THEOREM EffectsAreExclusive == Spec => []OneEffectPerVersion
<1>1. IInv => OneEffectPerVersion
  BY DEF IInv, DurableInv
<1> QED BY <1>1, IInvHolds, PTL

(* The recorded outcome is true of the receipts, although the worker that
   chose it counted them in an earlier transaction. *)
THEOREM OutcomesAreTrue == Spec => []OutcomeTellsEffects
<1>1. IInv => OutcomeTellsEffects
  BY DEF IInv, DurableInv
<1> QED BY <1>1, IInvHolds, PTL

-----------------------------------------------------------------------------
(* The operator stop *)

StoppedIdle == closed => \A s \in Scenario : active[s] = NoAction

LEMMA StoppedIdleHolds == Spec => []StoppedIdle
<1>1. Init => StoppedIdle
  BY DEF Init, StoppedIdle
<1>2. TypeOK /\ StoppedIdle /\ [Next]_vars => StoppedIdle'
  <2> SUFFICES ASSUME TypeOK, StoppedIdle, [Next]_vars PROVE StoppedIdle'
    OBVIOUS
  <2> USE DEF ledgerVars, queueVars, planVars, inputVars, workerVars
  <2>1. ASSUME closed' = closed, closed, NEW s \in Scenario,
               active'[s] \in {active[s], NoAction}
        PROVE  active'[s] = NoAction
    BY <2>1 DEF StoppedIdle
  <2>2. CASE closed' = closed /\ active' = active
    BY <2>2 DEF StoppedIdle
  <2>3. ASSUME NEW a \in Action, NEW outcome, Settle(a, outcome), closed' = closed
        PROVE  StoppedIdle'
    <3>1. \A s \in Scenario : active'[s] \in {active[s], NoAction}
      BY <2>3 DEF Settle, TypeOK
    <3> QED BY <2>3, <3>1 DEF StoppedIdle
  <2>4. CASE UNCHANGED vars
    BY <2>2, <2>4 DEF vars
  <2>5. ASSUME NEW a \in Action, Accept(a) \/ DeadlinePasses(a) \/ LeaseLapses(a)
        PROVE  StoppedIdle'
    BY <2>2, <2>5 DEF Accept, DeadlinePasses, LeaseLapses, StoppedIdle
  <2>6. CASE Stop
    BY <2>6 DEF Stop, StoppedIdle
  <2>7. CASE \E s \in Scenario : OtherPortfolioWriter(s)
    BY <2>2, <2>7 DEF OtherPortfolioWriter
  <2>8. ASSUME NEW w \in Worker,
               \/ \E a \in Action : Claim(w, a)
               \/ Fault(w) \/ Crash(w) \/ RetryIgnored(w) \/ RetryReleases(w)
               \/ LoadExecution(w) \/ CountReceipts(w) \/ ReadClock(w) \/ LoadPlan(w)
               \/ SavePlan(w) \/ ReplayReceipt(w) \/ ApplyReceipt(w)
               \/ RefuseReceipt(w) \/ CountForOutcome(w)
        PROVE  StoppedIdle'
    BY <2>2, <2>8
       DEF Claim, Fault, Crash, RetryIgnored, RetryReleases, LoadExecution,
           CountReceipts, ReadClock, LoadPlan, SavePlan, ReplayReceipt,
           ApplyReceipt, RefuseReceipt, CountForOutcome
  <2>9. ASSUME NEW w \in Worker, RetryExhausts(w) PROVE StoppedIdle'
    BY <2>2, <2>3, <2>9 DEF RetryExhausts, TypeOK
  <2>10. ASSUME NEW w \in Worker, NEW label, NEW outcome, label # "idle",
                Complete(w, label, outcome)
         PROVE  StoppedIdle'
    BY <2>2, <2>3, <2>10 DEF Complete, CompleteAction, TypeOK
  <2> QED
    BY <2>4, <2>5, <2>6, <2>7, <2>8, <2>9, <2>10
       DEF Next, WorkerStep, RetryJob, CompleteSucceeded, CompleteExpired,
           CompleteRefused
<1> QED BY <1>1, <1>2, TypeCorrect, PTL DEF Spec

(* After the stop nothing an action does changes: the busy check and the
   marker really cover every pending piece of work. *)
THEOREM StopEndsWork == Spec => StopIsQuiet
<1>1. IInv /\ StoppedIdle /\ [Next]_vars =>
        [closed => UNCHANGED <<status, active, receipt>>]_vars
  <2> SUFFICES ASSUME IInv, StoppedIdle, Next, closed
               PROVE  UNCHANGED <<status, active, receipt>>
    OBVIOUS
  <2> USE DEF ledgerVars, queueVars, planVars, inputVars, workerVars
  <2>1. \A a \in Action : status[a] \notin Live
    BY ActionExecutionAssumption
       DEF StoppedIdle, IInv, DurableInv, ScenarioHeldByPending
  <2>2. \A w \in Worker : pc[w] # "idle" =>
          task[w] \in Action /\ status[task[w]] \in Terminal
    BY <2>1 DEF IInv, TypeOK, WorkerInv, WorkerOK
  <2>3. CASE \/ \E a \in Action : Accept(a) \/ DeadlinePasses(a) \/ LeaseLapses(a)
             \/ Stop
             \/ \E s \in Scenario : OtherPortfolioWriter(s)
    BY <2>3 DEF Accept, DeadlinePasses, LeaseLapses, Stop, OtherPortfolioWriter
  <2>4. ASSUME NEW w \in Worker,
               \/ \E a \in Action : Claim(w, a)
               \/ Fault(w) \/ Crash(w) \/ RetryIgnored(w) \/ RetryReleases(w)
               \/ LoadExecution(w) \/ CountReceipts(w) \/ ReadClock(w) \/ LoadPlan(w)
               \/ ReplayReceipt(w) \/ RefuseReceipt(w) \/ CountForOutcome(w)
        PROVE  UNCHANGED <<status, active, receipt>>
    BY <2>4
       DEF Claim, Fault, Crash, RetryIgnored, RetryReleases, LoadExecution,
           CountReceipts, ReadClock, LoadPlan, ReplayReceipt, RefuseReceipt,
           CountForOutcome
  <2>5. ASSUME NEW w \in Worker,
               \/ RetryExhausts(w) \/ SavePlan(w) \/ ApplyReceipt(w)
               \/ \E label \in PC \ {"idle"}, outcome \in Terminal :
                    Complete(w, label, outcome)
        PROVE  UNCHANGED <<status, active, receipt>>
    <3>1. task[w] \in Action /\ status[task[w]] \in Terminal
      BY <2>2, <2>5 DEF RetryExhausts, SavePlan, ApplyReceipt, Complete
    <3> QED
      BY <2>5, <3>1
         DEF RetryExhausts, SavePlan, ApplyReceipt, Applicable, Complete,
             CompleteAction, Terminal
  <2>6. {"complete", "expire", "partial", "fail"} \subseteq PC \ {"idle"}
    BY DEF PC, TryBlock, CatchBlock
  <2> QED
    BY <2>3, <2>4, <2>5, <2>6
       DEF Next, WorkerStep, RetryJob, CompleteSucceeded, CompleteExpired,
           CompleteRefused, Terminal
<1> QED BY <1>1, IInvHolds, StoppedIdleHolds, PTL DEF Spec, StopIsQuiet

-----------------------------------------------------------------------------
(* One journal event per settled action *)

(* ADR 0017: repeated completion, by whichever worker and after whichever
   crash, does not duplicate the terminal journal event. *)
THEOREM TerminalEventOnce == Spec => []SettledOnce
<1>1. Init => SettledOnce
  BY DEF Init, SettledOnce, Terminal
<1>2. IInv /\ SettledOnce /\ [Next]_vars => SettledOnce'
  <2> SUFFICES ASSUME IInv, SettledOnce, [Next]_vars PROVE SettledOnce'
    OBVIOUS
  <2> USE DEF ledgerVars, queueVars, planVars, inputVars, workerVars
  <2>1. CASE UNCHANGED <<status, settled>>
    BY <2>1 DEF SettledOnce
  <2>2. ASSUME NEW a \in Action, NEW outcome \in Terminal,
               status[a] \notin Terminal, Settle(a, outcome)
        PROVE  SettledOnce'
    BY <2>2 DEF SettledOnce, Settle, IInv, TypeOK
  <2>3. ASSUME NEW a \in Action, Accept(a) PROVE SettledOnce'
    BY <2>3 DEF SettledOnce, Accept, IInv, TypeOK, Terminal
  <2>4. ASSUME NEW w \in Worker, SavePlan(w) PROVE SettledOnce'
    <3>1. task[w] \in Action
      BY <2>4 DEF SavePlan, IInv, TypeOK
    <3> QED BY <2>1, <2>4, <3>1 DEF SettledOnce, SavePlan, IInv, TypeOK, Terminal
  <2>5. ASSUME NEW w \in Worker, RetryExhausts(w) PROVE SettledOnce'
    <3>1. task[w] \in Action /\ InterruptedOutcome(task[w]) \in Terminal
      BY <2>5 DEF RetryExhausts, IInv, TypeOK, InterruptedOutcome, Terminal
    <3> QED BY <2>1, <2>2, <2>5, <3>1 DEF RetryExhausts
  <2>6. ASSUME NEW w \in Worker, NEW label \in PC \ {"idle"}, NEW outcome \in Terminal,
               Complete(w, label, outcome)
        PROVE  SettledOnce'
    <3>1. task[w] \in Action
      BY <2>6 DEF Complete, IInv, TypeOK
    <3> QED BY <2>1, <2>2, <2>6, <3>1 DEF Complete, CompleteAction
  <2>7. {"complete", "expire", "partial", "fail"} \subseteq PC \ {"idle"}
    BY DEF PC, TryBlock, CatchBlock
  <2>8. CASE \/ UNCHANGED vars
             \/ \E a \in Action : DeadlinePasses(a) \/ LeaseLapses(a)
             \/ Stop
             \/ \E s \in Scenario : OtherPortfolioWriter(s)
    BY <2>1, <2>8 DEF vars, DeadlinePasses, LeaseLapses, Stop, OtherPortfolioWriter
  <2>9. ASSUME NEW w \in Worker,
               \/ \E a \in Action : Claim(w, a)
               \/ Fault(w) \/ Crash(w) \/ RetryIgnored(w) \/ RetryReleases(w)
               \/ LoadExecution(w) \/ CountReceipts(w) \/ ReadClock(w) \/ LoadPlan(w)
               \/ ReplayReceipt(w) \/ ApplyReceipt(w) \/ RefuseReceipt(w)
               \/ CountForOutcome(w)
        PROVE  SettledOnce'
    BY <2>1, <2>9
       DEF Claim, Fault, Crash, RetryIgnored, RetryReleases, LoadExecution,
           CountReceipts, ReadClock, LoadPlan, ReplayReceipt, ApplyReceipt,
           RefuseReceipt, CountForOutcome
  <2> QED
    BY <2>3, <2>4, <2>5, <2>6, <2>7, <2>8, <2>9
       DEF Next, WorkerStep, RetryJob, CompleteSucceeded, CompleteExpired,
           CompleteRefused, Terminal
<1> QED BY <1>1, <1>2, IInvHolds, PTL DEF Spec

-----------------------------------------------------------------------------
(* The pipeline implements FinancialAction *)

LEMMA PromiseQuiet ==
  ASSUME UNCHANGED <<status, active, receipt>>
  PROVE  [Promise!Next]_Promise!vars
BY DEF Promise!vars, Applied

LEMMA PromiseSettle ==
  ASSUME IInv, NEW a \in Action, NEW outcome \in Terminal,
         status[a] \in Live, Settle(a, outcome), receipt' = receipt,
         outcome = "SUCCEEDED" => \A i \in Ops : Applied(a, i),
         outcome = "PARTIALLY_SUCCEEDED" => HasReceipts(a),
         outcome = "FAILED" => ~HasReceipts(a)
  PROVE  Promise!Next
<1>1. active[ScenarioOf[a]] = a
  BY DEF IInv, DurableInv, ScenarioHeldByPending
<1>2. active' = [active EXCEPT ![ScenarioOf[a]] = NoAction]
  BY <1>1 DEF Settle
<1>3. Promise!Truthful(a, outcome)
  BY DEF Promise!Truthful, Promise!Ops, Ops, HasReceipts
<1>4. Promise!Settle(a, outcome)
  BY <1>2, <1>3 DEF Promise!Settle, Promise!Live, Settle, Live, Applied
<1> QED BY <1>4 DEF Promise!Next, Promise!Terminal, Terminal

LEMMA PromiseComplete ==
  ASSUME IInv, NEW w \in Worker, NEW label, label # "idle", NEW outcome \in Terminal,
         Complete(w, label, outcome),
         outcome = "SUCCEEDED" => \A i \in Ops : Applied(task[w], i),
         outcome = "PARTIALLY_SUCCEEDED" => HasReceipts(task[w]),
         outcome = "FAILED" => ~HasReceipts(task[w])
  PROVE  [Promise!Next]_Promise!vars
<1>1. task[w] \in Action /\ status[task[w]] # "NONE"
  BY DEF IInv, TypeOK, WorkerInv, WorkerOK, Complete
<1>2. CASE status[task[w]] \in Terminal
  BY <1>2, PromiseQuiet DEF Complete, CompleteAction
<1>3. CASE status[task[w]] \notin Terminal
  <2>1. status[task[w]] \in Live
    BY <1>1, <1>3 DEF IInv, TypeOK
  <2> QED BY <1>1, <1>3, <2>1, PromiseSettle DEF Complete, CompleteAction
<1> QED BY <1>2, <1>3

(* The receipt the reducer persists is the next effect of the promise. *)
LEMMA PromiseEffect ==
  ASSUME IInv, NEW w \in Worker, ApplyReceipt(w)
  PROVE  Promise!Next
<1> DEFINE a == task[w]
           k == next[w]
           done == [b \in Action |-> {i \in Ops : Applied(b, i)}]
<1>1. /\ a \in Action /\ k \in Ops /\ ~Applied(a, k)
      /\ status[a] \notin Terminal /\ plan[a] # NoPlan
      /\ \A j \in Ops : j < k => Applied(a, j)
  BY DEF IInv, TypeOK, WorkerInv, WorkerOK, ApplyReceipt, Applicable
<1>2. status[a] = "IN_PROGRESS"
  BY <1>1 DEF IInv, TypeOK, DurableInv, PlanInv, Live
<1>3. active[ScenarioOf[a]] = a
  BY <1>1, <1>2 DEF IInv, DurableInv, ScenarioHeldByPending, Live
<1>4. receipt'[a][k] # 0
  <2>1. version[ScenarioOf[a]] \in Nat
    BY <1>1, ActionExecutionAssumption DEF IInv, TypeOK
  <2>2. receipt'[a][k] = version[ScenarioOf[a]] + 1
    BY <1>1 DEF IInv, TypeOK, ApplyReceipt
  <2> QED BY <2>1, <2>2
<1>5. \A b \in Action, i \in Ops : (b # a \/ i # k) => receipt'[b][i] = receipt[b][i]
  BY <1>1 DEF IInv, TypeOK, ApplyReceipt
<1>6. UNCHANGED <<status, active>>
  BY DEF ApplyReceipt
<1> HIDE DEF a, k
<1>7. \A b \in Action : {i \in Ops : Applied(b, i)'} =
        IF b = a THEN {i \in Ops : Applied(b, i)} \cup {k} ELSE {i \in Ops : Applied(b, i)}
  BY <1>1, <1>4, <1>5 DEF Applied
<1>8. done' = [done EXCEPT ![a] = @ \cup {k}]
  <2>1. done' = [b \in Action |-> {i \in Ops : Applied(b, i)'}]
    OBVIOUS
  <2> QED BY <2>1, <1>1, <1>7
<1>9. Promise!Effect(a, k)
  BY <1>1, <1>2, <1>3, <1>6, <1>8 DEF Promise!Effect, Promise!Ops, Ops
<1> QED BY <1>1, <1>9 DEF Promise!Next, Promise!Ops, Ops

LEMMA PromiseStep ==
  ASSUME IInv, [Next]_vars
  PROVE  [Promise!Next]_Promise!vars
<1> USE DEF ledgerVars, queueVars, planVars, inputVars, workerVars
<1>1. CASE \/ UNCHANGED vars
           \/ \E a \in Action : DeadlinePasses(a) \/ LeaseLapses(a)
           \/ Stop
           \/ \E s \in Scenario : OtherPortfolioWriter(s)
  BY <1>1, PromiseQuiet
     DEF vars, DeadlinePasses, LeaseLapses, Stop, OtherPortfolioWriter
<1>2. ASSUME NEW a \in Action, Accept(a) PROVE Promise!Next
  <2>1. Promise!Accept(a)
    BY <1>2 DEF Accept, Promise!Accept, Applied
  <2> QED BY <2>1 DEF Promise!Next
<1>3. ASSUME NEW w \in Worker,
             \/ \E a \in Action : Claim(w, a)
             \/ Fault(w) \/ Crash(w) \/ RetryIgnored(w) \/ RetryReleases(w)
             \/ LoadExecution(w) \/ CountReceipts(w) \/ ReadClock(w) \/ LoadPlan(w)
             \/ ReplayReceipt(w) \/ RefuseReceipt(w) \/ CountForOutcome(w)
      PROVE  [Promise!Next]_Promise!vars
  BY <1>3, PromiseQuiet
     DEF Claim, Fault, Crash, RetryIgnored, RetryReleases, LoadExecution,
         CountReceipts, ReadClock, LoadPlan, ReplayReceipt, RefuseReceipt,
         CountForOutcome
<1>4. ASSUME NEW w \in Worker, SavePlan(w) PROVE [Promise!Next]_Promise!vars
  <2>1. task[w] \in Action /\ UNCHANGED <<active, receipt>>
    BY <1>4 DEF SavePlan, IInv, TypeOK
  <2>2. CASE UNCHANGED status
    BY <2>1, <2>2, PromiseQuiet
  <2>3. CASE status' # status
    <3>1. Promise!Begin(task[w])
      BY <1>4, <2>1, <2>3 DEF SavePlan, Promise!Begin, Applied
    <3> QED BY <2>1, <3>1 DEF Promise!Next
  <2> QED BY <2>2, <2>3
<1>5. ASSUME NEW w \in Worker, RetryExhausts(w) PROVE [Promise!Next]_Promise!vars
  <2>1. task[w] \in Action /\ status[task[w]] \in Live
    BY <1>5 DEF IInv, TypeOK, WorkerInv, WorkerOK, DurableInv, JobFollowsAction,
                RetryExhausts
  <2>2. /\ InterruptedOutcome(task[w]) \in Terminal
        /\ InterruptedOutcome(task[w]) # "SUCCEEDED"
        /\ InterruptedOutcome(task[w]) = "PARTIALLY_SUCCEEDED" => HasReceipts(task[w])
        /\ InterruptedOutcome(task[w]) = "FAILED" => ~HasReceipts(task[w])
    BY DEF InterruptedOutcome, Terminal
  <2>3. Settle(task[w], InterruptedOutcome(task[w])) /\ receipt' = receipt
    BY <1>5, <2>1 DEF RetryExhausts, Live, Terminal
  <2> QED BY <2>1, <2>2, <2>3, PromiseSettle
<1>6. ASSUME NEW w \in Worker, CompleteSucceeded(w) PROVE [Promise!Next]_Promise!vars
  <2>1. \A i \in Ops : Applied(task[w], i)
    BY <1>6 DEF CompleteSucceeded, Complete, IInv, WorkerInv, WorkerOK
  <2> QED BY <1>6, <2>1, PromiseComplete DEF CompleteSucceeded, Terminal
<1>7. ASSUME NEW w \in Worker, CompleteExpired(w) PROVE [Promise!Next]_Promise!vars
  BY <1>7, PromiseComplete DEF CompleteExpired, Terminal
<1>8. ASSUME NEW w \in Worker, CompleteRefused(w) PROVE [Promise!Next]_Promise!vars
  <2>1. CASE Complete(w, "partial", "PARTIALLY_SUCCEEDED")
    <3>1. HasReceipts(task[w])
      BY <2>1 DEF Complete, IInv, WorkerInv, WorkerOK
    <3> QED BY <2>1, <3>1, PromiseComplete DEF Terminal
  <2>2. CASE Complete(w, "fail", "FAILED")
    <3>1. /\ task[w] \in Action
          /\ costly[task[w]] \/ (plan[task[w]] # NoPlan /\ refuseAt[task[w]] = 1)
      BY <2>2 DEF Complete, IInv, TypeOK, WorkerInv, WorkerOK
    <3>2. ~HasReceipts(task[w])
      BY <3>1 DEF IInv, DurableInv, PlanInv, HasReceipts, Ops
    <3> QED BY <2>2, <3>2, PromiseComplete DEF Terminal
  <2> QED BY <1>8, <2>1, <2>2 DEF CompleteRefused
<1> QED
  BY <1>1, <1>2, <1>3, <1>4, <1>5, <1>6, <1>7, <1>8, PromiseEffect
     DEF Next, WorkerStep, RetryJob

(* Leases, retries, crashes, duplicate workers and concurrent portfolio
   writers are invisible in what the pipeline promises: every behaviour of
   the code's transactions is a behaviour of FinancialAction. *)
THEOREM PipelineKeepsPromise == Spec => PromiseSpec
<1>1. Init => Promise!Init
  BY DEF Init, Promise!Init, Applied
<1> QED BY <1>1, PromiseStep, IInvHolds, PTL DEF Spec, PromiseSpec, Promise!Spec
=============================================================================
