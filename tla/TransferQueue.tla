---------------------------- MODULE TransferQueue ----------------------------
(***************************************************************************)
(* Transfers as the database and the transfer workers run them: creation   *)
(* in two statements, the polling queue with leases and an unguarded       *)
(* retry, and appendEvent, the transaction that records an event, applies  *)
(* its receipt to the portfolio and reschedules the job.                   *)
(*                                                                         *)
(* The event provider is code outside the repository: it may report any    *)
(* event for the transfer it was shown, and answers after any delay, so an *)
(* event can arrive after another worker has recorded other ones.          *)
(***************************************************************************)
EXTENDS TransferLifecycle, TransferLedger

CONSTANTS
  Worker,     \* transfer worker processes
  NoTransfer, \* no claimed job
  NoEvent,    \* nothing observed
  Charges,    \* bound: the costs of one event the runs try
  MaxEvents   \* bound: events a provider reports for one transfer

ASSUME QueueAssumption ==
  /\ Charges \subseteq Costs
  /\ NoTransfer \notin Transfer
  /\ NoEvent \notin Event
  /\ MaxEvents \in Nat

VARIABLES
  recorded,   \* cctp_transfer_events: events recorded for each transfer
  job,        \* cctp_transfer_jobs.state, NONE before the row exists
  leaseLive,  \* cctp_transfer_jobs.leased_until is in the future
  creating,   \* transfers whose create call is between its two statements
  pc,         \* next step of runTransferWorkerOnce
  task,       \* the claimed transfer
  observed    \* the event the provider answered with

queueVars  == <<job, leaseLive>>
workerVars == <<pc, task, observed>>
vars == <<transfer, ledgerVars, recorded, queueVars, creating, workerVars>>

Init ==
  /\ transfer = [t \in Transfer |-> Absent]
  /\ LedgerInit
  /\ recorded = [t \in Transfer |-> {}]
  /\ job = [t \in Transfer |-> "NONE"]
  /\ leaseLive = [t \in Transfer |-> FALSE]
  /\ creating = {}
  /\ pc = [w \in Worker |-> "idle"]
  /\ task = [w \in Worker |-> NoTransfer]
  /\ observed = [w \in Worker |-> NoEvent]

-----------------------------------------------------------------------------
(* create: two statements, no transaction. *)

InsertTransfer(t) ==
  /\ transfer[t].state = "NONE"
  /\ transfer' = [transfer EXCEPT ![t] = Created]
  /\ creating' = creating \cup {t}
  /\ UNCHANGED <<ledgerVars, recorded, queueVars, workerVars>>

InsertJob(t) ==
  /\ t \in creating
  /\ job' = [job EXCEPT ![t] = "READY"]
  /\ creating' = creating \ {t}
  /\ UNCHANGED <<transfer, ledgerVars, recorded, leaseLive, workerVars>>

(* The caller dies, or its second statement fails.  A second create is
   refused: the transfer row exists. *)
CreateInterrupted(t) ==
  /\ t \in creating
  /\ creating' = creating \ {t}
  /\ UNCHANGED <<transfer, ledgerVars, recorded, queueVars, workerVars>>

-----------------------------------------------------------------------------
(* runTransferWorkerOnce *)

Forget(w) ==
  /\ pc' = [pc EXCEPT ![w] = "idle"]
  /\ task' = [task EXCEPT ![w] = NoTransfer]
  /\ observed' = [observed EXCEPT ![w] = NoEvent]

Goto(w, label) ==
  /\ pc' = [pc EXCEPT ![w] = label]
  /\ UNCHANGED <<task, observed>>

WaitingOnlyMutant(t) == job[t] \in {"READY", "RETRY"}

Claimable(t) ==
  \/ job[t] \in {"READY", "RETRY"}
  \/ job[t] = "RUNNING" /\ ~leaseLive[t]

Claim(w, t) ==
  /\ pc[w] = "idle"
  /\ Claimable(t)
  /\ job' = [job EXCEPT ![t] = "RUNNING"]
  /\ leaseLive' = [leaseLive EXCEPT ![t] = TRUE]
  /\ pc' = [pc EXCEPT ![w] = "observe"]
  /\ task' = [task EXCEPT ![w] = t]
  /\ UNCHANGED <<transfer, ledgerVars, recorded, creating, observed>>

LeaseLapses(t) ==
  /\ job[t] = "RUNNING" /\ leaseLive[t]
  /\ leaseLive' = [leaseLive EXCEPT ![t] = FALSE]
  /\ UNCHANGED <<transfer, ledgerVars, recorded, job, creating, workerVars>>

(* load and observe: the provider is shown the transfer as it is now, and
   numbers its event with the sequence it was shown. *)
Observe(w) ==
  /\ pc[w] = "observe"
  /\ transfer[task[w]].sequence < MaxEvents
  /\ \E k \in PlainKind \cup MessageKind :
       \E m \in IF k \in PlainKind THEN {NoMessage} ELSE Message :
         observed' = [observed EXCEPT ![w] =
           [kind |-> k, message |-> m, sequence |-> transfer[task[w]].sequence]]
  /\ pc' = [pc EXCEPT ![w] = "append"]
  /\ UNCHANGED <<transfer, ledgerVars, recorded, queueVars, creating, task>>

(* The provider answers WAITING, or throws. *)
NothingObserved(w) ==
  /\ pc[w] = "observe"
  /\ Goto(w, "retry")
  /\ UNCHANGED <<transfer, ledgerVars, recorded, queueVars, creating>>

OpenReceivablesOnlyMutant(t, m) == UnknownMessage(m)

(* cctp_transfers.message_identity is UNIQUE. *)
FreshMessage(t, m) == \A u \in Transfer \ {t} : transfer[u].message # m

(* The lifecycle and the portfolio must both accept the event; closure and
   invalidation have no receipt, a reservation no costs. *)
Accept(t, e, costs) ==
  \/ RecordReserved(t, e) /\ ReserveCash(t)
  \/ RecordSourceFailed(t, e) /\ SourceFailed(t, costs)
  \/ RecordBurn(t, e) /\ FreshMessage(t, e.message) /\ Burned(t, e.message, costs)
  \/ RecordAttested(t, e) /\ Ready(t, costs)
  \/ RecordDelay(t, e) /\ Delayed(t, costs)
  \/ RecordDestinationFailed(t, e) /\ DestinationRetry(t, costs)
  \/ RecordSettled(t, e) /\ Settled(t, costs)
  \/ RecordInvalidated(t, e) /\ UNCHANGED ledgerVars
  \/ RecordClosure(t, e) /\ UNCHANGED ledgerVars

BoundMeansDoneMutant(row) ==
  IF row.state \in Final \cup {"DESTINATION_RETRY"} THEN "COMPLETED" ELSE "READY"

JobAfter(row) == IF row.state \in Final THEN "COMPLETED" ELSE "READY"

(* appendEvent, an event not recorded before. *)
AppendEvent(w) ==
  LET t == task[w]
      e == observed[w] IN
  /\ pc[w] = "append"
  /\ e \notin recorded[t]
  /\ \E costs \in Charges : Accept(t, e, costs)
  /\ recorded' = [recorded EXCEPT ![t] = @ \cup {e}]
  /\ job' = [job EXCEPT ![t] = JobAfter(transfer'[t])]
  /\ leaseLive' = [leaseLive EXCEPT ![t] = FALSE]
  /\ Forget(w)
  /\ UNCHANGED creating

(* appendEvent, an exact duplicate: nothing changes, the job included. *)
AppendDuplicate(w) ==
  /\ pc[w] = "append"
  /\ observed[w] \in recorded[task[w]]
  /\ Forget(w)
  /\ UNCHANGED <<transfer, ledgerVars, recorded, queueVars, creating>>

(* The event is refused (sequence, state, message, cash, debts, evidence,
   clock, a cost ID or event ID used before) or the transaction fails; either rolls back. *)
AppendRefused(w) ==
  /\ pc[w] = "append"
  /\ Goto(w, "retry")
  /\ UNCHANGED <<transfer, ledgerVars, recorded, queueVars, creating>>

(* retry: whatever the job has become since the claim. *)
Retry(w) ==
  /\ pc[w] = "retry"
  /\ job' = [job EXCEPT ![task[w]] = "RETRY"]
  /\ leaseLive' = [leaseLive EXCEPT ![task[w]] = FALSE]
  /\ Forget(w)
  /\ UNCHANGED <<transfer, ledgerVars, recorded, creating>>

Crash(w) ==
  /\ pc[w] # "idle"
  /\ Forget(w)
  /\ UNCHANGED <<transfer, ledgerVars, recorded, queueVars, creating>>

WorkerStep(w) ==
  \/ Observe(w) \/ NothingObserved(w)
  \/ AppendEvent(w) \/ AppendDuplicate(w) \/ AppendRefused(w)
  \/ Retry(w)

Next ==
  \/ \E t \in Transfer :
       \/ InsertTransfer(t) \/ InsertJob(t) \/ CreateInterrupted(t)
       \/ LeaseLapses(t)
  \/ \E w \in Worker :
       \/ \E t \in Transfer : Claim(w, t)
       \/ WorkerStep(w) \/ Crash(w)

Spec == Init /\ [][Next]_vars

-----------------------------------------------------------------------------
(* Safety *)

TypeOK ==
  /\ transfer \in [Transfer -> TransferRow]
  /\ cash \in [Family -> Nat]
  /\ reserved \in [Transfer -> BOOLEAN]
  /\ receivable \in [Transfer -> Receivable]
  /\ owed \in Nat /\ spent \in Nat
  /\ recorded \in [Transfer -> SUBSET Event]
  /\ job \in [Transfer -> {"NONE", "READY", "RUNNING", "RETRY", "COMPLETED"}]
  /\ leaseLive \in [Transfer -> BOOLEAN]
  /\ creating \in SUBSET Transfer
  /\ pc \in [Worker -> {"idle", "observe", "append", "retry"}]
  /\ task \in [Worker -> Transfer \cup {NoTransfer}]
  /\ observed \in [Worker -> Event \cup {NoEvent}]
  /\ \A w \in Worker :
       /\ pc[w] # "idle" => task[w] \in Transfer
       /\ pc[w] = "append" => observed[w] \in Event

(* Where the portfolio must hold a transfer's units in each lifecycle state. *)
HoldsNothing(t) == ~reserved[t] /\ InState(t, {"NONE"})

(* It was reserved, and has not been released or burned since. *)
StillReserved(t) ==
  /\ \E e \in recorded[t] : e.kind = "RESERVED"
  /\ transfer[t].state \in {"RESERVED", "INVALIDATED"}
  /\ transfer[t].message = NoMessage

OpenState == {"IN_TRANSIT", "DELAYED", "READY_TO_RECEIVE", "DESTINATION_RETRY"}

HoldsReceivable(t, states) ==
  /\ InState(t, states)
  /\ receivable[t].tries = transfer[t].attempts
  /\ receivable[t].message = transfer[t].message

InStep(t) ==
  LET s == transfer[t].state IN
  /\ reserved[t] <=> StillReserved(t)
  /\ s \in {"NONE", "RESERVED", "SOURCE_FAILED", "SETTLED"} => InState(t, {"NONE"})
  /\ s = "ATTESTATION_PENDING" => HoldsReceivable(t, {"IN_TRANSIT", "DELAYED"})
  /\ s \in {"READY_TO_RECEIVE", "DESTINATION_RETRY"} => HoldsReceivable(t, {s})
  /\ s = "INVALIDATED" => IF transfer[t].message = NoMessage
                            THEN InState(t, {"NONE"})
                            ELSE HoldsReceivable(t, OpenState)

(* The lifecycle and the portfolio, two state machines that never read each
   other, agree on every transfer after every event: its units are in the
   reservation from RESERVED on until the source fails or burns, then in one
   receivable with the message and the attempts of the lifecycle, and credited
   once the lifecycle has settled.  DEPENDENCY_INVALIDATED is the exception
   the code makes: nothing ever releases what the transfer holds then, its
   reservation before the burn, its receivable after it.  No other history
   leaves units where the lifecycle has no more use for them. *)
LedgerFollowsLifecycle == \A t \in Transfer : InStep(t)

(* ADR 0006: cash, reservations and receivables less the payables are the
   opening capital less the recognized costs, those still owed included,
   however events were lost, repeated or reordered.  The check with which
   assertPortfolio ends never has a transfer receipt to refuse. *)
ValueConserved ==
  SumFunction(cash) + SumFunction(Holding) - owed = SumFunction(Opening) - spent

(* A CCTP message belongs to one transfer, also after it settled and its
   receivable was forgotten: one message is never credited twice. *)
MessageOwnedOnce ==
  \A t, u \in Transfer :
    transfer[t].message = transfer[u].message =>
      t = u \/ transfer[t].message = NoMessage

(* Concurrent workers never record two events at one sequence, nor leave a
   gap: the event table replays to the transfer row. *)
EventsContiguous ==
  \A t \in Transfer :
    /\ \A e, f \in recorded[t] : e.sequence = f.sequence => e = f
    /\ {e.sequence : e \in recorded[t]} = 0..(transfer[t].sequence - 1)

(* The queue drops a transfer only when its lifecycle is over.  The converse
   is false: an unguarded retry revives the job of a finished transfer. *)
CompletedOnlyWhenFinal ==
  \A t \in Transfer : job[t] = "COMPLETED" => transfer[t].state \in Final

(* What a transfer came to is never rewritten, even by the worker that a
   revived job hands it to or by a closure that comes late.  A settled or
   failed transfer, and capital held by an invalidated one, stay as they are;
   ADR 0014: the message identity is frozen by the burn, and "a later
   settlement cannot change the deadline result". *)
OutcomeFrozen ==
  [][\A t \in Transfer :
       /\ transfer[t].state \in Final =>
            /\ transfer'[t].state = transfer[t].state
            /\ reserved'[t] = reserved[t]
            /\ receivable'[t] = receivable[t]
       /\ transfer[t].message # NoMessage =>
            transfer'[t].message = transfer[t].message
       /\ transfer[t].deadline # "OPEN" =>
            transfer'[t].deadline = transfer[t].deadline]_vars

(* README: the project "persists restart-safe execution/transfer state", and
   ADR 0014: "The durable worker polls through retry jobs".  Every durable
   transfer whose creation is over has a job to poll it with. *)
DurableTransferIsQueued ==
  \A t \in Transfer :
    transfer[t].state # "NONE" /\ t \notin creating => job[t] # "NONE"

-----------------------------------------------------------------------------
(* Liveness *)

(* Workers are run again after they return or die, leases lapse, and a job
   that stays claimable while a worker is idle is claimed. *)
Fairness ==
  /\ \A w \in Worker : WF_vars(WorkerStep(w))
  /\ \A t \in Transfer :
       WF_vars(LeaseLapses(t)) /\ WF_vars(\E w \in Worker : Claim(w, t))

FairSpec == Spec /\ Fairness

(* A queued transfer whose lifecycle is not over is always polled again:
   crashes, stale workers, refused and duplicate events never lose it. *)
PendingIsPolled ==
  \A t \in Transfer :
    (job[t] # "NONE" /\ transfer[t].state \notin Final)
      ~> \/ transfer[t].state \in Final
         \/ \E w \in Worker : pc[w] = "observe" /\ task[w] = t

-----------------------------------------------------------------------------
(* The queue implements what CapitalTransfer promises. *)

PlaceOf(t) ==
  CASE reserved[t] -> "RESERVATION"
    [] ~reserved[t] /\ ~InState(t, {"NONE"}) -> "RECEIVABLE"
    [] HoldsNothing(t) /\ transfer[t].state = "SETTLED" -> "CREDITED"
    [] HoldsNothing(t) /\ transfer[t].state = "SOURCE_FAILED" -> "RELEASED"
    [] OTHER -> "CASH"

Promise == INSTANCE CapitalTransfer
             WITH place <- [t \in Transfer |-> PlaceOf(t)],
                  Cost <- Charges

PromiseSpec == Promise!Spec
=============================================================================
