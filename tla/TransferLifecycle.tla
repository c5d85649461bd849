-------------------------- MODULE TransferLifecycle --------------------------
(***************************************************************************)
(* The lifecycle of CCTP transfers: which event each recorded transfer     *)
(* accepts next and what it becomes.  Each Record action is the branch of  *)
(* applyTransferEvent for one kind of event.  Evidence, reason codes and   *)
(* clocks can only refuse an event, which changes nothing.                 *)
(***************************************************************************)
EXTENDS TransferDomain

CONSTANT MaxAttempts  \* maxDestinationAttempts of a transfer

ASSUME LifecycleAssumption == MaxAttempts \in Nat

VARIABLE transfer  \* cctp_transfers.payload; state NONE before the row exists

Final == {"SETTLED", "SOURCE_FAILED", "INVALIDATED"}
State == {"RESERVED", "ATTESTATION_PENDING", "READY_TO_RECEIVE",
          "DESTINATION_RETRY"} \cup Final

TransferRow ==
  [state : {"NONE"} \cup State, message : Message \cup {NoMessage},
   sequence : Nat, attempts : 0..MaxAttempts, deadline : {"OPEN"} \cup State]

Absent ==
  [state |-> "NONE", message |-> NoMessage, sequence |-> 0, attempts |-> 0,
   deadline |-> "OPEN"]

(* createTransfer *)
Created == [Absent EXCEPT !.state = "RESERVED"]

AnySequenceMutant(t, e) == e.sequence <= transfer[t].sequence

Contiguous(t, e) == e.sequence = transfer[t].sequence

(* The event carries the message identity the burn emitted. *)
SameMessage(t, e) == e.message = transfer[t].message

(* The accepted event is counted, whatever else it changes. *)
Become(t, row) ==
  transfer' = [transfer EXCEPT ![t] = [row EXCEPT !.sequence = @ + 1]]

Expect(t, e, kind) == e.kind = kind /\ Contiguous(t, e)

RecordReserved(t, e) ==
  /\ Expect(t, e, "RESERVED")
  /\ transfer[t].state = "RESERVED" /\ e.sequence = 0
  /\ Become(t, transfer[t])

RecordSourceFailed(t, e) ==
  /\ Expect(t, e, "SOURCE_FAILED")
  /\ transfer[t].state = "RESERVED"
  /\ Become(t, [transfer[t] EXCEPT !.state = "SOURCE_FAILED"])

RecordBurn(t, e) ==
  /\ Expect(t, e, "BURN_CONFIRMED")
  /\ transfer[t].state = "RESERVED"
  /\ Become(t, [transfer[t] EXCEPT !.state = "ATTESTATION_PENDING",
                                   !.message = e.message])

AttemptsLeft(t) == transfer[t].attempts < MaxAttempts

RecordAttested(t, e) ==
  /\ Expect(t, e, "ATTESTATION_OBSERVED")
  /\ \/ transfer[t].state = "ATTESTATION_PENDING"
     \/ transfer[t].state = "DESTINATION_RETRY" /\ AttemptsLeft(t)
  /\ SameMessage(t, e)
  /\ Become(t, [transfer[t] EXCEPT !.state = "READY_TO_RECEIVE"])

RecordDelay(t, e) ==
  /\ Expect(t, e, "ATTESTATION_DELAYED")
  /\ transfer[t].state = "ATTESTATION_PENDING"
  /\ SameMessage(t, e)
  /\ Become(t, transfer[t])

(* A failed mint that goes back to waiting for the attestation. *)
AwaitAgainMutant(t, e) ==
  /\ Expect(t, e, "DESTINATION_FAILED")
  /\ transfer[t].state = "READY_TO_RECEIVE"
  /\ SameMessage(t, e)
  /\ AttemptsLeft(t)
  /\ Become(t, [transfer[t] EXCEPT !.state = "ATTESTATION_PENDING",
                                   !.attempts = @ + 1])

RecordDestinationFailed(t, e) ==
  /\ Expect(t, e, "DESTINATION_FAILED")
  /\ transfer[t].state = "READY_TO_RECEIVE"
  /\ SameMessage(t, e)
  /\ AttemptsLeft(t)
  /\ Become(t, [transfer[t] EXCEPT !.state = "DESTINATION_RETRY",
                                   !.attempts = @ + 1])

RecordSettled(t, e) ==
  /\ Expect(t, e, "DESTINATION_CONFIRMED")
  /\ transfer[t].state = "READY_TO_RECEIVE"
  /\ SameMessage(t, e)
  /\ Become(t, [transfer[t] EXCEPT !.state = "SETTLED"])

AnyStateMutant(t) == transfer[t].state # "NONE"

Invalidatable(t) == transfer[t].state \in State \ {"SOURCE_FAILED", "SETTLED"}

RecordInvalidated(t, e) ==
  /\ Expect(t, e, "DEPENDENCY_INVALIDATED")
  /\ Invalidatable(t)
  /\ Become(t, [transfer[t] EXCEPT !.state = "INVALIDATED"])

(* The state before the first closure event is the deadline result. *)
DeadlineState(t) ==
  IF transfer[t].deadline = "OPEN" THEN transfer[t].state ELSE transfer[t].deadline

RecordClosure(t, e) ==
  /\ Expect(t, e, "CLOSURE_RECORDED")
  /\ transfer[t].state \in State
  /\ Become(t, [transfer[t] EXCEPT !.deadline = DeadlineState(t)])
=============================================================================
