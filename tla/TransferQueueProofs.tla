-------------------------- MODULE TransferQueueProofs --------------------------
(***************************************************************************)
(* Proofs about TransferQueue, for every set of transfers, messages,       *)
(* families and workers and every attempt bound.                           *)
(*                                                                         *)
(* A transaction of appendEvent is summarised by what it makes of one row  *)
(* of each state machine (RowIs, LedgerIs); every invariant is then argued *)
(* from the summaries, one kind of event at a time.                        *)
(***************************************************************************)
EXTENDS TransferQueue, SumTheorems

USE DomainAssumption, LifecycleAssumption, LedgerAssumption, QueueAssumption

DataOK ==
  /\ transfer \in [Transfer -> TransferRow]
  /\ cash \in [Family -> Nat]
  /\ reserved \in [Transfer -> BOOLEAN]
  /\ receivable \in [Transfer -> Receivable]
  /\ owed \in Nat /\ spent \in Nat

(* The step gives t's row these fields and leaves the other rows alone. *)
RowIs(t, state, message, attempts, deadline) ==
  /\ transfer' \in [Transfer -> TransferRow]
  /\ \A u \in Transfer \ {t} : transfer'[u] = transfer[u]
  /\ transfer'[t].state = state
  /\ transfer'[t].message = message
  /\ transfer'[t].attempts = attempts
  /\ transfer'[t].deadline = deadline
  /\ transfer'[t].sequence = transfer[t].sequence + 1

(* The step leaves t's reservation and receivable like this, and keeps those
   of the other transfers. *)
LedgerIs(t, held, state, tries, message) ==
  /\ cash' \in [Family -> Nat]
  /\ owed' \in Nat /\ spent' \in Nat
  /\ reserved' \in [Transfer -> BOOLEAN]
  /\ receivable' \in [Transfer -> Receivable]
  /\ \A u \in Transfer \ {t} :
       reserved'[u] = reserved[u] /\ receivable'[u] = receivable[u]
  /\ reserved'[t] = held
  /\ receivable'[t].state = state
  /\ receivable'[t].tries = tries
  /\ receivable'[t].message = message

-----------------------------------------------------------------------------
(* The lifecycle *)

LEMMA RowTyped ==
  ASSUME DataOK, NEW t \in Transfer
  PROVE  /\ transfer[t] \in TransferRow
         /\ transfer[t].state \in {"NONE"} \cup State
         /\ transfer[t].message \in Message \cup {NoMessage}
         /\ transfer[t].sequence \in Nat
         /\ transfer[t].attempts \in 0..MaxAttempts
         /\ transfer[t].deadline \in {"OPEN"} \cup State
BY DEF DataOK, TransferRow

LEMMA Becomes ==
  ASSUME DataOK, NEW t \in Transfer, NEW row \in TransferRow,
         row.sequence = transfer[t].sequence, Become(t, row)
  PROVE  RowIs(t, row.state, row.message, row.attempts, row.deadline)
<1> DEFINE new == [row EXCEPT !.sequence = @ + 1]
<1>1. new \in TransferRow
  BY DEF TransferRow
<1>2. /\ new.state = row.state /\ new.message = row.message
      /\ new.attempts = row.attempts /\ new.deadline = row.deadline
      /\ new.sequence = row.sequence + 1
  BY DEF TransferRow
<1>3. transfer' = [transfer EXCEPT ![t] = new]
  BY DEF Become
<1> HIDE DEF new
<1> QED
  BY <1>1, <1>2, <1>3 DEF DataOK, RowIs

LEMMA ReservedRow ==
  ASSUME DataOK, NEW t \in Transfer, NEW e \in Event, RecordReserved(t, e)
  PROVE  /\ RowIs(t, "RESERVED", transfer[t].message, transfer[t].attempts, transfer[t].deadline)
         /\ e.sequence = transfer[t].sequence
         /\ transfer[t].state = "RESERVED"
<1> DEFINE row == transfer[t]
<1>1. /\ e.sequence = transfer[t].sequence
      /\ transfer[t].state = "RESERVED"
      /\ Become(t, row)
  BY DEF RecordReserved, Expect, Contiguous
<1>3. /\ row \in TransferRow
      /\ row.sequence = transfer[t].sequence
      /\ row.state = "RESERVED" /\ row.message = transfer[t].message
      /\ row.attempts = transfer[t].attempts /\ row.deadline = transfer[t].deadline
  BY <1>1, RowTyped DEF TransferRow, State, Final
<1> HIDE DEF row
<1> QED
  BY <1>1, <1>3, Becomes

LEMMA SourceFailedRow ==
  ASSUME DataOK, NEW t \in Transfer, NEW e \in Event, RecordSourceFailed(t, e)
  PROVE  /\ RowIs(t, "SOURCE_FAILED", transfer[t].message, transfer[t].attempts, transfer[t].deadline)
         /\ e.sequence = transfer[t].sequence
         /\ transfer[t].state = "RESERVED"
<1> DEFINE row == [transfer[t] EXCEPT !.state = "SOURCE_FAILED"]
<1>1. /\ e.sequence = transfer[t].sequence
      /\ transfer[t].state = "RESERVED"
      /\ Become(t, row)
  BY DEF RecordSourceFailed, Expect, Contiguous
<1>3. /\ row \in TransferRow
      /\ row.sequence = transfer[t].sequence
      /\ row.state = "SOURCE_FAILED" /\ row.message = transfer[t].message
      /\ row.attempts = transfer[t].attempts /\ row.deadline = transfer[t].deadline
  BY <1>1, RowTyped DEF TransferRow, State, Final
<1> HIDE DEF row
<1> QED
  BY <1>1, <1>3, Becomes

LEMMA BurnRow ==
  ASSUME DataOK, NEW t \in Transfer, NEW e \in Event, RecordBurn(t, e)
  PROVE  /\ RowIs(t, "ATTESTATION_PENDING", e.message, transfer[t].attempts, transfer[t].deadline)
         /\ e.sequence = transfer[t].sequence
         /\ transfer[t].state = "RESERVED" /\ e.message \in Message
<1> DEFINE row == [transfer[t] EXCEPT !.state = "ATTESTATION_PENDING", !.message = e.message]
<1>1. /\ e.sequence = transfer[t].sequence
      /\ transfer[t].state = "RESERVED" /\ e.message \in Message
      /\ Become(t, row)
  BY DEF RecordBurn, Expect, Contiguous, Event, PlainKind, MessageKind
<1>3. /\ row \in TransferRow
      /\ row.sequence = transfer[t].sequence
      /\ row.state = "ATTESTATION_PENDING" /\ row.message = e.message
      /\ row.attempts = transfer[t].attempts /\ row.deadline = transfer[t].deadline
  BY <1>1, RowTyped DEF TransferRow, State, Final
<1> HIDE DEF row
<1> QED
  BY <1>1, <1>3, Becomes

LEMMA AttestedRow ==
  ASSUME DataOK, NEW t \in Transfer, NEW e \in Event, RecordAttested(t, e)
  PROVE  /\ RowIs(t, "READY_TO_RECEIVE", transfer[t].message, transfer[t].attempts, transfer[t].deadline)
         /\ e.sequence = transfer[t].sequence
         /\ transfer[t].state \in {"ATTESTATION_PENDING", "DESTINATION_RETRY"}
<1> DEFINE row == [transfer[t] EXCEPT !.state = "READY_TO_RECEIVE"]
<1>1. /\ e.sequence = transfer[t].sequence
      /\ transfer[t].state \in {"ATTESTATION_PENDING", "DESTINATION_RETRY"}
      /\ Become(t, row)
  BY DEF RecordAttested, Expect, Contiguous
<1>3. /\ row \in TransferRow
      /\ row.sequence = transfer[t].sequence
      /\ row.state = "READY_TO_RECEIVE" /\ row.message = transfer[t].message
      /\ row.attempts = transfer[t].attempts /\ row.deadline = transfer[t].deadline
  BY <1>1, RowTyped DEF TransferRow, State, Final
<1> HIDE DEF row
<1> QED
  BY <1>1, <1>3, Becomes

LEMMA DelayRow ==
  ASSUME DataOK, NEW t \in Transfer, NEW e \in Event, RecordDelay(t, e)
  PROVE  /\ RowIs(t, "ATTESTATION_PENDING", transfer[t].message, transfer[t].attempts, transfer[t].deadline)
         /\ e.sequence = transfer[t].sequence
         /\ transfer[t].state = "ATTESTATION_PENDING"
<1> DEFINE row == transfer[t]
<1>1. /\ e.sequence = transfer[t].sequence
      /\ transfer[t].state = "ATTESTATION_PENDING"
      /\ Become(t, row)
  BY DEF RecordDelay, Expect, Contiguous
<1>3. /\ row \in TransferRow
      /\ row.sequence = transfer[t].sequence
      /\ row.state = "ATTESTATION_PENDING" /\ row.message = transfer[t].message
      /\ row.attempts = transfer[t].attempts /\ row.deadline = transfer[t].deadline
  BY <1>1, RowTyped DEF TransferRow, State, Final
<1> HIDE DEF row
<1> QED
  BY <1>1, <1>3, Becomes

LEMMA DestinationFailedRow ==
  ASSUME DataOK, NEW t \in Transfer, NEW e \in Event, RecordDestinationFailed(t, e)
  PROVE  /\ RowIs(t, "DESTINATION_RETRY", transfer[t].message, transfer[t].attempts + 1, transfer[t].deadline)
         /\ e.sequence = transfer[t].sequence
         /\ transfer[t].state = "READY_TO_RECEIVE"
<1> DEFINE row == [transfer[t] EXCEPT !.state = "DESTINATION_RETRY", !.attempts = @ + 1]
<1>1. /\ e.sequence = transfer[t].sequence
      /\ transfer[t].state = "READY_TO_RECEIVE"
      /\ Become(t, row)
  BY DEF RecordDestinationFailed, Expect, Contiguous
<1>2. transfer[t].attempts + 1 \in 0..MaxAttempts
  BY RowTyped DEF RecordDestinationFailed, AttemptsLeft
<1>3. /\ row \in TransferRow
      /\ row.sequence = transfer[t].sequence
      /\ row.state = "DESTINATION_RETRY" /\ row.message = transfer[t].message
      /\ row.attempts = transfer[t].attempts + 1 /\ row.deadline = transfer[t].deadline
  BY <1>1, <1>2, RowTyped DEF TransferRow, State, Final
<1> HIDE DEF row
<1> QED
  BY <1>1, <1>3, Becomes

LEMMA SettledRow ==
  ASSUME DataOK, NEW t \in Transfer, NEW e \in Event, RecordSettled(t, e)
  PROVE  /\ RowIs(t, "SETTLED", transfer[t].message, transfer[t].attempts, transfer[t].deadline)
         /\ e.sequence = transfer[t].sequence
         /\ transfer[t].state = "READY_TO_RECEIVE"
<1> DEFINE row == [transfer[t] EXCEPT !.state = "SETTLED"]
<1>1. /\ e.sequence = transfer[t].sequence
      /\ transfer[t].state = "READY_TO_RECEIVE"
      /\ Become(t, row)
  BY DEF RecordSettled, Expect, Contiguous
<1>3. /\ row \in TransferRow
      /\ row.sequence = transfer[t].sequence
      /\ row.state = "SETTLED" /\ row.message = transfer[t].message
      /\ row.attempts = transfer[t].attempts /\ row.deadline = transfer[t].deadline
  BY <1>1, RowTyped DEF TransferRow, State, Final
<1> HIDE DEF row
<1> QED
  BY <1>1, <1>3, Becomes

LEMMA InvalidatedRow ==
  ASSUME DataOK, NEW t \in Transfer, NEW e \in Event, RecordInvalidated(t, e)
  PROVE  /\ RowIs(t, "INVALIDATED", transfer[t].message, transfer[t].attempts, transfer[t].deadline)
         /\ e.sequence = transfer[t].sequence
         /\ transfer[t].state \in State \ {"SOURCE_FAILED", "SETTLED"}
<1> DEFINE row == [transfer[t] EXCEPT !.state = "INVALIDATED"]
<1>1. /\ e.sequence = transfer[t].sequence
      /\ transfer[t].state \in State \ {"SOURCE_FAILED", "SETTLED"}
      /\ Become(t, row)
  BY DEF RecordInvalidated, Expect, Contiguous, Invalidatable
<1>3. /\ row \in TransferRow
      /\ row.sequence = transfer[t].sequence
      /\ row.state = "INVALIDATED" /\ row.message = transfer[t].message
      /\ row.attempts = transfer[t].attempts /\ row.deadline = transfer[t].deadline
  BY <1>1, RowTyped DEF TransferRow, State, Final
<1> HIDE DEF row
<1> QED
  BY <1>1, <1>3, Becomes

LEMMA ClosureRow ==
  ASSUME DataOK, NEW t \in Transfer, NEW e \in Event, RecordClosure(t, e)
  PROVE  /\ RowIs(t, transfer[t].state, transfer[t].message, transfer[t].attempts, DeadlineState(t))
         /\ e.sequence = transfer[t].sequence
         /\ transfer[t].state \in State
<1> DEFINE row == [transfer[t] EXCEPT !.deadline = DeadlineState(t)]
<1>1. /\ e.sequence = transfer[t].sequence
      /\ transfer[t].state \in State
      /\ Become(t, row)
  BY DEF RecordClosure, Expect, Contiguous
<1>3. /\ row \in TransferRow
      /\ row.sequence = transfer[t].sequence
      /\ row.state = transfer[t].state /\ row.message = transfer[t].message
      /\ row.attempts = transfer[t].attempts /\ row.deadline = DeadlineState(t)
  BY <1>1, RowTyped DEF TransferRow, State, Final, DeadlineState
<1> HIDE DEF row
<1> QED
  BY <1>1, <1>3, Becomes

-----------------------------------------------------------------------------
(* The portfolio *)

LEMMA LedgerTyped ==
  ASSUME DataOK, NEW t \in Transfer
  PROVE  /\ reserved[t] \in BOOLEAN
         /\ receivable[t] \in Receivable
         /\ receivable[t].tries \in 0..PortfolioAttempts
         /\ receivable[t].message \in Message \cup {NoMessage}
         /\ Amount[t] \in Nat /\ Net[t] \in Nat
         /\ Source[t] \in Family /\ Dest[t] \in Family
BY DEF DataOK, Receivable

LEMMA CostsTyped ==
  ASSUME NEW costs \in Costs
  PROVE  /\ costs.paid \in [Family -> Nat] /\ costs.paid \in [Family -> Int]
         /\ SumFunction(costs.paid) \in Nat
         /\ costs.payable \in Nat /\ costs.withheld \in Nat
<1>1. costs.paid \in [Family -> Nat] /\ costs.payable \in Nat /\ costs.withheld \in Nat
  BY DEF Costs
<1> QED
  BY <1>1, SumNat

LEMMA ApplyCostsTyped ==
  ASSUME DataOK, NEW money \in [Family -> Nat], NEW costs \in Costs, NEW gap,
         ApplyCosts(money, costs, gap)
  PROVE  cash' \in [Family -> Nat] /\ owed' \in Nat /\ spent' \in Nat
<1>1. \A f \in Family : money[f] - costs.paid[f] \in Nat
  BY CostsTyped DEF ApplyCosts
<1>2. Recognized(costs) \in Nat
  BY CostsTyped DEF Recognized
<1>3. owed \in Nat /\ spent \in Nat /\ Indebted(costs) \in Nat
  BY CostsTyped DEF DataOK, Indebted
<1> QED
  BY <1>1, <1>2, <1>3 DEF ApplyCosts

LEMMA UpdateLedger ==
  ASSUME DataOK, NEW t \in Transfer, NEW costs \in Costs, NEW row \in Receivable,
         Update(t, row, costs)
  PROVE  LedgerIs(t, reserved[t], row.state, row.tries, row.message)
<1>1. cash' \in [Family -> Nat] /\ owed' \in Nat /\ spent' \in Nat
  BY ApplyCostsTyped DEF Update, DataOK
<1> QED
  BY <1>1 DEF Update, LedgerIs, DataOK

LEMMA ReserveLedger ==
  ASSUME DataOK, NEW t \in Transfer, ReserveCash(t)
  PROVE  LedgerIs(t, TRUE, receivable[t].state, receivable[t].tries,
                  receivable[t].message)
<1>1. cash' \in [Family -> Nat]
  BY LedgerTyped DEF ReserveCash, Available, DataOK
<1> QED
  BY <1>1 DEF ReserveCash, LedgerIs, DataOK

LEMMA SourceFailedLedger ==
  ASSUME DataOK, NEW t \in Transfer, NEW costs \in Costs, SourceFailed(t, costs)
  PROVE  /\ reserved[t]
         /\ LedgerIs(t, FALSE, receivable[t].state, receivable[t].tries,
                     receivable[t].message)
<1>1. Amount[t] - costs.withheld \in Nat
  BY LedgerTyped, CostsTyped DEF SourceFailed
<1>2. [cash EXCEPT ![Source[t]] = @ + (Amount[t] - costs.withheld)] \in [Family -> Nat]
  BY <1>1, LedgerTyped DEF DataOK
<1>3. cash' \in [Family -> Nat] /\ owed' \in Nat /\ spent' \in Nat
  BY <1>2, ApplyCostsTyped DEF SourceFailed
<1> QED
  BY <1>3 DEF SourceFailed, LedgerIs, DataOK

LEMMA BurnedLedger ==
  ASSUME DataOK, NEW t \in Transfer, NEW costs \in Costs, NEW m \in Message,
         Burned(t, m, costs)
  PROVE  /\ reserved[t]
         /\ LedgerIs(t, FALSE, "IN_TRANSIT", 0, m)
<1>1. cash' \in [Family -> Nat] /\ owed' \in Nat /\ spent' \in Nat
  BY ApplyCostsTyped DEF Burned, DataOK
<1>2. [state |-> "IN_TRANSIT", tries |-> 0, message |-> m] \in Receivable
  BY DEF Receivable
<1> QED
  BY <1>1, <1>2 DEF Burned, DropReservation, LedgerIs, DataOK

LEMMA ReadyLedger ==
  ASSUME DataOK, NEW t \in Transfer, NEW costs \in Costs, Ready(t, costs)
  PROVE  /\ InState(t, {"IN_TRANSIT", "DELAYED", "DESTINATION_RETRY"})
         /\ LedgerIs(t, reserved[t], "READY_TO_RECEIVE", receivable[t].tries,
                     receivable[t].message)
<1> DEFINE row == [receivable[t] EXCEPT !.state = "READY_TO_RECEIVE"]
<1>1. InState(t, {"IN_TRANSIT", "DELAYED", "DESTINATION_RETRY"}) /\ Update(t, row, costs)
  BY DEF Ready, InState
<1>3. /\ row \in Receivable
      /\ row.state = "READY_TO_RECEIVE" /\ row.tries = receivable[t].tries
      /\ row.message = receivable[t].message
  BY LedgerTyped DEF Receivable
<1> HIDE DEF row
<1> QED
  BY <1>1, <1>3, UpdateLedger

LEMMA DelayedLedger ==
  ASSUME DataOK, NEW t \in Transfer, NEW costs \in Costs, Delayed(t, costs)
  PROVE  /\ InState(t, {"IN_TRANSIT"})
         /\ LedgerIs(t, reserved[t], "DELAYED", receivable[t].tries,
                     receivable[t].message)
<1> DEFINE row == [receivable[t] EXCEPT !.state = "DELAYED"]
<1>1. InState(t, {"IN_TRANSIT"}) /\ Update(t, row, costs)
  BY DEF Delayed, InState
<1>3. /\ row \in Receivable
      /\ row.state = "DELAYED" /\ row.tries = receivable[t].tries
      /\ row.message = receivable[t].message
  BY LedgerTyped DEF Receivable
<1> HIDE DEF row
<1> QED
  BY <1>1, <1>3, UpdateLedger

LEMMA DestinationRetryLedger ==
  ASSUME DataOK, NEW t \in Transfer, NEW costs \in Costs, DestinationRetry(t, costs)
  PROVE  /\ InState(t, {"READY_TO_RECEIVE"})
         /\ LedgerIs(t, reserved[t], "DESTINATION_RETRY", receivable[t].tries + 1,
                     receivable[t].message)
<1> DEFINE row == [receivable[t] EXCEPT !.state = "DESTINATION_RETRY", !.tries = @ + 1]
<1>1. InState(t, {"READY_TO_RECEIVE"}) /\ Update(t, row, costs)
  BY DEF DestinationRetry, InState
<1>2. receivable[t].tries + 1 \in 0..PortfolioAttempts
  BY LedgerTyped DEF DestinationRetry, TriesLeft
<1>3. /\ row \in Receivable
      /\ row.state = "DESTINATION_RETRY" /\ row.tries = receivable[t].tries + 1
      /\ row.message = receivable[t].message
  BY <1>2, LedgerTyped DEF Receivable
<1> HIDE DEF row
<1> QED
  BY <1>1, <1>3, UpdateLedger

LEMMA SettledLedger ==
  ASSUME DataOK, NEW t \in Transfer, NEW costs \in Costs, Settled(t, costs)
  PROVE  /\ InState(t, {"READY_TO_RECEIVE"})
         /\ LedgerIs(t, reserved[t], "NONE", 0, NoMessage)
<1>1. [cash EXCEPT ![Dest[t]] = @ + Net[t]] \in [Family -> Nat]
  BY LedgerTyped DEF DataOK
<1>2. cash' \in [Family -> Nat] /\ owed' \in Nat /\ spent' \in Nat
  BY <1>1, ApplyCostsTyped DEF Settled
<1>3. NoReceivable \in Receivable
  BY DEF NoReceivable, Receivable
<1> QED
  BY <1>2, <1>3 DEF Settled, NoReceivable, LedgerIs, DataOK

LEMMA UnchangedLedger ==
  ASSUME DataOK, NEW t \in Transfer, UNCHANGED ledgerVars
  PROVE  LedgerIs(t, reserved[t], receivable[t].state, receivable[t].tries,
                  receivable[t].message)
BY DEF ledgerVars, LedgerIs, DataOK

-----------------------------------------------------------------------------
(* appendEvent, whatever the event *)

AcceptedBy(t, e) ==
  /\ DataOK'
  /\ \A u \in Transfer \ {t} :
       /\ transfer'[u] = transfer[u]
       /\ reserved'[u] = reserved[u]
       /\ receivable'[u] = receivable[u]
  /\ e.sequence = transfer[t].sequence
  /\ transfer'[t].sequence = transfer[t].sequence + 1
  /\ transfer[t].state \in State
  /\ transfer'[t].state \in State

LEMMA AcceptFrames ==
  ASSUME DataOK, NEW t \in Transfer, NEW e \in Event, NEW costs \in Costs,
         Accept(t, e, costs)
  PROVE  AcceptedBy(t, e)
<1>1. CASE RecordReserved(t, e) /\ ReserveCash(t)
  <2>1. RowIs(t, "RESERVED", transfer[t].message, transfer[t].attempts,
              transfer[t].deadline)
    BY <1>1, ReservedRow
  <2>2. LedgerIs(t, TRUE, receivable[t].state, receivable[t].tries, receivable[t].message)
    BY <1>1, ReserveLedger
  <2>3. e.sequence = transfer[t].sequence /\ transfer[t].state = "RESERVED"
    BY <1>1, ReservedRow
  <2> QED
    BY <2>1, <2>2, <2>3 DEF RowIs, LedgerIs, AcceptedBy, DataOK, State, Final
<1>2. CASE RecordSourceFailed(t, e) /\ SourceFailed(t, costs)
  <2>1. RowIs(t, "SOURCE_FAILED", transfer[t].message, transfer[t].attempts,
              transfer[t].deadline)
    BY <1>2, SourceFailedRow
  <2>2. LedgerIs(t, FALSE, receivable[t].state, receivable[t].tries, receivable[t].message)
    BY <1>2, SourceFailedLedger
  <2>3. e.sequence = transfer[t].sequence /\ transfer[t].state = "RESERVED"
    BY <1>2, SourceFailedRow
  <2> QED
    BY <2>1, <2>2, <2>3 DEF RowIs, LedgerIs, AcceptedBy, DataOK, State, Final
<1>3. CASE RecordBurn(t, e) /\ FreshMessage(t, e.message)
            /\ Burned(t, e.message, costs)
  <2>1. /\ RowIs(t, "ATTESTATION_PENDING", e.message, transfer[t].attempts,
                 transfer[t].deadline)
        /\ e.message \in Message
    BY <1>3, BurnRow
  <2>2. LedgerIs(t, FALSE, "IN_TRANSIT", 0, e.message)
    BY <1>3, <2>1, BurnedLedger
  <2>3. e.sequence = transfer[t].sequence /\ transfer[t].state = "RESERVED"
    BY <1>3, BurnRow
  <2> QED
    BY <2>1, <2>2, <2>3 DEF RowIs, LedgerIs, AcceptedBy, DataOK, State, Final
<1>4. CASE RecordAttested(t, e) /\ Ready(t, costs)
  BY <1>4, AttestedRow, ReadyLedger DEF RowIs, LedgerIs, AcceptedBy, DataOK, State, Final
<1>5. CASE RecordDelay(t, e) /\ Delayed(t, costs)
  BY <1>5, DelayRow, DelayedLedger DEF RowIs, LedgerIs, AcceptedBy, DataOK, State, Final
<1>6. CASE RecordDestinationFailed(t, e) /\ DestinationRetry(t, costs)
  BY <1>6, DestinationFailedRow, DestinationRetryLedger DEF RowIs, LedgerIs, AcceptedBy, DataOK, State, Final
<1>7. CASE RecordSettled(t, e) /\ Settled(t, costs)
  BY <1>7, SettledRow, SettledLedger DEF RowIs, LedgerIs, AcceptedBy, DataOK, State, Final
<1>8. CASE RecordInvalidated(t, e) /\ UNCHANGED ledgerVars
  BY <1>8, InvalidatedRow, UnchangedLedger DEF RowIs, LedgerIs, AcceptedBy, DataOK, State, Final
<1>9. CASE RecordClosure(t, e) /\ UNCHANGED ledgerVars
  BY <1>9, ClosureRow, UnchangedLedger DEF RowIs, LedgerIs, AcceptedBy, DataOK, State, Final
<1> QED
  BY <1>1, <1>2, <1>3, <1>4, <1>5, <1>6, <1>7, <1>8, <1>9 DEF Accept

(* A transfer that has not burned has no message and no attempts, one that
   waits for its destination has a message. *)
ShapeOf(t) ==
  /\ transfer[t].state = "NONE" => transfer[t] = Absent
  /\ transfer[t].state = "RESERVED" =>
       transfer[t].message = NoMessage /\ transfer[t].attempts = 0
  /\ transfer[t].state \in {"ATTESTATION_PENDING", "READY_TO_RECEIVE", "DESTINATION_RETRY"} =>
       transfer[t].message # NoMessage

RowShape == \A t \in Transfer : ShapeOf(t)

LEMMA AcceptShape ==
  ASSUME DataOK, NEW t \in Transfer, NEW e \in Event, NEW costs \in Costs,
         Accept(t, e, costs), ShapeOf(t)
  PROVE  ShapeOf(t)'
<1>1. CASE RecordReserved(t, e) /\ ReserveCash(t)
  BY <1>1, ReservedRow, ReserveLedger DEF RowIs, ShapeOf, State, Final
<1>2. CASE RecordSourceFailed(t, e) /\ SourceFailed(t, costs)
  BY <1>2, SourceFailedRow, SourceFailedLedger DEF RowIs, ShapeOf, State, Final
<1>3. CASE RecordBurn(t, e) /\ FreshMessage(t, e.message)
            /\ Burned(t, e.message, costs)
  BY <1>3, BurnRow, BurnedLedger DEF RowIs, ShapeOf, State, Final
<1>4. CASE RecordAttested(t, e) /\ Ready(t, costs)
  BY <1>4, AttestedRow, ReadyLedger DEF RowIs, ShapeOf, State, Final
<1>5. CASE RecordDelay(t, e) /\ Delayed(t, costs)
  BY <1>5, DelayRow, DelayedLedger DEF RowIs, ShapeOf, State, Final
<1>6. CASE RecordDestinationFailed(t, e) /\ DestinationRetry(t, costs)
  BY <1>6, DestinationFailedRow, DestinationRetryLedger DEF RowIs, ShapeOf, State, Final
<1>7. CASE RecordSettled(t, e) /\ Settled(t, costs)
  BY <1>7, SettledRow, SettledLedger DEF RowIs, ShapeOf, State, Final
<1>8. CASE RecordInvalidated(t, e) /\ UNCHANGED ledgerVars
  BY <1>8, InvalidatedRow, UnchangedLedger DEF RowIs, ShapeOf, State, Final
<1>9. CASE RecordClosure(t, e) /\ UNCHANGED ledgerVars
  BY <1>9, ClosureRow, UnchangedLedger DEF RowIs, ShapeOf, State, Final
<1> QED
  BY <1>1, <1>2, <1>3, <1>4, <1>5, <1>6, <1>7, <1>8, <1>9 DEF Accept

WasReserved(t) == \E e \in recorded[t] : e.kind = "RESERVED"

(* The reservation lasts from its event to the source's failure or the burn. *)
LEMMA AcceptReservation ==
  ASSUME DataOK, NEW t \in Transfer, NEW e \in Event, NEW costs \in Costs,
         Accept(t, e, costs), recorded'[t] = recorded[t] \cup {e},
         ShapeOf(t), reserved[t] <=> StillReserved(t)
  PROVE  (reserved[t] <=> StillReserved(t))'
<1>0. /\ WasReserved(t)' <=> WasReserved(t) \/ e.kind = "RESERVED"
      /\ StillReserved(t) <=>
           /\ WasReserved(t)
           /\ transfer[t].state \in {"RESERVED", "INVALIDATED"}
           /\ transfer[t].message = NoMessage
      /\ StillReserved(t)' <=>
           /\ WasReserved(t)'
           /\ transfer'[t].state \in {"RESERVED", "INVALIDATED"}
           /\ transfer'[t].message = NoMessage
  BY DEF WasReserved, StillReserved
<1> HIDE DEF WasReserved, StillReserved
<1>1. CASE RecordReserved(t, e) /\ ReserveCash(t)
  <2>1. e.kind = "RESERVED"
    BY <1>1 DEF RecordReserved, Expect
  <2> QED
    BY <1>0, <1>1, <2>1, ReservedRow, ReserveLedger DEF RowIs, LedgerIs, ShapeOf
<1>2. CASE RecordSourceFailed(t, e) /\ SourceFailed(t, costs)
  BY <1>0, <1>2, SourceFailedRow, SourceFailedLedger DEF RowIs, LedgerIs
<1>3. CASE RecordBurn(t, e) /\ FreshMessage(t, e.message)
            /\ Burned(t, e.message, costs)
  <2>1. transfer'[t].message \in Message
    BY <1>3, BurnRow DEF RowIs
  <2>2. ~reserved'[t]
    BY <1>3, BurnRow, BurnedLedger DEF LedgerIs
  <2> QED
    BY <1>0, <2>1, <2>2
<1>4. CASE RecordAttested(t, e) /\ Ready(t, costs)
  BY <1>0, <1>4, AttestedRow, ReadyLedger DEF RowIs, LedgerIs
<1>5. CASE RecordDelay(t, e) /\ Delayed(t, costs)
  BY <1>0, <1>5, DelayRow, DelayedLedger DEF RowIs, LedgerIs
<1>6. CASE RecordDestinationFailed(t, e) /\ DestinationRetry(t, costs)
  BY <1>0, <1>6, DestinationFailedRow, DestinationRetryLedger DEF RowIs, LedgerIs
<1>7. CASE RecordSettled(t, e) /\ Settled(t, costs)
  BY <1>0, <1>7, SettledRow, SettledLedger DEF RowIs, LedgerIs
<1>8. CASE RecordInvalidated(t, e) /\ UNCHANGED ledgerVars
  <2>1. e.kind # "RESERVED"
    BY <1>8 DEF RecordInvalidated, Expect
  <2>2. /\ transfer[t].state \in State \ {"SOURCE_FAILED", "SETTLED"}
        /\ transfer'[t].state = "INVALIDATED" /\ transfer'[t].message = transfer[t].message
        /\ reserved'[t] = reserved[t]
    BY <1>8, InvalidatedRow DEF RowIs, ledgerVars
  <2> QED
    BY <1>0, <2>1, <2>2 DEF ShapeOf, State, Final
<1>9. CASE RecordClosure(t, e) /\ UNCHANGED ledgerVars
  <2>1. e.kind # "RESERVED"
    BY <1>9 DEF RecordClosure, Expect
  <2>2. /\ transfer'[t].state = transfer[t].state /\ transfer'[t].message = transfer[t].message
        /\ reserved'[t] = reserved[t]
    BY <1>9, ClosureRow DEF RowIs, ledgerVars
  <2> QED
    BY <1>0, <2>1, <2>2
<1> QED
  BY <1>1, <1>2, <1>3, <1>4, <1>5, <1>6, <1>7, <1>8, <1>9 DEF Accept

(* The two state machines move together. *)
LEMMA AcceptInStep ==
  ASSUME DataOK, NEW t \in Transfer, NEW e \in Event, NEW costs \in Costs,
         Accept(t, e, costs), recorded'[t] = recorded[t] \cup {e},
         ShapeOf(t), InStep(t)
  PROVE  InStep(t)'
<1>0. (reserved[t] <=> StillReserved(t))'
  BY AcceptReservation DEF InStep
<1> HIDE DEF StillReserved
<1> USE <1>0 DEF InStep, HoldsReceivable, InState, OpenState
<1>1. CASE RecordReserved(t, e) /\ ReserveCash(t)
  BY <1>1, ReservedRow, ReserveLedger DEF RowIs, LedgerIs, ShapeOf, State, Final
<1>2. CASE RecordSourceFailed(t, e) /\ SourceFailed(t, costs)
  BY <1>2, SourceFailedRow, SourceFailedLedger DEF RowIs, LedgerIs, ShapeOf, State, Final
<1>3. CASE RecordBurn(t, e) /\ FreshMessage(t, e.message)
            /\ Burned(t, e.message, costs)
  <2>1. /\ RowIs(t, "ATTESTATION_PENDING", e.message, transfer[t].attempts,
                 transfer[t].deadline)
        /\ e.message \in Message
    BY <1>3, BurnRow
  <2>2. LedgerIs(t, FALSE, "IN_TRANSIT", 0, e.message)
    BY <1>3, <2>1, BurnedLedger
  <2>3. e.sequence = transfer[t].sequence /\ transfer[t].state = "RESERVED"
    BY <1>3, BurnRow
  <2> QED
    BY <2>1, <2>2, <2>3 DEF RowIs, LedgerIs, ShapeOf, State, Final
<1>4. CASE RecordAttested(t, e) /\ Ready(t, costs)
  BY <1>4, AttestedRow, ReadyLedger DEF RowIs, LedgerIs, ShapeOf, State, Final
<1>5. CASE RecordDelay(t, e) /\ Delayed(t, costs)
  BY <1>5, DelayRow, DelayedLedger DEF RowIs, LedgerIs, ShapeOf, State, Final
<1>6. CASE RecordDestinationFailed(t, e) /\ DestinationRetry(t, costs)
  BY <1>6, DestinationFailedRow, DestinationRetryLedger DEF RowIs, LedgerIs, ShapeOf, State, Final
<1>7. CASE RecordSettled(t, e) /\ Settled(t, costs)
  BY <1>7, SettledRow, SettledLedger DEF RowIs, LedgerIs, ShapeOf, State, Final
<1>8. CASE RecordInvalidated(t, e) /\ UNCHANGED ledgerVars
  BY <1>8, InvalidatedRow, UnchangedLedger DEF RowIs, LedgerIs, ShapeOf, State, Final
<1>9. CASE RecordClosure(t, e) /\ UNCHANGED ledgerVars
  BY <1>9, ClosureRow, UnchangedLedger DEF RowIs, LedgerIs, ShapeOf, State, Final
<1> QED
  BY <1>1, <1>2, <1>3, <1>4, <1>5, <1>6, <1>7, <1>8, <1>9 DEF Accept

(* A final transfer keeps its state and its capital. *)
LEMMA AcceptFinal ==
  ASSUME DataOK, NEW t \in Transfer, NEW e \in Event, NEW costs \in Costs,
         Accept(t, e, costs), transfer[t].state \in Final
  PROVE  /\ transfer'[t].state = transfer[t].state
         /\ reserved'[t] = reserved[t]
         /\ receivable'[t] = receivable[t]
<1>1. CASE RecordReserved(t, e) /\ ReserveCash(t)
  BY <1>1, ReservedRow, ReserveLedger DEF RowIs, LedgerIs, Final, State, ledgerVars
<1>2. CASE RecordSourceFailed(t, e) /\ SourceFailed(t, costs)
  BY <1>2, SourceFailedRow, SourceFailedLedger DEF RowIs, LedgerIs, Final, State, ledgerVars
<1>3. CASE RecordBurn(t, e) /\ FreshMessage(t, e.message)
            /\ Burned(t, e.message, costs)
  BY <1>3, BurnRow, BurnedLedger DEF RowIs, LedgerIs, Final, State, ledgerVars
<1>4. CASE RecordAttested(t, e) /\ Ready(t, costs)
  BY <1>4, AttestedRow, ReadyLedger DEF RowIs, LedgerIs, Final, State, ledgerVars
<1>5. CASE RecordDelay(t, e) /\ Delayed(t, costs)
  BY <1>5, DelayRow, DelayedLedger DEF RowIs, LedgerIs, Final, State, ledgerVars
<1>6. CASE RecordDestinationFailed(t, e) /\ DestinationRetry(t, costs)
  BY <1>6, DestinationFailedRow, DestinationRetryLedger DEF RowIs, LedgerIs, Final, State, ledgerVars
<1>7. CASE RecordSettled(t, e) /\ Settled(t, costs)
  BY <1>7, SettledRow, SettledLedger DEF RowIs, LedgerIs, Final, State, ledgerVars
<1>8. CASE RecordInvalidated(t, e) /\ UNCHANGED ledgerVars
  BY <1>8, InvalidatedRow, UnchangedLedger DEF RowIs, LedgerIs, Final, State, ledgerVars
<1>9. CASE RecordClosure(t, e) /\ UNCHANGED ledgerVars
  BY <1>9, ClosureRow, UnchangedLedger DEF RowIs, LedgerIs, Final, State, ledgerVars
<1> QED
  BY <1>1, <1>2, <1>3, <1>4, <1>5, <1>6, <1>7, <1>8, <1>9 DEF Accept

(* The burn names the message, the first closure the deadline state. *)
LEMMA AcceptFrozen ==
  ASSUME DataOK, NEW t \in Transfer, NEW e \in Event, NEW costs \in Costs,
         Accept(t, e, costs), ShapeOf(t)
  PROVE  /\ transfer[t].message # NoMessage =>
              transfer'[t].message = transfer[t].message
         /\ transfer[t].deadline # "OPEN" =>
              transfer'[t].deadline = transfer[t].deadline
<1>1. CASE RecordReserved(t, e) /\ ReserveCash(t)
  BY <1>1, ReservedRow, ReserveLedger DEF RowIs, ShapeOf, DeadlineState
<1>2. CASE RecordSourceFailed(t, e) /\ SourceFailed(t, costs)
  BY <1>2, SourceFailedRow, SourceFailedLedger DEF RowIs, ShapeOf, DeadlineState
<1>3. CASE RecordBurn(t, e) /\ FreshMessage(t, e.message)
            /\ Burned(t, e.message, costs)
  BY <1>3, BurnRow, BurnedLedger DEF RowIs, ShapeOf, DeadlineState
<1>4. CASE RecordAttested(t, e) /\ Ready(t, costs)
  BY <1>4, AttestedRow, ReadyLedger DEF RowIs, ShapeOf, DeadlineState
<1>5. CASE RecordDelay(t, e) /\ Delayed(t, costs)
  BY <1>5, DelayRow, DelayedLedger DEF RowIs, ShapeOf, DeadlineState
<1>6. CASE RecordDestinationFailed(t, e) /\ DestinationRetry(t, costs)
  BY <1>6, DestinationFailedRow, DestinationRetryLedger DEF RowIs, ShapeOf, DeadlineState
<1>7. CASE RecordSettled(t, e) /\ Settled(t, costs)
  BY <1>7, SettledRow, SettledLedger DEF RowIs, ShapeOf, DeadlineState
<1>8. CASE RecordInvalidated(t, e) /\ UNCHANGED ledgerVars
  BY <1>8, InvalidatedRow, UnchangedLedger DEF RowIs, ShapeOf, DeadlineState
<1>9. CASE RecordClosure(t, e) /\ UNCHANGED ledgerVars
  BY <1>9, ClosureRow, UnchangedLedger DEF RowIs, ShapeOf, DeadlineState
<1> QED
  BY <1>1, <1>2, <1>3, <1>4, <1>5, <1>6, <1>7, <1>8, <1>9 DEF Accept

(* A new message is one no other transfer has. *)
LEMMA AcceptMessage ==
  ASSUME DataOK, NEW t \in Transfer, NEW e \in Event, NEW costs \in Costs,
         Accept(t, e, costs)
  PROVE  \/ transfer'[t].message = transfer[t].message
         \/ FreshMessage(t, transfer'[t].message)
<1>1. CASE RecordReserved(t, e) /\ ReserveCash(t)
  BY <1>1, ReservedRow, ReserveLedger DEF RowIs, FreshMessage
<1>2. CASE RecordSourceFailed(t, e) /\ SourceFailed(t, costs)
  BY <1>2, SourceFailedRow, SourceFailedLedger DEF RowIs, FreshMessage
<1>3. CASE RecordBurn(t, e) /\ FreshMessage(t, e.message)
            /\ Burned(t, e.message, costs)
  BY <1>3, BurnRow, BurnedLedger DEF RowIs, FreshMessage
<1>4. CASE RecordAttested(t, e) /\ Ready(t, costs)
  BY <1>4, AttestedRow, ReadyLedger DEF RowIs, FreshMessage
<1>5. CASE RecordDelay(t, e) /\ Delayed(t, costs)
  BY <1>5, DelayRow, DelayedLedger DEF RowIs, FreshMessage
<1>6. CASE RecordDestinationFailed(t, e) /\ DestinationRetry(t, costs)
  BY <1>6, DestinationFailedRow, DestinationRetryLedger DEF RowIs, FreshMessage
<1>7. CASE RecordSettled(t, e) /\ Settled(t, costs)
  BY <1>7, SettledRow, SettledLedger DEF RowIs, FreshMessage
<1>8. CASE RecordInvalidated(t, e) /\ UNCHANGED ledgerVars
  BY <1>8, InvalidatedRow, UnchangedLedger DEF RowIs, FreshMessage
<1>9. CASE RecordClosure(t, e) /\ UNCHANGED ledgerVars
  BY <1>9, ClosureRow, UnchangedLedger DEF RowIs, FreshMessage
<1> QED
  BY <1>1, <1>2, <1>3, <1>4, <1>5, <1>6, <1>7, <1>8, <1>9 DEF Accept

-----------------------------------------------------------------------------
(* The steps of the queue *)

LEMMA TypedData ==
  ASSUME TypeOK
  PROVE  DataOK
BY DEF TypeOK, DataOK

LEMMA AppendAccepts ==
  ASSUME TypeOK, NEW w \in Worker, AppendEvent(w)
  PROVE  /\ task[w] \in Transfer
         /\ observed[w] \in Event
         /\ \E costs \in Costs : costs \in Charges /\ Accept(task[w], observed[w], costs)
         /\ AcceptedBy(task[w], observed[w])
<1>1. /\ task[w] \in Transfer
      /\ observed[w] \in Event
      /\ \E costs \in Costs : costs \in Charges /\ Accept(task[w], observed[w], costs)
  BY DEF TypeOK, AppendEvent
<1> QED
  BY <1>1, TypedData, AcceptFrames

(* Only create and appendEvent touch transfers, portfolio and event log. *)
LEMMA StepKinds ==
  ASSUME [Next]_vars
  PROVE  \/ \E t \in Transfer : InsertTransfer(t)
         \/ \E w \in Worker : AppendEvent(w)
         \/ UNCHANGED <<transfer, ledgerVars, recorded>>
BY DEF Next, WorkerStep, vars, InsertJob, CreateInterrupted, LeaseLapses, Claim,
       Observe, NothingObserved, AppendDuplicate, AppendRefused, Retry, Crash

-----------------------------------------------------------------------------
(* The inductive invariant.  The lifecycle and the portfolio agree on a step
   only because they agree before it (LedgerFollowsLifecycle) and because a
   transfer that has not burned carries no message and no attempts
   (RowShape). *)

IInv ==
  /\ TypeOK
  /\ LedgerFollowsLifecycle
  /\ RowShape
  /\ MessageOwnedOnce
  /\ CompletedOnlyWhenFinal
  /\ EventsContiguous

LEMMA InitInvariant == Init => IInv
<1> SUFFICES ASSUME Init PROVE IInv
  OBVIOUS
<1> USE DEF Init, LedgerInit
<1>0. Absent \in TransferRow /\ NoReceivable \in Receivable
  BY DEF Absent, TransferRow, NoReceivable, Receivable
<1>1. TypeOK
  BY <1>0 DEF TypeOK
<1>2. LedgerFollowsLifecycle
  BY DEF LedgerFollowsLifecycle, InStep, StillReserved, InState, Absent, NoReceivable
<1>3. RowShape
  BY DEF RowShape, ShapeOf, Absent
<1>4. MessageOwnedOnce
  BY DEF MessageOwnedOnce, Absent
<1>5. CompletedOnlyWhenFinal
  BY DEF CompletedOnlyWhenFinal
<1>6. EventsContiguous
  <2>1. \A t \in Transfer : recorded[t] = {} /\ transfer[t].sequence = 0
    BY DEF Absent
  <2>2. 0..(0 - 1) = {}
    OBVIOUS
  <2>3. \A t \in Transfer : {e.sequence : e \in recorded[t]} = {}
    BY <2>1, Zenon
  <2> QED
    BY <2>1, <2>2, <2>3 DEF EventsContiguous
<1> QED
  BY <1>1, <1>2, <1>3, <1>4, <1>5, <1>6 DEF IInv

-----------------------------------------------------------------------------
(* Types *)

LEMMA TypeOfCreation ==
  ASSUME TypeOK, NEW t \in Transfer,
         InsertTransfer(t) \/ InsertJob(t) \/ CreateInterrupted(t) \/ LeaseLapses(t)
  PROVE  TypeOK'
<1>1. CASE InsertTransfer(t)
  <2>1. Created \in TransferRow
    BY DEF Created, Absent, TransferRow, State
  <2> QED
    BY <1>1, <2>1 DEF InsertTransfer, ledgerVars, queueVars, workerVars, TypeOK
<1>2. CASE InsertJob(t)
  BY <1>2 DEF InsertJob, ledgerVars, workerVars, TypeOK
<1>3. CASE CreateInterrupted(t)
  BY <1>3 DEF CreateInterrupted, ledgerVars, queueVars, workerVars, TypeOK
<1>4. CASE LeaseLapses(t)
  BY <1>4 DEF LeaseLapses, ledgerVars, workerVars, TypeOK
<1> QED
  BY <1>1, <1>2, <1>3, <1>4

LEMMA TypeOfObservation ==
  ASSUME TypeOK, NEW w \in Worker, Observe(w)
  PROVE  TypeOK'
<1>1. task[w] \in Transfer /\ transfer[task[w]].sequence \in Nat
  BY DEF Observe, TypeOK, TransferRow
<1>2. PICK k \in PlainKind \cup MessageKind :
        \E m \in IF k \in PlainKind THEN {NoMessage} ELSE Message :
          observed' = [observed EXCEPT ![w] =
            [kind |-> k, message |-> m, sequence |-> transfer[task[w]].sequence]]
  BY DEF Observe
<1>3. PICK m \in IF k \in PlainKind THEN {NoMessage} ELSE Message :
        observed' = [observed EXCEPT ![w] =
          [kind |-> k, message |-> m, sequence |-> transfer[task[w]].sequence]]
  BY <1>2
<1> DEFINE e == [kind |-> k, message |-> m, sequence |-> transfer[task[w]].sequence]
<1>4. e \in Event
  <2>1. CASE k \in PlainKind
    BY <1>1, <1>3, <2>1 DEF Event
  <2>2. CASE k \notin PlainKind
    BY <1>1, <1>2, <1>3, <2>2 DEF Event
  <2> QED
    BY <2>1, <2>2
<1> HIDE DEF e
<1>5. /\ observed' \in [Worker -> Event \cup {NoEvent}]
      /\ observed'[w] \in Event
      /\ \A v \in Worker \ {w} : observed'[v] = observed[v]
  <2>1. observed' = [observed EXCEPT ![w] = e]
    BY <1>3 DEF e
  <2> QED
    BY <2>1, <1>4 DEF TypeOK
<1> QED
  BY <1>1, <1>5 DEF Observe, ledgerVars, queueVars, TypeOK

LEMMA TypeOfAppend ==
  ASSUME TypeOK, NEW w \in Worker, AppendEvent(w)
  PROVE  TypeOK'
<1>1. /\ DataOK'
      /\ task[w] \in Transfer
      /\ observed[w] \in Event
  BY AppendAccepts DEF AcceptedBy
<1>2. recorded' \in [Transfer -> SUBSET Event]
  BY <1>1 DEF AppendEvent, TypeOK
<1>3. job' \in [Transfer -> {"NONE", "READY", "RUNNING", "RETRY", "COMPLETED"}]
  <2>1. JobAfter(transfer'[task[w]]) \in {"READY", "COMPLETED"}
    BY DEF JobAfter
  <2> QED
    BY <2>1 DEF AppendEvent, TypeOK
<1>4. /\ leaseLive' \in [Transfer -> BOOLEAN]
      /\ creating' \in SUBSET Transfer
  BY DEF AppendEvent, TypeOK
<1>5. /\ pc' = [pc EXCEPT ![w] = "idle"]
      /\ task' = [task EXCEPT ![w] = NoTransfer]
      /\ observed' = [observed EXCEPT ![w] = NoEvent]
  BY DEF AppendEvent, Forget
<1>6. /\ pc' \in [Worker -> {"idle", "observe", "append", "retry"}]
      /\ task' \in [Worker -> Transfer \cup {NoTransfer}]
      /\ observed' \in [Worker -> Event \cup {NoEvent}]
      /\ \A v \in Worker :
           /\ pc'[v] # "idle" => task'[v] \in Transfer
           /\ pc'[v] = "append" => observed'[v] \in Event
  BY <1>5 DEF TypeOK
<1> QED
  BY <1>1, <1>2, <1>3, <1>4, <1>6 DEF TypeOK, DataOK

LEMMA TypeOfOther ==
  ASSUME TypeOK, NEW w \in Worker,
         \/ NothingObserved(w) \/ AppendDuplicate(w) \/ AppendRefused(w)
         \/ Retry(w) \/ Crash(w) \/ \E t \in Transfer : Claim(w, t)
  PROVE  TypeOK'
<1>1. CASE NothingObserved(w)
  BY <1>1 DEF NothingObserved, Goto, ledgerVars, queueVars, TypeOK
<1>2. CASE AppendDuplicate(w)
  BY <1>2 DEF AppendDuplicate, Forget, ledgerVars, queueVars, TypeOK
<1>3. CASE AppendRefused(w)
  BY <1>3 DEF AppendRefused, Goto, ledgerVars, queueVars, TypeOK
<1>4. CASE Retry(w)
  BY <1>4 DEF Retry, Forget, ledgerVars, TypeOK
<1>5. CASE Crash(w)
  BY <1>5 DEF Crash, Forget, ledgerVars, queueVars, TypeOK
<1>6. ASSUME NEW t \in Transfer, Claim(w, t) PROVE TypeOK'
  BY <1>6 DEF Claim, ledgerVars, TypeOK
<1> QED
  BY <1>1, <1>2, <1>3, <1>4, <1>5, <1>6

LEMMA TypePreserved ==
  ASSUME TypeOK, [Next]_vars
  PROVE  TypeOK'
<1>1. CASE UNCHANGED vars
  BY <1>1 DEF vars, ledgerVars, queueVars, workerVars, TypeOK
<1>2. CASE Next
  BY <1>2, TypeOfCreation, TypeOfObservation, TypeOfAppend, TypeOfOther
     DEF Next, WorkerStep
<1> QED
  BY <1>1, <1>2

-----------------------------------------------------------------------------
(* The other parts of the invariant *)

LEMMA FollowsPreserved ==
  ASSUME TypeOK, LedgerFollowsLifecycle, RowShape, EventsContiguous, [Next]_vars
  PROVE  LedgerFollowsLifecycle' /\ RowShape'
<1> USE DEF LedgerFollowsLifecycle, RowShape
<1>0. ASSUME NEW u \in Transfer, transfer'[u] = transfer[u], reserved'[u] = reserved[u],
             receivable'[u] = receivable[u], recorded'[u] = recorded[u]
      PROVE  InStep(u)' /\ ShapeOf(u)'
  BY <1>0 DEF InStep, StillReserved, HoldsReceivable, InState, OpenState, ShapeOf
<1>1. ASSUME NEW t \in Transfer, InsertTransfer(t)
      PROVE  LedgerFollowsLifecycle' /\ RowShape'
  <2>1. /\ transfer' = [transfer EXCEPT ![t] = Created]
        /\ reserved' = reserved /\ receivable' = receivable /\ recorded' = recorded
        /\ transfer[t].state = "NONE"
    BY <1>1 DEF InsertTransfer, ledgerVars
  <2>2. /\ Created.state = "RESERVED" /\ Created.message = NoMessage
        /\ Created.attempts = 0
    BY DEF Created, Absent
  <2>3. transfer'[t] = Created /\ \A u \in Transfer \ {t} : transfer'[u] = transfer[u]
    BY <2>1 DEF TypeOK
  <2>4. recorded[t] = {}
    <3>1. transfer[t].sequence = 0
      BY <2>1 DEF ShapeOf, Absent
    <3>2. {e.sequence : e \in recorded[t]} = 0 .. (0 - 1)
      BY <3>1 DEF EventsContiguous
    <3>3. ASSUME NEW e \in recorded[t] PROVE FALSE
      <4>1. e.sequence \in 0 .. (0 - 1)
        BY <3>2, <3>3
      <4> QED BY <4>1
    <3> QED BY <3>3
  <2>5. ~reserved[t] /\ receivable[t].state = "NONE"
    BY <2>1 DEF InStep, StillReserved, InState
  <2>6. InStep(t)' /\ ShapeOf(t)'
    BY <2>1, <2>2, <2>3, <2>4, <2>5
       DEF InStep, StillReserved, HoldsReceivable, InState, ShapeOf
  <2>7. \A u \in Transfer \ {t} : InStep(u)' /\ ShapeOf(u)'
    BY <1>0, <2>1, <2>3
  <2> QED
    BY <2>6, <2>7
<1>2. ASSUME NEW w \in Worker, AppendEvent(w)
      PROVE  LedgerFollowsLifecycle' /\ RowShape'
  <2>1. task[w] \in Transfer /\ observed[w] \in Event /\ AcceptedBy(task[w], observed[w])
    BY <1>2, AppendAccepts
  <2>2. PICK costs \in Costs : Accept(task[w], observed[w], costs)
    BY <1>2, AppendAccepts
  <2>3. recorded' = [recorded EXCEPT ![task[w]] = @ \cup {observed[w]}]
    BY <1>2 DEF AppendEvent
  <2>4. PICK t \in Transfer, e \in Event :
          /\ AcceptedBy(t, e) /\ Accept(t, e, costs)
          /\ recorded' = [recorded EXCEPT ![t] = @ \cup {e}]
    BY <2>1, <2>2, <2>3
  <2>5. /\ recorded'[t] = recorded[t] \cup {e}
        /\ \A u \in Transfer \ {t} : recorded'[u] = recorded[u]
    BY <2>4 DEF TypeOK
  <2>6. InStep(t)' /\ ShapeOf(t)'
    BY <2>4, <2>5, TypedData, AcceptInStep, AcceptShape
  <2>7. \A u \in Transfer \ {t} : InStep(u)' /\ ShapeOf(u)'
    BY <1>0, <2>4, <2>5 DEF AcceptedBy
  <2> QED
    BY <2>6, <2>7
<1>3. CASE UNCHANGED <<transfer, ledgerVars, recorded>>
  BY <1>0, <1>3 DEF ledgerVars
<1> QED
  BY <1>1, <1>2, <1>3, StepKinds

LEMMA MessagePreserved ==
  ASSUME TypeOK, RowShape, MessageOwnedOnce, [Next]_vars
  PROVE  MessageOwnedOnce'
<1>1. ASSUME NEW t \in Transfer, InsertTransfer(t)
      PROVE  \A u \in Transfer : transfer'[u].message = transfer[u].message
  <2>1. transfer' = [transfer EXCEPT ![t] = Created]
    BY <1>1 DEF InsertTransfer
  <2>2. transfer[t].message = NoMessage /\ Created.message = NoMessage
    BY <1>1 DEF InsertTransfer, RowShape, ShapeOf, Created, Absent
  <2> QED
    BY <2>1, <2>2 DEF TypeOK
<1>2. ASSUME NEW w \in Worker, AppendEvent(w)
      PROVE  MessageOwnedOnce'
  <2> DEFINE t == task[w]  e == observed[w]
  <2>1. t \in Transfer /\ e \in Event /\ AcceptedBy(t, e)
    BY <1>2, AppendAccepts
  <2>2. PICK costs \in Costs : Accept(t, e, costs)
    BY <1>2, AppendAccepts
  <2> HIDE DEF t, e
  <2>3. \/ transfer'[t].message = transfer[t].message
        \/ \A u \in Transfer \ {t} : transfer[u].message # transfer'[t].message
    BY <2>1, <2>2, TypedData, AcceptMessage DEF FreshMessage
  <2>4. \A u \in Transfer \ {t} : transfer'[u] = transfer[u]
    BY <2>1 DEF AcceptedBy
  <2> QED
    BY <2>1, <2>3, <2>4 DEF MessageOwnedOnce
<1>3. CASE UNCHANGED <<transfer, ledgerVars, recorded>>
  BY <1>3 DEF MessageOwnedOnce
<1> QED
  BY <1>1, <1>2, <1>3, StepKinds DEF MessageOwnedOnce

LEMMA FinalKept ==
  ASSUME TypeOK, [Next]_vars, NEW t \in Transfer, transfer[t].state \in Final
  PROVE  /\ transfer'[t].state = transfer[t].state
         /\ reserved'[t] = reserved[t]
         /\ receivable'[t] = receivable[t]
<1>1. ASSUME NEW u \in Transfer, InsertTransfer(u)
      PROVE  transfer'[t] = transfer[t] /\ UNCHANGED ledgerVars
  BY <1>1 DEF InsertTransfer, TypeOK, Final
<1>2. ASSUME NEW w \in Worker, AppendEvent(w)
      PROVE  /\ transfer'[t].state = transfer[t].state
             /\ reserved'[t] = reserved[t]
             /\ receivable'[t] = receivable[t]
  <2>1. /\ task[w] \in Transfer /\ observed[w] \in Event
        /\ AcceptedBy(task[w], observed[w])
    BY <1>2, AppendAccepts
  <2>2. PICK costs \in Costs : Accept(task[w], observed[w], costs)
    BY <1>2, AppendAccepts
  <2>3. CASE task[w] = t
    BY <2>1, <2>2, <2>3, TypedData, AcceptFinal
  <2>4. CASE task[w] # t
    BY <2>1, <2>4 DEF AcceptedBy
  <2> QED
    BY <2>3, <2>4
<1>3. CASE UNCHANGED <<transfer, ledgerVars, recorded>>
  BY <1>3 DEF ledgerVars
<1> QED
  BY <1>1, <1>2, <1>3, StepKinds DEF ledgerVars

(* No step but appendEvent completes a job. *)
LEMMA CompletedBy ==
  ASSUME TypeOK, [Next]_vars, NEW t \in Transfer, job'[t] = "COMPLETED"
  PROVE  \/ job[t] = "COMPLETED"
         \/ \E w \in Worker : AppendEvent(w) /\ task[w] = t
<1>1. ASSUME NEW u \in Transfer,
             \/ InsertTransfer(u) \/ InsertJob(u) \/ CreateInterrupted(u)
             \/ LeaseLapses(u) \/ \E w \in Worker : Claim(w, u)
      PROVE  job[t] = "COMPLETED"
  BY <1>1 DEF InsertTransfer, InsertJob, CreateInterrupted, LeaseLapses, Claim,
              queueVars, TypeOK
<1>2. ASSUME NEW w \in Worker,
             \/ Observe(w) \/ NothingObserved(w) \/ AppendDuplicate(w)
             \/ AppendRefused(w) \/ Retry(w) \/ Crash(w)
      PROVE  job[t] = "COMPLETED"
  BY <1>2 DEF Observe, NothingObserved, AppendDuplicate, AppendRefused, Retry,
              Crash, queueVars, TypeOK
<1>3. ASSUME NEW w \in Worker, AppendEvent(w), task[w] # t
      PROVE  job[t] = "COMPLETED"
  BY <1>3 DEF AppendEvent, TypeOK
<1>4. CASE UNCHANGED vars
  BY <1>4 DEF vars, queueVars
<1> QED
  BY <1>1, <1>2, <1>3, <1>4 DEF Next, WorkerStep

LEMMA CompletedPreserved ==
  ASSUME TypeOK, CompletedOnlyWhenFinal, [Next]_vars
  PROVE  CompletedOnlyWhenFinal'
<1> SUFFICES ASSUME NEW t \in Transfer, job'[t] = "COMPLETED"
             PROVE  transfer'[t].state \in Final
  BY DEF CompletedOnlyWhenFinal, Final
<1>1. CASE job[t] = "COMPLETED"
  BY <1>1, FinalKept DEF CompletedOnlyWhenFinal
<1>2. ASSUME NEW w \in Worker, AppendEvent(w), task[w] = t
      PROVE  transfer'[t].state \in Final
  <2>1. job'[t] = JobAfter(transfer'[t])
    BY <1>2 DEF AppendEvent, TypeOK
  <2> QED
    BY <2>1 DEF JobAfter
<1> QED
  BY <1>1, <1>2, CompletedBy

LEMMA EventsPreserved ==
  ASSUME TypeOK, EventsContiguous, RowShape, [Next]_vars
  PROVE  EventsContiguous'
<1>1. ASSUME NEW t \in Transfer, InsertTransfer(t)
      PROVE  EventsContiguous'
  <2>1. transfer' = [transfer EXCEPT ![t] = Created] /\ recorded' = recorded
    BY <1>1 DEF InsertTransfer
  <2>2. transfer[t].sequence = 0 /\ Created.sequence = 0
    BY <1>1 DEF InsertTransfer, RowShape, ShapeOf, Created, Absent
  <2>3. \A u \in Transfer : transfer'[u].sequence = transfer[u].sequence
    BY <2>1, <2>2 DEF TypeOK
  <2> QED
    BY <2>1, <2>3 DEF EventsContiguous
<1>2. ASSUME NEW w \in Worker, AppendEvent(w)
      PROVE  EventsContiguous'
  <2> DEFINE t == task[w]  e == observed[w]  n == transfer[t].sequence
  <2>1. t \in Transfer /\ e \in Event /\ AcceptedBy(t, e)
    BY <1>2, AppendAccepts
  <2>2. recorded' = [recorded EXCEPT ![t] = @ \cup {e}]
    BY <1>2 DEF AppendEvent
  <2> HIDE DEF t, e
  <2>3. /\ n \in Nat /\ e.sequence = n /\ transfer'[t].sequence = n + 1
        /\ \A u \in Transfer \ {t} : transfer'[u] = transfer[u]
    BY <2>1, TypedData, RowTyped DEF AcceptedBy
  <2>4. /\ recorded'[t] = recorded[t] \cup {e}
        /\ \A u \in Transfer \ {t} : recorded'[u] = recorded[u]
    BY <2>1, <2>2 DEF TypeOK
  <2>5. /\ \A f, g \in recorded[t] : f.sequence = g.sequence => f = g
        /\ {f.sequence : f \in recorded[t]} = 0..(n - 1)
    BY <2>1 DEF EventsContiguous
  <2> HIDE DEF n
  <2>6. \A f \in recorded[t] : f.sequence # n
    <3>1. n \notin 0..(n - 1)
      BY <2>3
    <3> QED
      BY <2>5, <3>1
  <2>7. \A f, g \in recorded'[t] : f.sequence = g.sequence => f = g
    BY <2>3, <2>4, <2>5, <2>6
  <2>8. {f.sequence : f \in recorded'[t]} = 0..((n + 1) - 1)
    <3>1. 0..((n + 1) - 1) = 0..(n - 1) \cup {n}
      BY <2>3
    <3>2. {f.sequence : f \in recorded'[t]} = {f.sequence : f \in recorded[t]} \cup {n}
      BY <2>3, <2>4
    <3> QED
      BY <2>5, <3>1, <3>2
  <2> QED
    BY <2>1, <2>3, <2>4, <2>7, <2>8 DEF EventsContiguous
<1>3. CASE UNCHANGED <<transfer, ledgerVars, recorded>>
  BY <1>3 DEF EventsContiguous
<1> QED
  BY <1>1, <1>2, <1>3, StepKinds

LEMMA InvariantPreserved ==
  IInv /\ [Next]_vars => IInv'
BY TypePreserved, FollowsPreserved, MessagePreserved, CompletedPreserved,
   EventsPreserved DEF IInv

(* The inductive invariant holds in every reachable state. *)
THEOREM Invariant == Spec => []IInv
BY InitInvariant, InvariantPreserved, PTL DEF Spec

-----------------------------------------------------------------------------
(* The safety properties the runs check *)

(* Type correctness.  Cash is a natural number: no receipt overdraws it,
   whichever costs it carries. *)
THEOREM TypesCorrect == Spec => []TypeOK
BY Invariant, PTL DEF IInv

(* applyTransferEvent and applyReceipt, which never read each other's state,
   agree on every transfer after every transaction. *)
THEOREM LedgerInStep == Spec => []LedgerFollowsLifecycle
BY Invariant, PTL DEF IInv

(* The UNIQUE message identity keeps one CCTP message from serving two
   transfers, also when the portfolio has forgotten the first. *)
THEOREM MessagesUnique == Spec => []MessageOwnedOnce
BY Invariant, PTL DEF IInv

(* The recorded events of a transfer are numbered without gap or repetition,
   however many workers report events for it. *)
THEOREM EventLogContiguous == Spec => []EventsContiguous
BY Invariant, PTL DEF IInv

(* appendEvent completes a job only with the lifecycle. *)
THEOREM CompletedIsFinal == Spec => []CompletedOnlyWhenFinal
BY Invariant, PTL DEF IInv

LEMMA FrozenKept ==
  ASSUME TypeOK, RowShape, [Next]_vars, NEW t \in Transfer
  PROVE  /\ transfer[t].message # NoMessage =>
              transfer'[t].message = transfer[t].message
         /\ transfer[t].deadline # "OPEN" =>
              transfer'[t].deadline = transfer[t].deadline
<1>1. ASSUME NEW u \in Transfer, InsertTransfer(u)
      PROVE  transfer'[t] = transfer[t] \/ transfer[t] = Absent
  BY <1>1 DEF InsertTransfer, TypeOK, RowShape, ShapeOf
<1>2. ASSUME NEW w \in Worker, AppendEvent(w)
      PROVE  /\ transfer[t].message # NoMessage =>
                  transfer'[t].message = transfer[t].message
             /\ transfer[t].deadline # "OPEN" =>
                  transfer'[t].deadline = transfer[t].deadline
  <2>1. PICK u \in Transfer, e \in Event, costs \in Costs :
               AcceptedBy(u, e) /\ Accept(u, e, costs)
    BY <1>2, AppendAccepts
  <2>2. CASE u = t
    BY <2>1, <2>2, TypedData, AcceptFrozen DEF RowShape
  <2>3. CASE u # t
    BY <2>1, <2>3 DEF AcceptedBy
  <2> QED
    BY <2>2, <2>3
<1>3. CASE UNCHANGED <<transfer, ledgerVars, recorded>>
  BY <1>3
<1> QED
  BY <1>1, <1>2, <1>3, StepKinds DEF Absent

(* What a transfer came to is never rewritten: whatever stale worker or
   revived job reaches it, the state and the capital of a final transfer stay,
   and so do a message identity once emitted and a deadline result once
   recorded. *)
THEOREM OutcomeIsFrozen == Spec => OutcomeFrozen
<1>1. IInv /\ [Next]_vars =>
        [\A t \in Transfer :
           /\ transfer[t].state \in Final =>
                /\ transfer'[t].state = transfer[t].state
                /\ reserved'[t] = reserved[t]
                /\ receivable'[t] = receivable[t]
           /\ transfer[t].message # NoMessage =>
                transfer'[t].message = transfer[t].message
           /\ transfer[t].deadline # "OPEN" =>
                transfer'[t].deadline = transfer[t].deadline]_vars
  BY FinalKept, FrozenKept DEF IInv
<1> QED
  BY <1>1, Invariant, PTL DEF Spec, OutcomeFrozen

-----------------------------------------------------------------------------
(* The sums of the portfolio.  A receipt moves units between one balance and
   what one transfer holds, and costs leave with the count of what was spent;
   the sums over the other balances and transfers do not move. *)

(* A step of transfer t that conserves the portfolio's units: what it adds to
   the debts it adds to the costs. *)
Balanced(t) ==
  SumFunction(cash)' + Held(t)' - owed' + spent'
    = SumFunction(cash) + Held(t) - owed + spent

LEMMA HoldingTyped ==
  ASSUME DataOK
  PROVE  Holding \in [Transfer -> Nat] /\ \A t \in Transfer : Holding[t] = Held(t)
BY LedgerTyped DEF Holding, Held

LEMMA CashSum ==
  ASSUME NEW money \in [Family -> Nat]
  PROVE  money \in [Family -> Int] /\ SumFunction(money) \in Int
<1>1. money \in [Family -> Int]
  OBVIOUS
<1> QED
  BY <1>1, SumType

(* Crediting or debiting one balance. *)
LEMMA MovedSum ==
  ASSUME NEW money \in [Family -> Nat], NEW f \in Family, NEW n \in Nat,
         NEW other \in [Family -> Nat], other[f] = n,
         \A g \in Family \ {f} : other[g] = money[g]
  PROVE  SumFunction(other) = SumFunction(money) - money[f] + n
<1>1. IsFiniteSet(Family) /\ money \in [Family -> Int] /\ other \in [Family -> Int]
  OBVIOUS
<1>2. SumFunction(other) = SumFunction(money) - money[f] + other[f]
  BY <1>1, SumChange
<1> QED
  BY <1>2

(* What a receipt's costs take from cash and do not owe, they recognize. *)
LEMMA CostsSum ==
  ASSUME DataOK, NEW money \in [Family -> Nat], NEW costs \in Costs, NEW gap \in Nat,
         ApplyCosts(money, costs, gap)
  PROVE  SumFunction(cash') - owed' + spent' = SumFunction(money) - owed + spent + gap
<1>1. cash' \in [Family -> Nat] /\ cash' \in [Family -> Int] /\ SumFunction(cash') \in Int
  BY ApplyCostsTyped, CashSum
<1>2. \A f \in Family : money[f] = cash'[f] + costs.paid[f]
  BY CostsTyped DEF ApplyCosts
<1>3. SumFunction(money) = SumFunction(cash') + SumFunction(costs.paid)
  BY <1>1, <1>2, CashSum, CostsTyped, SumPlus
<1>4. /\ owed' = owed + costs.payable
      /\ spent' = spent + (SumFunction(costs.paid) + costs.payable + gap)
  BY DEF ApplyCosts, Indebted, Recognized
<1>5. /\ owed \in Nat /\ spent \in Nat
      /\ costs.payable \in Nat /\ SumFunction(costs.paid) \in Nat
  BY CostsTyped DEF DataOK
<1> QED
  BY <1>1, <1>3, <1>4, <1>5

LEMMA LedgerSums ==
  ASSUME DataOK, DataOK'
  PROVE  /\ SumFunction(cash) \in Int /\ SumFunction(cash') \in Int
         /\ owed \in Nat /\ spent \in Nat /\ owed' \in Nat /\ spent' \in Nat
BY CashSum DEF DataOK

LEMMA UpdateBalanced ==
  ASSUME DataOK, DataOK', NEW t \in Transfer, NEW costs \in Costs,
         NEW row \in Receivable, Update(t, row, costs),
         row.state # "NONE", ~InState(t, {"NONE"})
  PROVE  Balanced(t)
<1>1. SumFunction(cash') - owed' + spent' = SumFunction(cash) - owed + spent + 0
  BY CostsSum DEF Update, DataOK
<1>2. receivable'[t] = row /\ reserved' = reserved
  BY DEF Update, DataOK
<1>3. Held(t)' = Held(t) /\ Held(t) \in Nat
  BY <1>2, LedgerTyped DEF Held, InState
<1> QED
  BY <1>1, <1>3, LedgerSums DEF Balanced

LEMMA ReserveBalanced ==
  ASSUME DataOK, DataOK', NEW t \in Transfer, ReserveCash(t)
  PROVE  Balanced(t)
<1>1. /\ Source[t] \in Family /\ Amount[t] \in Nat /\ cash \in [Family -> Nat]
      /\ cash[Source[t]] \in Nat /\ cash[Source[t]] - Amount[t] \in Nat
  BY LedgerTyped DEF ReserveCash, Available, DataOK
<1>2. /\ cash' \in [Family -> Nat]
      /\ cash'[Source[t]] = cash[Source[t]] - Amount[t]
      /\ \A g \in Family \ {Source[t]} : cash'[g] = cash[g]
  BY <1>1 DEF ReserveCash
<1>3. SumFunction(cash')
        = SumFunction(cash) - cash[Source[t]] + (cash[Source[t]] - Amount[t])
  BY <1>1, <1>2, MovedSum
<1>4. Held(t)' = Held(t) + Amount[t] /\ Held(t) \in Nat /\ spent' = spent /\ owed' = owed
  BY LedgerTyped DEF ReserveCash, Held, InState, DataOK
<1> QED
  BY <1>1, <1>3, <1>4, LedgerSums DEF Balanced

LEMMA SourceFailedBalanced ==
  ASSUME DataOK, DataOK', NEW t \in Transfer, NEW costs \in Costs,
         SourceFailed(t, costs)
  PROVE  Balanced(t)
<1> DEFINE withheld == costs.withheld
           money == [cash EXCEPT ![Source[t]] = @ + (Amount[t] - withheld)]
           left == cash[Source[t]] + (Amount[t] - withheld)
<1>1. /\ Source[t] \in Family /\ Amount[t] \in Nat /\ cash \in [Family -> Nat]
      /\ cash[Source[t]] \in Nat /\ withheld \in Nat
      /\ left \in Nat
  BY LedgerTyped, CostsTyped DEF SourceFailed, DataOK
<1>2. /\ money \in [Family -> Nat]
      /\ money[Source[t]] = left
      /\ \A g \in Family \ {Source[t]} : money[g] = cash[g]
  BY <1>1
<1>3. ApplyCosts(money, costs, withheld)
  BY DEF SourceFailed
<1>4. Held(t)' = Held(t) - Amount[t] /\ Held(t) \in Nat
  BY LedgerTyped DEF SourceFailed, Held, InState, DataOK
<1> HIDE DEF money, left, withheld
<1>5. SumFunction(money) = SumFunction(cash) - cash[Source[t]] + left
  <2>1. /\ money \in [Family -> Int] /\ cash \in [Family -> Int]
        /\ IsFiniteSet(Family)
    BY <1>1, <1>2
  <2>2. SumFunction(money) = SumFunction(cash) - cash[Source[t]] + money[Source[t]]
    BY <1>1, <1>2, <2>1, SumChange
  <2> QED BY <1>2, <2>2
<1>6. SumFunction(cash') - owed' + spent' = SumFunction(money) - owed + spent + withheld
  BY <1>1, <1>2, <1>3, CostsSum
<1> QED
  BY <1>1, <1>4, <1>5, <1>6, LedgerSums DEF Balanced, left

LEMMA BurnedBalanced ==
  ASSUME DataOK, DataOK', NEW t \in Transfer, NEW costs \in Costs, NEW m \in Message,
         Burned(t, m, costs)
  PROVE  Balanced(t)
<1>1. Net[t] \in Nat /\ Amount[t] \in Nat /\ Amount[t] - Net[t] \in Nat
  BY LedgerTyped DEF Burned
<1>2. SumFunction(cash') - owed' + spent'
        = SumFunction(cash) - owed + spent + (Amount[t] - Net[t])
  BY <1>1, CostsSum DEF Burned, DataOK
<1>3. /\ receivable'[t].state = "IN_TRANSIT" /\ reserved[t] /\ ~reserved'[t]
      /\ receivable[t].state = "NONE"
  BY DEF Burned, DropReservation, InState, DataOK
<1>4. Held(t)' = Net[t] /\ Held(t) = Amount[t]
  BY <1>1, <1>3 DEF Held, InState
<1> QED
  BY <1>1, <1>2, <1>4, LedgerSums DEF Balanced

LEMMA SettledBalanced ==
  ASSUME DataOK, DataOK', NEW t \in Transfer, NEW costs \in Costs, Settled(t, costs)
  PROVE  Balanced(t)
<1> DEFINE money == [cash EXCEPT ![Dest[t]] = @ + Net[t]]
<1>1. /\ Dest[t] \in Family /\ Net[t] \in Nat /\ cash \in [Family -> Nat]
      /\ cash[Dest[t]] \in Nat /\ cash[Dest[t]] + Net[t] \in Nat
  BY LedgerTyped DEF DataOK
<1>2. /\ money \in [Family -> Nat] /\ money[Dest[t]] = cash[Dest[t]] + Net[t]
      /\ \A g \in Family \ {Dest[t]} : money[g] = cash[g]
  BY <1>1
<1>3. ApplyCosts(money, costs, 0)
  BY DEF Settled
<1> HIDE DEF money
<1>4. SumFunction(money) = SumFunction(cash) - cash[Dest[t]] + (cash[Dest[t]] + Net[t])
  BY <1>1, <1>2, MovedSum
<1>5. SumFunction(cash') - owed' + spent' = SumFunction(money) - owed + spent + 0
  BY <1>2, <1>3, CostsSum
<1>6. /\ receivable[t].state = "READY_TO_RECEIVE" /\ receivable'[t].state = "NONE"
      /\ reserved' = reserved
  BY DEF Settled, InState, NoReceivable, DataOK
<1>7. Held(t)' = Held(t) - Net[t] /\ Held(t) \in Nat
  BY <1>6, LedgerTyped DEF Held, InState
<1> QED
  BY <1>1, <1>4, <1>5, <1>7, LedgerSums DEF Balanced

LEMMA AcceptBalanced ==
  ASSUME DataOK, DataOK', NEW t \in Transfer, NEW e \in Event, NEW costs \in Costs,
         Accept(t, e, costs)
  PROVE  Balanced(t)
<1>1. CASE ReserveCash(t)
  BY <1>1, ReserveBalanced
<1>2. CASE SourceFailed(t, costs)
  BY <1>2, SourceFailedBalanced
<1>3. CASE RecordBurn(t, e) /\ Burned(t, e.message, costs)
  BY <1>3, BurnRow, BurnedBalanced
<1>4. CASE Ready(t, costs)
  <2> DEFINE row == [receivable[t] EXCEPT !.state = "READY_TO_RECEIVE"]
  <2>1. row \in Receivable /\ row.state # "NONE"
    BY LedgerTyped DEF Receivable
  <2>2. Update(t, row, costs) /\ ~InState(t, {"NONE"})
    BY <1>4 DEF Ready, InState
  <2> HIDE DEF row
  <2> QED BY <2>1, <2>2, UpdateBalanced
<1>5. CASE Delayed(t, costs)
  <2> DEFINE row == [receivable[t] EXCEPT !.state = "DELAYED"]
  <2>1. row \in Receivable /\ row.state # "NONE"
    BY LedgerTyped DEF Receivable
  <2>2. Update(t, row, costs) /\ ~InState(t, {"NONE"})
    BY <1>5 DEF Delayed, InState
  <2> HIDE DEF row
  <2> QED BY <2>1, <2>2, UpdateBalanced
<1>6. CASE DestinationRetry(t, costs)
  <2> DEFINE row == [receivable[t] EXCEPT !.state = "DESTINATION_RETRY", !.tries = @ + 1]
  <2>1. row \in Receivable /\ row.state # "NONE"
    <3>1. receivable[t].tries + 1 \in 0..PortfolioAttempts
      BY <1>6, LedgerTyped DEF DestinationRetry, TriesLeft
    <3> QED BY <3>1, LedgerTyped DEF Receivable
  <2>2. Update(t, row, costs) /\ ~InState(t, {"NONE"})
    BY <1>6 DEF DestinationRetry, InState
  <2> HIDE DEF row
  <2> QED BY <2>1, <2>2, UpdateBalanced
<1>7. CASE Settled(t, costs)
  BY <1>7, SettledBalanced
<1>8. CASE UNCHANGED ledgerVars
  BY <1>8 DEF Balanced, Held, InState, ledgerVars
<1> QED
  BY <1>1, <1>2, <1>3, <1>4, <1>5, <1>6, <1>7, <1>8 DEF Accept

Value == SumFunction(cash) + SumFunction(Holding) - owed + spent

(* One transfer's units move the sum of all of them by as much. *)
LEMMA BalancedValue ==
  ASSUME DataOK, DataOK', NEW t \in Transfer, Balanced(t),
         \A u \in Transfer \ {t} : reserved'[u] = reserved[u] /\ receivable'[u] = receivable[u]
  PROVE  Value' = Value
<1>1. Holding \in [Transfer -> Nat] /\ \A u \in Transfer : Holding[u] = Held(u)
  BY HoldingTyped
<1>2. Holding' \in [Transfer -> Nat] /\ \A u \in Transfer : Holding'[u] = Held(u)'
  BY LedgerTyped DEF Holding, Held, InState, DataOK, Receivable
<1>3. \A u \in Transfer \ {t} : Holding'[u] = Holding[u]
  BY <1>1, <1>2 DEF Held, InState
<1>4. Holding \in [Transfer -> Int] /\ Holding' \in [Transfer -> Int]
  BY <1>1, <1>2
<1>5. SumFunction(Holding') = SumFunction(Holding) - Holding[t] + Holding'[t]
  BY <1>3, <1>4, SumChange
<1>6. SumFunction(Holding) \in Int /\ Holding[t] \in Int /\ Holding'[t] \in Int
  BY <1>4, SumType
<1> QED
  BY <1>1, <1>2, <1>5, <1>6, LedgerSums DEF Value, Balanced

LEMMA ValueKept ==
  ASSUME TypeOK, [Next]_vars
  PROVE  Value' = Value
<1>1. CASE \E t \in Transfer : InsertTransfer(t)
  BY <1>1 DEF InsertTransfer, ledgerVars, Value, Holding, Held, InState
<1>2. ASSUME NEW w \in Worker, AppendEvent(w) PROVE Value' = Value
  <2>1. /\ task[w] \in Transfer /\ DataOK /\ AcceptedBy(task[w], observed[w])
        /\ Balanced(task[w])
    BY <1>2, AppendAccepts, TypedData, AcceptBalanced DEF AcceptedBy
  <2> QED
    BY <2>1, BalancedValue DEF AcceptedBy
<1>3. CASE UNCHANGED <<transfer, ledgerVars, recorded>>
  BY <1>3 DEF ledgerVars, Value, Holding, Held, InState
<1> QED
  BY <1>1, <1>2, <1>3, StepKinds

LEMMA InitValue == Init => ValueConserved
<1> SUFFICES ASSUME Init PROVE ValueConserved
  OBVIOUS
<1>1. cash = Opening /\ owed = 0 /\ spent = 0 /\ \A t \in Transfer : Held(t) = 0
  BY DEF Init, LedgerInit, Held, InState, NoReceivable
<1>2. [t \in Transfer |-> Held(t)] \in [Transfer -> Int]
  BY <1>1
<1>3. SumFunction([t \in Transfer |-> Held(t)]) = 0
  <2> DEFINE f == [t \in Transfer |-> Held(t)]
  <2>1. f \in [Transfer -> Int] /\ \A t \in Transfer : f[t] = 0
    BY <1>1
  <2> HIDE DEF f
  <2>2. SumFunction(f) = 0
    BY <2>1, SumZero
  <2> QED BY <2>2 DEF f
<1>4. SumFunction(Opening) \in Int
  BY CashSum
<1> QED
  BY <1>1, <1>3, <1>4 DEF ValueConserved, Holding

(* ADR 0006, whatever the transfers, the costs and the order of events: what
   leaves a balance is held by a transfer, arrives, or is a recognized cost,
   and a cost that takes nothing yet is owed. *)
THEOREM ValueIsConserved == Spec => []ValueConserved
<1>1. IInv /\ ValueConserved /\ [Next]_vars => ValueConserved'
  <2> SUFFICES ASSUME IInv, ValueConserved, [Next]_vars PROVE ValueConserved'
    OBVIOUS
  <2>1. Value' = Value
    BY ValueKept DEF IInv
  <2>2. DataOK /\ DataOK'
    BY TypePreserved, TypedData DEF IInv, TypeOK, DataOK
  <2>3. SumFunction(Holding) \in Int /\ SumFunction(Holding') \in Int
    <3>1. Holding \in [Transfer -> Int] /\ Holding' \in [Transfer -> Int]
      BY <2>2, LedgerTyped DEF Holding, Held, InState, DataOK, Receivable
    <3> QED BY <3>1, SumType
  <2>4. SumFunction(Opening) \in Int
    BY CashSum
  <2> QED
    BY <2>1, <2>2, <2>3, <2>4, LedgerSums DEF ValueConserved, Value
<1> QED
  BY <1>1, InitValue, Invariant, PTL DEF Spec

-----------------------------------------------------------------------------
(* The queue implements CapitalTransfer *)

LEMMA Places ==
  ASSUME NEW t \in Transfer
  PROVE  /\ reserved[t] => PlaceOf(t) = "RESERVATION"
         /\ ~reserved[t] /\ receivable[t].state # "NONE" => PlaceOf(t) = "RECEIVABLE"
         /\ ~reserved[t] /\ receivable[t].state = "NONE" =>
              PlaceOf(t) = IF transfer[t].state = "SETTLED" THEN "CREDITED"
                           ELSE IF transfer[t].state = "SOURCE_FAILED" THEN "RELEASED"
                           ELSE "CASH"
BY DEF PlaceOf, HoldsNothing, InState

LEMMA PlacesNext ==
  ASSUME NEW t \in Transfer
  PROVE  /\ reserved'[t] => PlaceOf(t)' = "RESERVATION"
         /\ ~reserved'[t] /\ receivable'[t].state # "NONE" =>
              PlaceOf(t)' = "RECEIVABLE"
         /\ ~reserved'[t] /\ receivable'[t].state = "NONE" =>
              PlaceOf(t)' = IF transfer'[t].state = "SETTLED" THEN "CREDITED"
                            ELSE IF transfer'[t].state = "SOURCE_FAILED" THEN "RELEASED"
                            ELSE "CASH"
BY DEF PlaceOf, HoldsNothing, InState

place == [t \in Transfer |-> PlaceOf(t)]

(* The step takes t from one place to another; the other units stay. *)
Moves(t, from, to) ==
  /\ place[t] = from
  /\ place' = [place EXCEPT ![t] = to]

LEMMA PlaceMoves ==
  ASSUME NEW t \in Transfer, NEW e \in Event, AcceptedBy(t, e),
         NEW from, NEW to, PlaceOf(t) = from, PlaceOf(t)' = to
  PROVE  Moves(t, from, to)
<1>1. \A u \in Transfer \ {t} : PlaceOf(u)' = PlaceOf(u)
  BY Places, PlacesNext DEF AcceptedBy
<1>2. place' = [u \in Transfer |-> PlaceOf(u)']
  BY DEF place
<1> QED
  BY <1>1, <1>2 DEF Moves, place

(* A solvent portfolio that conserves value has not spent more than it had. *)
LEMMA CostsBounded ==
  ASSUME DataOK', ValueConserved', Solvent'
  PROVE  spent' <= SumFunction(Opening)
<1>1. Holding' \in [Transfer -> Int]
  BY LedgerTyped DEF Holding, Held, InState, DataOK, Receivable
<1>2. SumFunction(Holding') \in Int
  BY <1>1, SumType
<1>3. SumFunction(cash') \in Int /\ SumFunction(Opening) \in Int
  BY CashSum DEF DataOK
<1>4. owed' \in Nat /\ spent' \in Nat
  BY DEF DataOK
<1> QED
  BY <1>2, <1>3, <1>4 DEF ValueConserved, Solvent

LEMMA Booked ==
  ASSUME DataOK, NEW money \in [Family -> Nat], NEW costs \in Costs, NEW gap \in Nat,
         ApplyCosts(money, costs, gap), spent' <= SumFunction(Opening)
  PROVE  Promise!Book(money, costs, gap)
<1>1. spent' = spent + SumFunction(costs.paid) + costs.payable + gap
  BY CostsTyped DEF ApplyCosts, Recognized, DataOK
<1>2. /\ Promise!SumFunction(costs.paid) = SumFunction(costs.paid)
      /\ Promise!SumFunction(Opening) = SumFunction(Opening)
  BY DEF SumFunction, SumFunctionOnSet, FoldFunctionOnSet, MapThenFoldSet,
         Promise!SumFunction, Promise!SumFunctionOnSet, Promise!FoldFunctionOnSet,
         Promise!MapThenFoldSet
<1> QED
  BY <1>1, <1>2 DEF ApplyCosts, Indebted, Promise!Book

(* Each receipt, in a state of the invariant, is one step of the promise. *)
LEMMA AcceptRefines ==
  ASSUME DataOK, ValueConserved', NEW t \in Transfer, NEW e \in Event,
         NEW costs \in Costs, costs \in Charges, Accept(t, e, costs),
         ShapeOf(t), InStep(t)
  PROVE  [Promise!Next]_Promise!vars
<1> USE DEF InStep, StillReserved, HoldsReceivable, InState
<1>0. AcceptedBy(t, e) /\ (Solvent' => spent' <= SumFunction(Opening))
  BY AcceptFrames, CostsBounded DEF AcceptedBy
<1>1. CASE RecordReserved(t, e) /\ ReserveCash(t)
  <2>1. Moves(t, "CASH", "RESERVATION")
    <3>1. transfer[t].state = "RESERVED" /\ ~reserved[t] /\ receivable[t].state = "NONE"
      BY <1>1, ReservedRow DEF ReserveCash
    <3>2. reserved'[t]
      BY <1>1, ReserveLedger DEF LedgerIs
    <3> QED
      BY <1>0, <3>1, <3>2, Places, PlacesNext, PlaceMoves
  <2>2. Promise!Reserve(t)
    BY <1>1, <2>1 DEF ReserveCash, Available, Promise!Reserve, Promise!Move, Moves, place
  <2> QED
    BY <2>2 DEF Promise!Next
<1>2. CASE RecordSourceFailed(t, e) /\ SourceFailed(t, costs)
  <2>1. Moves(t, "RESERVATION", "RELEASED")
    <3>1. transfer[t].state = "RESERVED" /\ reserved[t] /\ receivable[t].state = "NONE"
      BY <1>2, SourceFailedRow DEF SourceFailed
    <3>2. ~reserved'[t] /\ receivable'[t].state = "NONE"
      BY <1>2, <3>1, SourceFailedLedger DEF LedgerIs
    <3>3. transfer'[t].state = "SOURCE_FAILED"
      BY <1>2, SourceFailedRow DEF RowIs
    <3> QED
      BY <1>0, <3>1, <3>2, <3>3, Places, PlacesNext, PlaceMoves
  <2>2. costs.withheld <= Amount[t]
    BY <1>2 DEF SourceFailed
  <2>3. Promise!Book([cash EXCEPT ![Source[t]] = @ + (Amount[t] - costs.withheld)],
                     costs, costs.withheld)
    <3> DEFINE money == [cash EXCEPT ![Source[t]] = @ + (Amount[t] - costs.withheld)]
    <3>1. money \in [Family -> Nat]
      BY <2>2, LedgerTyped, CostsTyped DEF DataOK
    <3>2. ApplyCosts(money, costs, costs.withheld) /\ Solvent'
      BY <1>2 DEF SourceFailed
    <3> HIDE DEF money
    <3>3. Promise!Book(money, costs, costs.withheld)
      BY <1>0, <3>1, <3>2, Booked, CostsTyped
    <3> QED BY <3>3 DEF money
  <2>4. Promise!Release(t, costs)
    BY <2>1, <2>2, <2>3 DEF Promise!Release, Promise!Move, Moves, place
  <2> QED
    BY <2>4 DEF Promise!Next
<1>3. CASE RecordBurn(t, e) /\ FreshMessage(t, e.message)
            /\ Burned(t, e.message, costs)
  <2>1. Moves(t, "RESERVATION", "RECEIVABLE")
    <3>1. reserved[t] /\ e.message \in Message
      BY <1>3, BurnRow DEF Burned
    <3>2. ~reserved'[t] /\ receivable'[t].state = "IN_TRANSIT"
      BY <1>3, <3>1, BurnedLedger DEF LedgerIs
    <3> QED
      BY <1>0, <3>1, <3>2, Places, PlacesNext, PlaceMoves
  <2>2. Net[t] <= Amount[t] /\ ApplyCosts(cash, costs, Amount[t] - Net[t]) /\ Solvent'
    BY <1>3 DEF Burned
  <2>3. Amount[t] - Net[t] \in Nat /\ cash \in [Family -> Nat]
    BY <2>2, LedgerTyped DEF DataOK
  <2>4. Promise!Book(cash, costs, Amount[t] - Net[t])
    BY <1>0, <2>2, <2>3, Booked
  <2>5. Promise!Depart(t, costs)
    BY <2>1, <2>2, <2>4 DEF Promise!Depart, Promise!Move, Moves, place
  <2> QED
    BY <2>5 DEF Promise!Next
<1>4. ASSUME transfer[t].state \in
               {"ATTESTATION_PENDING", "READY_TO_RECEIVE", "DESTINATION_RETRY"},
             NEW row \in Receivable, row.state # "NONE", Update(t, row, costs)
      PROVE  [Promise!Next]_Promise!vars
  <2>1. Moves(t, "RECEIVABLE", "RECEIVABLE")
    <3>1. ~reserved[t] /\ receivable[t].state # "NONE"
      BY <1>4
    <3>2. ~reserved'[t] /\ receivable'[t].state # "NONE"
      BY <1>4, <3>1, UpdateLedger DEF LedgerIs
    <3> QED
      BY <1>0, <3>1, <3>2, Places, PlacesNext, PlaceMoves
  <2>2. place' = place
    BY <2>1 DEF Moves, place
  <2>3. Promise!Book(cash, costs, 0)
    BY <1>0, <1>4, Booked DEF Update, DataOK
  <2>4. Promise!Attempt(t, costs)
    BY <2>1, <2>2, <2>3 DEF Promise!Attempt, Moves, place
  <2> QED
    BY <2>4 DEF Promise!Next
<1>5. CASE RecordAttested(t, e) /\ Ready(t, costs)
  <2> DEFINE row == [receivable[t] EXCEPT !.state = "READY_TO_RECEIVE"]
  <2>1. row \in Receivable /\ row.state # "NONE"
    BY LedgerTyped DEF Receivable
  <2>2. Update(t, row, costs)
    BY <1>5 DEF Ready
  <2> HIDE DEF row
  <2> QED
    BY <1>4, <1>5, <2>1, <2>2, AttestedRow
<1>6. CASE RecordDelay(t, e) /\ Delayed(t, costs)
  <2> DEFINE row == [receivable[t] EXCEPT !.state = "DELAYED"]
  <2>1. row \in Receivable /\ row.state # "NONE"
    BY LedgerTyped DEF Receivable
  <2>2. Update(t, row, costs)
    BY <1>6 DEF Delayed
  <2> HIDE DEF row
  <2> QED
    BY <1>4, <1>6, <2>1, <2>2, DelayRow
<1>7. CASE RecordDestinationFailed(t, e) /\ DestinationRetry(t, costs)
  <2> DEFINE row == [receivable[t] EXCEPT !.state = "DESTINATION_RETRY", !.tries = @ + 1]
  <2>0. receivable[t].tries + 1 \in 0..PortfolioAttempts
    BY <1>7, LedgerTyped DEF DestinationRetry, TriesLeft
  <2>1. row \in Receivable /\ row.state # "NONE"
    BY <2>0, LedgerTyped DEF Receivable
  <2>2. Update(t, row, costs)
    BY <1>7 DEF DestinationRetry
  <2> HIDE DEF row
  <2> QED
    BY <1>4, <1>7, <2>1, <2>2, DestinationFailedRow
<1>8. CASE RecordSettled(t, e) /\ Settled(t, costs)
  <2>1. Moves(t, "RECEIVABLE", "CREDITED")
    <3>1. ~reserved[t] /\ receivable[t].state # "NONE"
      BY <1>8, SettledRow
    <3>2. ~reserved'[t] /\ receivable'[t].state = "NONE"
      BY <1>8, <3>1, SettledLedger DEF LedgerIs
    <3>3. transfer'[t].state = "SETTLED"
      BY <1>8, SettledRow DEF RowIs
    <3> QED
      BY <1>0, <3>1, <3>2, <3>3, Places, PlacesNext, PlaceMoves
  <2>2. Promise!Book([cash EXCEPT ![Dest[t]] = @ + Net[t]], costs, 0)
    <3> DEFINE money == [cash EXCEPT ![Dest[t]] = @ + Net[t]]
    <3>1. money \in [Family -> Nat]
      BY LedgerTyped DEF DataOK
    <3>2. ApplyCosts(money, costs, 0) /\ Solvent'
      BY <1>8 DEF Settled
    <3> HIDE DEF money
    <3>3. Promise!Book(money, costs, 0)
      BY <1>0, <3>1, <3>2, Booked
    <3> QED BY <3>3 DEF money
  <2>3. Promise!Arrive(t, costs)
    BY <2>1, <2>2 DEF Promise!Arrive, Promise!Move, Moves, place
  <2> QED
    BY <2>3 DEF Promise!Next
<1>9. ASSUME reserved'[t] = reserved[t], receivable'[t] = receivable[t],
             PlaceOf(t)' = PlaceOf(t), UNCHANGED ledgerVars
      PROVE  [Promise!Next]_Promise!vars
  <2>1. Moves(t, PlaceOf(t), PlaceOf(t))
    BY <1>0, <1>9, PlaceMoves
  <2>2. place' = place
    BY <2>1 DEF Moves, place
  <2> QED
    BY <1>9, <2>2 DEF Promise!vars, ledgerVars, place
<1>10. CASE RecordInvalidated(t, e) /\ UNCHANGED ledgerVars
  <2>1. /\ transfer[t].state \in State \ {"SOURCE_FAILED", "SETTLED"}
        /\ transfer'[t].state = "INVALIDATED"
    BY <1>10, InvalidatedRow DEF RowIs
  <2>2. reserved'[t] = reserved[t] /\ receivable'[t] = receivable[t]
    BY <1>10 DEF ledgerVars
  <2>3. PlaceOf(t)' = PlaceOf(t)
    BY <2>1, <2>2, Places, PlacesNext
  <2> QED
    BY <1>9, <1>10, <2>2, <2>3
<1>11. CASE RecordClosure(t, e) /\ UNCHANGED ledgerVars
  <2>1. transfer'[t].state = transfer[t].state
    BY <1>11, ClosureRow DEF RowIs
  <2>2. reserved'[t] = reserved[t] /\ receivable'[t] = receivable[t]
    BY <1>11 DEF ledgerVars
  <2>3. PlaceOf(t)' = PlaceOf(t)
    BY <2>1, <2>2, Places, PlacesNext
  <2> QED
    BY <1>9, <1>11, <2>2, <2>3
<1> QED
  BY <1>1, <1>2, <1>3, <1>5, <1>6, <1>7, <1>8, <1>10, <1>11 DEF Accept

LEMMA PromiseInit == Init => Promise!Init
<1> SUFFICES ASSUME Init PROVE Promise!Init
  OBVIOUS
<1>1. \A t \in Transfer :
        /\ ~reserved[t] /\ receivable[t].state = "NONE"
        /\ transfer[t].state = "NONE"
  BY DEF Init, LedgerInit, NoReceivable, Absent
<1>2. \A t \in Transfer : PlaceOf(t) = "CASH"
  BY <1>1, Places
<1> QED
  BY <1>2 DEF Promise!Init, Init, LedgerInit

LEMMA PromiseStep ==
  IInv /\ ValueConserved' /\ [Next]_vars => [Promise!Next]_Promise!vars
<1> SUFFICES ASSUME IInv, ValueConserved', [Next]_vars
             PROVE  [Promise!Next]_Promise!vars
  OBVIOUS
<1>0. TypeOK /\ RowShape /\ LedgerFollowsLifecycle
  BY DEF IInv
<1>1. ASSUME NEW t \in Transfer, InsertTransfer(t)
      PROVE  UNCHANGED Promise!vars
  <2>1. /\ \A u \in Transfer : reserved'[u] = reserved[u] /\ receivable'[u] = receivable[u]
        /\ \A u \in Transfer : transfer'[u] = transfer[u] \/ u = t
        /\ transfer[t].state = "NONE" /\ transfer'[t].state = "RESERVED"
        /\ UNCHANGED ledgerVars
    BY <1>0, <1>1 DEF InsertTransfer, ledgerVars, TypeOK, Created, Absent
  <2>2. \A u \in Transfer : PlaceOf(u)' = PlaceOf(u)
    BY <2>1, Places, PlacesNext
  <2> QED
    BY <2>1, <2>2 DEF Promise!vars, ledgerVars
<1>2. ASSUME NEW w \in Worker, AppendEvent(w)
      PROVE  [Promise!Next]_Promise!vars
  <2>1. PICK t \in Transfer, e \in Event, costs \in Costs :
               costs \in Charges /\ Accept(t, e, costs)
    BY <1>0, <1>2, AppendAccepts
  <2> QED
    BY <1>0, <2>1, TypedData, AcceptRefines DEF RowShape, LedgerFollowsLifecycle
<1>3. CASE UNCHANGED <<transfer, ledgerVars, recorded>>
  <2>1. \A u \in Transfer : PlaceOf(u)' = PlaceOf(u)
    BY <1>3, Places, PlacesNext DEF ledgerVars
  <2> QED
    BY <1>3, <2>1 DEF Promise!vars, ledgerVars
<1> QED
  BY <1>1, <1>2, <1>3, StepKinds

(* Lifecycle, portfolio, queue and workers together only ever make the moves
   CapitalTransfer allows: no unit is credited twice, spendable in transit, or
   taken from a reservation without becoming a receivable, and the costs, those
   owed included, never exceed the capital. *)
THEOREM ImplementsCapitalTransfer == Spec => PromiseSpec
BY Invariant, ValueIsConserved, PromiseInit, PromiseStep, PTL
   DEF Spec, PromiseSpec, Promise!Spec

=============================================================================
