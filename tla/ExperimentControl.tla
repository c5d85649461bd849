-------------------------- MODULE ExperimentControl --------------------------
(***************************************************************************)
(* The calls on an experiment around the execution of its actions, as      *)
(* transactions of ExperimentRepository and OperationsRepository:          *)
(* registration, start, acceptance, receipts, completion, checkpoints,     *)
(* reference entries, corrections, audit records, stop and revocation.     *)
(* A call takes a connection of the pool, acquires the locks of its        *)
(* statements one by one and holds them to the end, reads committed rows   *)
(* (READ COMMITTED), and makes all its writes visible when it commits.     *)
(* A transaction that is rolled back may be made again.                    *)
(***************************************************************************)
EXTENDS Integers, Sequences, FiniteSets, SequencesExt

CONSTANTS
    Experiments, Scenarios,
    Agent, Version, Profile,  \* what each experiment is created for
    Calls,                    \* records: id, kind, experiment, scenario, ...
    Workloads,                \* sets of calls that are made together
    PoolSize,                 \* connections of createPool
    MaxActiveAgents,          \* quota of the operations policy
    MaxAccepted               \* daily accepted intents per scenario

Statements == {"REGISTER", "CREATE", "REVOKE"}
Kinds == Statements \cup {"START", "ACCEPT", "APPLY", "COMPLETE", "CHECKPOINT",
                          "ENTRY", "CORRECT", "STOP", "AUDIT"}

ASSUME CallsAssumption ==
    \A c \in Calls : /\ c.kind \in Kinds
                     /\ c.experiment \in Experiments /\ c.scenario \in Scenarios
                     /\ c.kind = "ENTRY" => c.outcome \in {"ACTIVE", "ENTRY_FAILED"}
ASSUME ScenariosAssumption == IsFiniteSet(Scenarios)
ASSUME WorkloadsAssumption == Workloads \subseteq SUBSET Calls
ASSUME ControlBoundsAssumption == {PoolSize, MaxActiveAgents, MaxAccepted} \subseteq Nat

Versions == {Version[e] : e \in Experiments}

VARIABLES
    pc,          \* [Calls -> phase]
    held,        \* [Calls -> number of its locks it holds]
    memo,        \* [Calls -> what it read and still uses]
    version,     \* [Versions -> absent, active, revoked]
    state,       \* [Experiments -> ABSENT, DRAFT, STARTED, CLOSED]
    portfolio,   \* [Experiments -> [Scenarios -> effects in the portfolio]]
    active,      \* [Experiments -> [Scenarios -> key of the pending action]]
    reference,   \* [Experiments -> [Scenarios -> effects and status]]
    actions,     \* accepted envelopes
    receipts,    \* applied receipts, by experiment, scenario and action
    checkpoints, \* saved checkpoints and the effects each one values
    journal      \* [Experiments -> economic_journal]

txVars == <<pc, held, memo>>
registry == <<version, state>>
money == <<portfolio, receipts>>
rowVars == <<registry, money, active, reference, actions, checkpoints, journal>>
vars == <<txVars, rowVars>>

None == "none"
NoMemo == [portfolio |-> {}, reference |-> [effects |-> {}, status |-> "ACTIVE"],
           head |-> 0, stamp |-> FALSE]

\* A portfolio's version counts the receipts applied to it.
VersionOf(effects) == Cardinality(effects)

\* What a call of the workload creates is absent at first.
Creates(made, kind, e) == \E c \in made : c.kind = kind /\ c.experiment = e

Init ==
    /\ \E made \in Workloads :
        /\ pc = [c \in Calls |-> IF c \in made THEN "idle" ELSE "unmade"]
        /\ state = [e \in Experiments |->
                IF Creates(made, "CREATE", e) THEN "ABSENT" ELSE "DRAFT"]
        /\ version = [v \in Versions |->
                IF \E e \in Experiments : Version[e] = v /\ Creates(made, "REGISTER", e)
                THEN "absent" ELSE "active"]
    /\ held = [c \in Calls |-> 0]
    /\ memo = [c \in Calls |-> NoMemo]
    /\ portfolio = [e \in Experiments |-> [s \in Scenarios |-> {}]]
    /\ active = [e \in Experiments |-> [s \in Scenarios |-> None]]
    /\ reference = [e \in Experiments |-> [s \in Scenarios |-> NoMemo.reference]]
    /\ actions = {} /\ receipts = {} /\ checkpoints = {}
    /\ journal = [e \in Experiments |-> << >>]

-----------------------------------------------------------------------------
(* Locks.  KEY SHARE is what a foreign key takes on the row it refers to;  *)
(* advisory locks are exclusive.                                           *)

Lock(mode, row) == [mode |-> mode, row |-> row]
Rows(mode, rows) == [i \in DOMAIN rows |-> Lock(mode, rows[i])]
Row(c, table) == <<table, c.experiment, c.scenario>>
ExperimentRow(c) == <<"experiment", c.experiment>>
ActionRow(c) == <<"action", c.experiment, c.key>>
ScenarioRows(c) ==
    LET order == SetToSeq(Scenarios)
    IN  [i \in DOMAIN order |-> <<"scenario", c.experiment, order[i]>>]

Conflicting(m, n) == m = "UPDATE" \/ n = "UPDATE"

\* A bug that lets starts share the advisory lock of the quota.
SharedQuotaMutant(c) ==
    <<Lock("UPDATE", ExperimentRow(c)), Lock("SHARE", <<"quota">>)>>

\* The locks of each call, in the order of its statements.
StartLocks(c) ==
    <<Lock("UPDATE", ExperimentRow(c)), Lock("UPDATE", <<"quota">>)>>

\* A bug that lets acceptances of a scenario share the advisory lock.
SharedIntakeMutant(c) ==
    <<Lock("SHARE", Row(c, "intake")), Lock("SHARE", ExperimentRow(c)),
      Lock("UPDATE", Row(c, "scenario"))>>

\* A bug that accepts with the scenario locked before the experiment.
ScenarioFirstMutant(c) ==
    <<Lock("UPDATE", Row(c, "intake")), Lock("UPDATE", Row(c, "scenario")),
      Lock("SHARE", ExperimentRow(c))>>

AcceptLocks(c) ==
    <<Lock("UPDATE", Row(c, "intake")), Lock("SHARE", ExperimentRow(c)),
      Lock("UPDATE", Row(c, "scenario"))>>

ApplyLocks(c) == <<Lock("UPDATE", ActionRow(c)), Lock("UPDATE", Row(c, "scenario"))>>

\* One join locks three rows; the incident of a failed action is audited.
CompleteLocks(c) ==
    <<Lock("UPDATE", ActionRow(c)), Lock("UPDATE", ExperimentRow(c)),
      Lock("UPDATE", Row(c, "scenario")), Lock("UPDATE", <<"audit", c.experiment>>)>>

CheckpointLocks(c) ==
    <<Lock("UPDATE", Row(c, "scenario")), Lock("UPDATE", Row(c, "reference")),
      Lock("KEY SHARE", ExperimentRow(c))>>

EntryLocks(c) == <<Lock("UPDATE", Row(c, "reference"))>>

CorrectLocks(c) == <<Lock("KEY SHARE", ExperimentRow(c))>>

StopLocks(c) ==
    LET rows == ScenarioRows(c)
    IN  <<Lock("UPDATE", ExperimentRow(c))>>
        \o [i \in DOMAIN rows |-> Lock("UPDATE", rows[i])]
        \o <<Lock("UPDATE", <<"audit", c.experiment>>)>>

AuditLocks(c) ==
    <<Lock("UPDATE", <<"audit", c.experiment>>), Lock("KEY SHARE", ExperimentRow(c))>>

Needs(c) ==
    CASE c.kind = "START" -> StartLocks(c)
      [] c.kind = "ACCEPT" -> AcceptLocks(c)
      [] c.kind = "APPLY" -> ApplyLocks(c)
      [] c.kind = "COMPLETE" -> CompleteLocks(c)
      [] c.kind = "CHECKPOINT" -> CheckpointLocks(c)
      [] c.kind = "ENTRY" -> EntryLocks(c)
      [] c.kind = "CORRECT" -> CorrectLocks(c)
      [] c.kind = "STOP" -> StopLocks(c)
      [] c.kind = "AUDIT" -> AuditLocks(c)
      [] OTHER -> << >>

Over == {"unmade", "idle", "done", "stored", "refused"}
InFlight(c) == pc[c] \notin Over

\* Every call in flight holds a connection.  A correction that reads the
\* policy through the pool needs a second one for as long as that read takes.
Connections == Cardinality({c \in Calls : InFlight(c)})

NextLock(c) == Needs(c)[held[c] + 1]
LocksOf(c) == {Needs(c)[i] : i \in 1 .. held[c]}

WaitsFor(c, d) ==
    /\ pc[c] = "locking" /\ c # d
    /\ \E l \in LocksOf(d) : l.row = NextLock(c).row /\ Conflicting(l.mode, NextLock(c).mode)

\* The last journal row that a call read stays locked until the call ends.
WaitsForHead(c) ==
    /\ pc[c] = "head"
    /\ \E d \in Calls : /\ pc[d] = "journaled" /\ d.experiment = c.experiment
                        /\ memo[d].head = memo[c].head

WaitsForConnection(c) == pc[c] = "policy" /\ Connections >= PoolSize

Blocked(c) == WaitsForHead(c) \/ WaitsForConnection(c) \/ \E d \in Calls : WaitsFor(c, d)

Goto(c, phase) == pc' = [pc EXCEPT ![c] = phase]

\* The transaction is over: its connection and its locks are released.
Finish(c, phase) ==
    /\ Goto(c, phase)
    /\ held' = [held EXCEPT ![c] = 0]
    /\ memo' = [memo EXCEPT ![c] = NoMemo]

-----------------------------------------------------------------------------
(* Calls of one statement.                                                 *)

\* The primary key refuses a second registration.
Register(c) ==
    /\ c.kind = "REGISTER"
    /\ IF version[Version[c.experiment]] = "absent"
       THEN /\ version' = [version EXCEPT ![Version[c.experiment]] = "active"]
            /\ Finish(c, "done")
       ELSE Finish(c, "refused") /\ UNCHANGED version
    /\ UNCHANGED state

\* The version must be there: a foreign key.
Create(c) ==
    /\ c.kind = "CREATE"
    /\ IF state[c.experiment] = "ABSENT" /\ version[Version[c.experiment]] # "absent"
       THEN state' = [state EXCEPT ![c.experiment] = "DRAFT"] /\ Finish(c, "done")
       ELSE Finish(c, "refused") /\ UNCHANGED state
    /\ UNCHANGED version

Revoke(c) ==
    /\ c.kind = "REVOKE"
    /\ IF version[Version[c.experiment]] # "absent"
       THEN /\ version' = [version EXCEPT ![Version[c.experiment]] = "revoked"]
            /\ Finish(c, "done")
       ELSE Finish(c, "refused") /\ UNCHANGED version
    /\ UNCHANGED state

Statement(c) ==
    /\ pc[c] = "idle" /\ Connections < PoolSize
    /\ Register(c) \/ Create(c) \/ Revoke(c)
    /\ UNCHANGED <<money, active, reference, actions, checkpoints, journal>>

-----------------------------------------------------------------------------
(* A transaction begins.  Before it, a checkpoint is valued, and a receipt *)
(* planned, from portfolios read on their own; a checkpoint first looks    *)
(* for itself, without a lock.                                             *)

\* A bug that begins without waiting for a connection of the pool.
UnpooledMutant(c) ==
    /\ pc[c] = "idle" /\ c.kind \notin Statements
    /\ Goto(c, IF c.kind = "CHECKPOINT" THEN "lookup" ELSE "locking")
    /\ UNCHANGED <<held, memo, rowVars>>

Begin(c) ==
    /\ pc[c] = "idle" /\ c.kind \notin Statements /\ Connections < PoolSize
    /\ Goto(c, IF c.kind = "CHECKPOINT" THEN "lookup" ELSE "locking")
    /\ memo' = [memo EXCEPT ![c] =
            [portfolio |-> portfolio[c.experiment][c.scenario],
             reference |-> reference[c.experiment][c.scenario],
             head |-> 0, stamp |-> FALSE]]
    /\ UNCHANGED <<held, rowVars>>

Lookup(c) ==
    /\ pc[c] = "lookup"
    /\ IF \E k \in checkpoints : k.id = c.id THEN Finish(c, "stored")
       ELSE Goto(c, "locking") /\ UNCHANGED <<held, memo>>
    /\ UNCHANGED rowVars

-----------------------------------------------------------------------------
(* What a call decides when it has taken a lock: it finds what it was made *)
(* for stored already, or goes on, or is refused.  "n" counts the locks it *)
(* had before that one.                                                    *)

Started == {e \in Experiments : state[e] = "STARTED"}

\* One active experiment for an agent and a profile, MaxActiveAgents agents.
QuotaAllows(e) ==
    /\ ~ \E d \in Started : Agent[d] = Agent[e] /\ Profile[d] = Profile[e]
    /\ \/ \E d \in Started : Agent[d] = Agent[e]
       \/ Cardinality({Agent[d] : d \in Started}) < MaxActiveAgents

StartAllows(c, n) ==
    /\ n = 0 => state[c.experiment] = "DRAFT" /\ version[Version[c.experiment]] = "active"
    /\ n = 1 => QuotaAllows(c.experiment)

Envelope(c) == [key |-> c.key, experiment |-> c.experiment,
                scenario |-> c.scenario, expected |-> c.expected]

SameKey(c) == {a \in actions : a.envelope.key = c.key
                            /\ a.envelope.experiment = c.experiment}

AcceptFinds(c, n) == n = 1 /\ \E a \in SameKey(c) : a.envelope = Envelope(c)

AcceptAllows(c, n) ==
    /\ n = 1 => SameKey(c) = {} /\ state[c.experiment] = "STARTED"
    /\ n = 2 =>
        /\ VersionOf(portfolio[c.experiment][c.scenario]) = c.expected
        /\ active[c.experiment][c.scenario] = None
        /\ Cardinality({a \in actions : /\ a.envelope.experiment = c.experiment
                                        /\ a.envelope.scenario = c.scenario})
             < MaxAccepted

\* A bug that does not compare versions.
AlwaysFreshMutant(c) == TRUE

\* The portfolio a checkpoint or a receipt was computed from is still current.
Fresh(c) ==
    VersionOf(portfolio[c.experiment][c.scenario]) = VersionOf(memo[c].portfolio)

ReceiptOf(c) == <<c.experiment, c.scenario, c.key>>

ApplyFinds(c, n) == n = 1 /\ ReceiptOf(c) \in receipts

\* No receipt for an action that is over.
ApplyAllows(c, n) ==
    /\ SameKey(c) # {}
    /\ n = 1 => active[c.experiment][c.scenario] = c.key /\ Fresh(c)

CompleteFinds(c, n) ==
    n = 2 /\ SameKey(c) # {} /\ active[c.experiment][c.scenario] # c.key

FreshReference(c) ==
    LET r == reference[c.experiment][c.scenario]
    IN  /\ VersionOf(r.effects) = VersionOf(memo[c].reference.effects)
        /\ r.status = memo[c].reference.status

CheckpointAllows(c, n) ==
    /\ n = 0 => state[c.experiment] \in {"STARTED", "CLOSED"} /\ Fresh(c)
    /\ n = 1 => FreshReference(c)

EntryDone(c) ==
    LET r == reference[c.experiment][c.scenario]
    IN  r.status = "ENTRY_FAILED" \/ r.effects # {}

\* A completed entry is returned to a call with its outcome, refused to others.
EntryFinds(c, n) == EntryDone(c) /\ reference[c.experiment][c.scenario].status = c.outcome

EntryAllows(c, n) == state[c.experiment] \in {"STARTED", "CLOSED"} /\ ~EntryDone(c)

StopFinds(c, n) == n = 0 /\ state[c.experiment] = "CLOSED"

StopAllows(c, n) ==
    /\ n = 0 => state[c.experiment] = "STARTED"
    /\ n = Cardinality(Scenarios) => \A s \in Scenarios : active[c.experiment][s] = None

Finds(c, n) ==
    CASE c.kind = "ACCEPT" -> AcceptFinds(c, n)
      [] c.kind = "APPLY" -> ApplyFinds(c, n)
      [] c.kind = "COMPLETE" -> CompleteFinds(c, n)
      [] c.kind = "ENTRY" -> EntryFinds(c, n)
      [] c.kind = "STOP" -> StopFinds(c, n)
      [] OTHER -> FALSE

Allows(c, n) ==
    CASE c.kind = "START" -> StartAllows(c, n)
      [] c.kind = "ACCEPT" -> AcceptAllows(c, n)
      [] c.kind = "APPLY" -> ApplyAllows(c, n)
      [] c.kind = "COMPLETE" -> SameKey(c) # {}
      [] c.kind = "CHECKPOINT" -> CheckpointAllows(c, n)
      [] c.kind = "ENTRY" -> EntryAllows(c, n)
      [] c.kind = "STOP" -> StopAllows(c, n)
      [] OTHER -> state[c.experiment] # "ABSENT"

\* An acceptance reads the clock under its second lock, the revocation later.
PhaseAfter(c, n) ==
    IF c.kind = "ACCEPT" /\ n = 1 THEN "dated"
    ELSE IF n + 1 < Len(Needs(c)) THEN "locking"
    ELSE CASE c.kind \in {"APPLY", "ENTRY", "STOP", "AUDIT"} -> "commit"
           [] c.kind = "CORRECT" -> "policy"
           [] OTHER -> "append"

KeyRevoked(c) == version[Version[c.experiment]] = "revoked"

Acquire(c) ==
    LET n == held[c]
    IN  /\ pc[c] = "locking" /\ ~Blocked(c)
        /\ \/ Finds(c, n) /\ Finish(c, "stored")
           \/ ~Finds(c, n) /\ ~Allows(c, n) /\ Finish(c, "refused")
           \/ /\ ~Finds(c, n) /\ Allows(c, n)
              /\ Goto(c, PhaseAfter(c, n))
              /\ held' = [held EXCEPT ![c] = @ + 1]
              /\ memo' = IF PhaseAfter(c, n) = "dated"
                         THEN [memo EXCEPT ![c].stamp = KeyRevoked(c)] ELSE memo
        /\ UNCHANGED rowVars

\* A bug that leaves out the check of the revocation.
UncheckedMutant(c) ==
    /\ pc[c] = "dated"
    /\ Goto(c, "locking") /\ UNCHANGED <<held, memo>>
    /\ UNCHANGED rowVars

CheckRevoked(c) ==
    /\ pc[c] = "dated"
    /\ IF KeyRevoked(c) THEN Finish(c, "refused")
       ELSE Goto(c, "locking") /\ UNCHANGED <<held, memo>>
    /\ UNCHANGED rowVars

\* createCorrection reads the policy through the pool, not on its own client.
ReadPolicy(c) ==
    /\ pc[c] = "policy" /\ ~Blocked(c)
    /\ IF state[c.experiment] = "DRAFT" THEN Finish(c, "refused")
       ELSE Goto(c, "append") /\ UNCHANGED <<held, memo>>
    /\ UNCHANGED rowVars

-----------------------------------------------------------------------------
(* appendEvent: read the last row FOR UPDATE, insert its successor.  A     *)
(* call that waited for the row still has the row it read.                 *)

ReadHead(c) ==
    /\ pc[c] = "append"
    /\ Goto(c, "head")
    /\ memo' = [memo EXCEPT ![c].head = Len(journal[c.experiment])]
    /\ UNCHANGED <<held, rowVars>>

\* A bug: no primary key on the place of an event.
NeverTakenMutant(c) == FALSE

\* The primary key (experiment, sequence).
PlaceTaken(c) == Len(journal[c.experiment]) # memo[c].head

InsertEvent(c) ==
    /\ pc[c] = "head" /\ ~Blocked(c)
    /\ IF PlaceTaken(c) THEN Finish(c, "idle")
       ELSE Goto(c, "journaled") /\ UNCHANGED <<held, memo>>
    /\ UNCHANGED rowVars

-----------------------------------------------------------------------------
(* What each call writes.                                                  *)

Set(rows, c, value) == [rows EXCEPT ![c.experiment][c.scenario] = value]

Start(c) ==
    /\ c.kind = "START"
    /\ state' = [state EXCEPT ![c.experiment] = "STARTED"]
    /\ UNCHANGED <<version, money, active, reference, actions, checkpoints>>

Accept(c) ==
    /\ c.kind = "ACCEPT"
    /\ actions' = actions \cup {[envelope |-> Envelope(c), stamp |-> memo[c].stamp]}
    /\ active' = Set(active, c, c.key)
    /\ UNCHANGED <<registry, money, reference, checkpoints>>

Apply(c) ==
    /\ c.kind = "APPLY"
    /\ receipts' = receipts \cup {ReceiptOf(c)}
    /\ portfolio' = Set(portfolio, c, memo[c].portfolio \cup {<<"receipt", c.key>>})
    /\ UNCHANGED <<registry, active, reference, actions, checkpoints>>

Complete(c) ==
    /\ c.kind = "COMPLETE"
    /\ active' = Set(active, c, None)
    /\ UNCHANGED <<registry, money, reference, actions, checkpoints>>

\* A deposit opens a position; a position accrues at a checkpoint.
HasPosition(effects) == \E x \in effects : x[1] \in {"receipt", "deposit"}

Accrual(c, effects) == IF HasPosition(effects) THEN {<<"accrual", c.id>>} ELSE {}

Checkpoint(c) ==
    /\ c.kind = "CHECKPOINT"
    /\ checkpoints' = checkpoints \cup
            {[id |-> c.id, experiment |-> c.experiment, scenario |-> c.scenario,
              valued |-> memo[c].portfolio, compared |-> memo[c].reference.effects]}
    /\ portfolio' = Set(portfolio, c,
            memo[c].portfolio \cup Accrual(c, memo[c].portfolio))
    /\ reference' = Set(reference, c, [memo[c].reference EXCEPT
            !.effects = @ \cup Accrual(c, @)])
    /\ UNCHANGED <<registry, receipts, active, actions>>

\* An entry is an approval and a deposit, or a failure after the approval.
EntryReceipts(c) ==
    {<<"approval", c.id>>,
     <<IF c.outcome = "ACTIVE" THEN "deposit" ELSE "cost", c.id>>}

Enter(c) ==
    /\ c.kind = "ENTRY"
    /\ reference' = Set(reference, c, [effects |-> EntryReceipts(c), status |-> c.outcome])
    /\ UNCHANGED <<registry, money, active, actions, checkpoints>>

Stop(c) ==
    /\ c.kind = "STOP"
    /\ state' = [state EXCEPT ![c.experiment] = "CLOSED"]
    /\ UNCHANGED <<version, money, active, reference, actions, checkpoints>>

\* Corrections and audit records have no row another call here reads.
Record(c) ==
    /\ c.kind \in {"CORRECT", "AUDIT"}
    /\ UNCHANGED <<registry, money, active, reference, actions, checkpoints>>

EventOf(c) == [sequence |-> memo[c].head + 1, call |-> c]

\* Unique columns: the key of an action, the identities of checkpoints and of
\* corrections.  audit_events and incidents are appended once in any case.
Clashes(c) ==
    \/ c.kind = "ACCEPT" /\ SameKey(c) # {}
    \/ c.kind = "CHECKPOINT" /\ \E k \in checkpoints : k.id = c.id
    \/ c.kind = "CORRECT" /\ \E i \in DOMAIN journal[c.experiment] :
                                journal[c.experiment][i].call.id = c.id

Commit(c) ==
    /\ pc[c] \in {"commit", "journaled"} /\ ~Clashes(c)
    /\ Finish(c, "done")
    /\ Start(c) \/ Accept(c) \/ Apply(c) \/ Complete(c) \/ Checkpoint(c)
         \/ Enter(c) \/ Stop(c) \/ Record(c)
    /\ journal' = IF pc[c] = "commit" THEN journal
                  ELSE [journal EXCEPT ![c.experiment] = Append(@, EventOf(c))]

\* A unique key exists, the statement or the connection timed out, the database
\* chose the transaction as the victim of a deadlock, or the process died.
RollBack(c) ==
    /\ InFlight(c)
    /\ Finish(c, "idle")
    /\ UNCHANGED rowVars

Proceed(c) ==
    \/ Lookup(c) \/ Acquire(c) \/ CheckRevoked(c) \/ ReadPolicy(c)
    \/ ReadHead(c) \/ InsertEvent(c) \/ Commit(c)

Next == \E c \in Calls : Statement(c) \/ Begin(c) \/ Proceed(c) \/ RollBack(c)

Spec == Init /\ [][Next]_vars

-----------------------------------------------------------------------------
Phases == Over \cup {"lookup", "locking", "dated", "policy", "append", "head",
                     "journaled", "commit"}

\* The rows have the shape of their tables, a call holds at most the locks it
\* needs, and no more calls are in flight than the pool has connections.
TypeOK ==
    /\ pc \in [Calls -> Phases]
    /\ held \in [Calls -> Nat] /\ \A c \in Calls : held[c] <= Len(Needs(c))
    /\ Connections <= PoolSize
    /\ version \in [Versions -> {"absent", "active", "revoked"}]
    /\ state \in [Experiments -> {"ABSENT", "DRAFT", "STARTED", "CLOSED"}]
    /\ \A e \in Experiments, s \in Scenarios :
        reference[e][s].status \in {"ACTIVE", "ENTRY_FAILED"}

\* economic_journal: the events of an experiment are numbered without a gap or
\* a repetition, the first one its start, and every transaction that journals
\* has its event exactly when it has committed, whichever ones raced for the
\* last row.
Journaled(c) == c.kind \in {"START", "ACCEPT", "COMPLETE", "CHECKPOINT", "CORRECT"}

JournalIsSequence ==
    \A e \in Experiments :
        /\ \A i \in DOMAIN journal[e] : journal[e][i].sequence = i
        /\ journal[e] # << >> => journal[e][1].call.kind = "START"
        /\ \A c \in Calls : c.experiment = e /\ Journaled(c) =>
            (Cardinality({i \in DOMAIN journal[e] : journal[e][i].call = c})
                = IF pc[c] = "done" THEN 1 ELSE 0)

\* startExperiment: however many starts run at once, an agent has at most one
\* active experiment on a profile, and at most MaxActiveAgents agents have one.
QuotasHold ==
    /\ Cardinality({Agent[e] : e \in Started}) <= MaxActiveAgents
    /\ \A d, e \in Started : Agent[d] = Agent[e] /\ Profile[d] = Profile[e] => d = e

\* acceptAction and revokeAgentVersion: the receivedAt that an accepted action
\* shows is never after a revocation of its version that was already in force.
AcceptedBeforeRevoked == \A a \in actions : ~a.stamp

\* Every receipt that was applied is in the portfolio of its scenario, and a
\* checkpoint replaces portfolios it has valued, never what came in between.
NothingLost ==
    \A e \in Experiments, s \in Scenarios :
        /\ \A r \in receipts : <<r[1], r[2]>> = <<e, s>> => <<"receipt", r[3]>> \in portfolio[e][s]
        /\ \A k \in checkpoints : k.experiment = e /\ k.scenario = s =>
            k.valued \subseteq portfolio[e][s] /\ k.compared \subseteq reference[e][s].effects
        /\ Cardinality({x \in reference[e][s].effects : x[1] = "approval"}) <= 1
        /\ \A c \in Calls : c.kind = "ENTRY" /\ pc[c] = "done" /\ c.experiment = e
                /\ c.scenario = s => EntryReceipts(c) \subseteq reference[e][s].effects

\* A call delivered twice, even at the same time, is never refused once one of
\* the two has had its effect: the loser returns what the winner stored.
Effective(c) ==
    CASE c.kind = "ACCEPT" -> \E a \in actions : a.envelope = Envelope(c)
      [] c.kind = "APPLY" -> ReceiptOf(c) \in receipts
      [] c.kind = "STOP" -> state[c.experiment] = "CLOSED"
      [] c.kind = "ENTRY" -> EntryFinds(c, 0)
      [] OTHER -> FALSE

RepeatsAreStored ==
    [][\A c \in Calls : pc[c] # "refused" /\ pc'[c] = "refused" => ~Effective(c)]_vars

\* All calls in flight wait for each other only in three ways, which the
\* timeouts end: a correction waits for a second connection when the pool has
\* none; a checkpoint, or an audit record, waits for the experiment row of a
\* stop or a completion that waits for its scenario, or for its audit lock.
ExperimentFirst == {c \in Calls : c.kind \in {"STOP", "COMPLETE"}}
ExperimentLast == {c \in Calls : c.kind \in {"CHECKPOINT", "AUDIT"}}

OnlyKnownStalls ==
    LET inFlight == {c \in Calls : InFlight(c)}
    IN  inFlight # {} /\ (\A c \in inFlight : Blocked(c)) =>
            \/ \E c \in inFlight : WaitsForConnection(c)
            \/ \E c \in ExperimentLast, d \in ExperimentFirst : WaitsFor(c, d) /\ WaitsFor(d, c)
=============================================================================
