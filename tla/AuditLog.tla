------------------------------ MODULE AuditLog ------------------------------
(***************************************************************************)
(* The database side of the audit trail: M6Repository of packages/storage  *)
(* and recordIncident.  Each call is one transaction of three steps - the  *)
(* row it inserts under an advisory lock on its own identity, the audit    *)
(* event it appends under the advisory lock of the experiment, the commit  *)
(* that makes both visible and releases both locks.  Uncommitted rows are  *)
(* invisible to every other call (READ COMMITTED).                         *)
(***************************************************************************)
EXTENDS MerkleCommitment, SequencesExt

CONSTANTS
    Experiments,   \* experiments that have started
    Scenarios,     \* capital scenarios of an experiment
    Calls,         \* saveEligibility, recordIncident, appendAuditObject calls
    BatchRequests, \* createBatch calls: experiment, id and last sequence
    NoParent       \* an object that supersedes or resolves nothing

\* A call's object stands for its content hash: equal objects, equal content.
CallsAssumption ==
    \A c \in Calls :
        /\ c.kind \in {"EVALUATION", "INCIDENT", "OBJECT"}
        /\ c.experiment \in Experiments /\ c.scenario \in Scenarios
        /\ c.parent # c.object /\ c.object # NoParent
        /\ \A d \in Calls : d.object = c.object =>
                /\ d.kind = c.kind /\ d.experiment = c.experiment
                /\ d.scenario = c.scenario /\ d.parent = c.parent

ASSUME CallsAreContentAddressed == CallsAssumption
ASSUME RequestsAssumption == \A r \in BatchRequests : r.last \in Nat

VARIABLES
    pc,         \* [Calls -> phase of the call's transaction]
    draft,      \* [Calls -> the audit event the transaction inserted]
    insertion,  \* calls in the order of created_at of the rows they inserted
    rows,       \* committed eligibility_evaluations and operation_incidents
    audit,      \* committed audit_events of each experiment, by sequence
    batches     \* committed commitment_batches with their commitment_proofs

logVars == <<pc, draft, insertion, rows, audit, batches>>

NoEvent == << >>

\* Only some of the calls are ever made.
LogInit(made) ==
    /\ pc = [c \in Calls |-> IF c \in made THEN "idle" ELSE "unmade"]
    /\ draft = [c \in Calls |-> NoEvent]
    /\ insertion = << >>
    /\ rows = {}
    /\ audit = [e \in Experiments |-> << >>]
    /\ batches = [e \in Experiments |-> << >>]

-----------------------------------------------------------------------------
(* Locks, held from the statement that takes them to the end of the        *)
(* transaction.                                                            *)

IdentityLocked(object) ==
    \E c \in Calls : c.object = object /\ pc[c] \in {"inserted", "chained"}

ChainLocked(experiment) ==
    \E c \in Calls : c.experiment = experiment /\ pc[c] = "chained"

Goto(c, phase) == pc' = [pc EXCEPT ![c] = phase]

\* The object named by a correction or a recovery is a committed row of the
\* same experiment, for an evaluation of the same scenario too.
AnyParentMutant(c) == TRUE

ParentFits(c) ==
    c.parent # NoParent =>
        \E r \in rows :
            /\ r.object = c.parent /\ r.kind = c.kind
            /\ r.experiment = c.experiment
            /\ c.kind = "EVALUATION" => r.scenario = c.scenario

Audited(c) == \E i \in DOMAIN audit[c.experiment] :
                    audit[c.experiment][i].object = c.object

\* A duplicate returns what is stored: saveEligibility and recordIncident find
\* the row, appendAuditObject the event.  An evaluation or incident whose row is
\* new has no event yet, both being written by one transaction.
Stored(c) == IF c.kind = "OBJECT" THEN ~ChainLocked(c.experiment) /\ Audited(c)
             ELSE ~IdentityLocked(c.object) /\ \E r \in rows : r.object = c.object

ReturnStored(c) ==
    /\ pc[c] = "idle" /\ Stored(c)
    /\ Goto(c, "done")
    /\ UNCHANGED <<draft, insertion, rows, audit, batches>>

RefuseParent(c) ==
    /\ pc[c] = "idle" /\ c.kind # "OBJECT" /\ ~IdentityLocked(c.object)
    /\ ~ \E r \in rows : r.object = c.object
    /\ ~ParentFits(c)
    /\ Goto(c, "refused")
    /\ UNCHANGED <<draft, insertion, rows, audit, batches>>

InsertRow(c) ==
    /\ pc[c] = "idle" /\ c.kind # "OBJECT" /\ ~IdentityLocked(c.object)
    /\ ~ \E r \in rows : r.object = c.object
    /\ ParentFits(c)
    /\ Goto(c, "inserted")
    /\ insertion' = Append(insertion, c)
    /\ UNCHANGED <<draft, rows, audit, batches>>

\* appendAuditObjectWith, up to the insert of the event it built.
ReadyToAppend(c) == pc[c] = IF c.kind = "OBJECT" THEN "idle" ELSE "inserted"

AppendEvent(c) ==
    /\ ReadyToAppend(c) /\ ~ChainLocked(c.experiment) /\ ~Audited(c)
    /\ Goto(c, "chained")
    /\ draft' = [draft EXCEPT ![c] =
            CreateAuditEvent(c.experiment, c.object, c.parent, audit[c.experiment])]
    /\ UNCHANGED <<insertion, rows, audit, batches>>

\* The primary key (experiment, sequence) refuses a second event in a place.
PlaceTaken(c) == draft[c].sequence # Len(audit[c.experiment]) + 1

RowOf(c) == [object |-> c.object, kind |-> c.kind, experiment |-> c.experiment,
             scenario |-> c.scenario, parent |-> c.parent]

\* A bug that leaves the row behind.
KeptMutant(c) == insertion

Unwound(c) == RemoveFirst(insertion, c)

CommitCall(c) ==
    /\ pc[c] = "chained"
    /\ Goto(c, IF PlaceTaken(c) THEN "conflict" ELSE "done")
    /\ audit' = IF PlaceTaken(c) THEN audit
                ELSE [audit EXCEPT ![c.experiment] = Append(@, draft[c])]
    /\ rows' = IF PlaceTaken(c) \/ c.kind = "OBJECT" THEN rows
               ELSE rows \cup {RowOf(c)}
    /\ insertion' = IF PlaceTaken(c) THEN Unwound(c) ELSE insertion
    /\ draft' = [draft EXCEPT ![c] = NoEvent]
    /\ UNCHANGED batches

\* The process dies or loses its connection; the caller may call again.
AbortCall(c) ==
    /\ pc[c] \in {"inserted", "chained"}
    /\ Goto(c, "idle")
    /\ draft' = [draft EXCEPT ![c] = NoEvent]
    /\ insertion' = Unwound(c)
    /\ UNCHANGED <<rows, audit, batches>>

-----------------------------------------------------------------------------
(* createBatch, one transaction under the batch lock of its experiment.    *)
(* It reads the events once, so it is one action.                          *)

LastBatched(experiment) ==
    IF batches[experiment] = << >> THEN 0
    ELSE batches[experiment][Len(batches[experiment])].batch.last

BatchHead(experiment) ==
    IF batches[experiment] = << >> THEN NoHash
    ELSE BatchHash(batches[experiment][Len(batches[experiment])].batch)

BatchIdUsed(id) ==
    \E e \in Experiments : \E i \in DOMAIN batches[e] : batches[e][i].batch.id = id

\* A bug that starts the next batch at the last event of the previous one.
OverlappingMutant(experiment) == IF LastBatched(experiment) = 0 THEN 1
                                 ELSE LastBatched(experiment)

NextFirst(experiment) == LastBatched(experiment) + 1

CreateBatch(r) ==
    LET events == SubSeq(audit[r.experiment], NextFirst(r.experiment), r.last)
    IN  /\ ~BatchIdUsed(r.id)
        /\ NextFirst(r.experiment) <= r.last
        /\ r.last <= Len(audit[r.experiment])
        /\ Batchable(r.experiment, events)
        /\ batches' = [batches EXCEPT ![r.experiment] =
                Append(@, BuildBatch(r.experiment, r.id, events,
                                     BatchHead(r.experiment)))]
        /\ UNCHANGED <<pc, draft, insertion, rows, audit>>

\* A batch id that exists returns the batch rebuilt from the events of its own
\* range, whatever range the call asks for, if the hash still agrees.
Rebuilt(experiment, stored) ==
    BuildBatch(experiment, stored.batch.id,
               SubSeq(audit[experiment], stored.batch.first, stored.batch.last),
               stored.batch.previous)

LogNext ==
    \/ \E c \in Calls :
        \/ ReturnStored(c) \/ RefuseParent(c) \/ InsertRow(c)
        \/ AppendEvent(c) \/ CommitCall(c) \/ AbortCall(c)
    \/ \E r \in BatchRequests : CreateBatch(r)

-----------------------------------------------------------------------------
(* dashboard: per scenario the evaluation with the greatest created_at.    *)

EvaluationsOf(e, s) ==
    {i \in DOMAIN insertion :
        LET c == insertion[i]
        IN  c.kind = "EVALUATION" /\ RowOf(c) \in rows /\ c.experiment = e /\ c.scenario = s}

ShownEvaluation(e, s) == insertion[Max(EvaluationsOf(e, s))].object

-----------------------------------------------------------------------------
LogTypeOK ==
    /\ pc \in [Calls -> {"unmade", "idle", "inserted", "chained", "done", "refused", "conflict"}]
    /\ \A c \in Calls : draft[c] # NoEvent <=> pc[c] = "chained"
    /\ insertion \in Seq(Calls) /\ IsInjective(insertion)
    /\ rows \subseteq {RowOf(c) : c \in Calls}

\* The committed audit events of an experiment form one unbroken chain, every
\* object is in it once, however many calls carry it, in whatever order they run
\* and wherever they die, and every committed evaluation or incident is in it
\* (appendAuditObjectWith, saveEligibility, recordIncident).  The advisory lock
\* makes appends wait: no call loses its transaction to the primary key.
ChainVerifies ==
    /\ \A e \in Experiments :
        /\ AuditContinuous(audit[e])
        /\ IsInjective([i \in DOMAIN audit[e] |-> audit[e][i].object])
        /\ \A i \in DOMAIN audit[e] : audit[e][i].experiment = e
        /\ \A r \in rows : r.experiment = e =>
                \E i \in DOMAIN audit[e] : audit[e][i].object = r.object
    /\ \A c \in Calls : pc[c] # "conflict"

\* A correction supersedes an evaluation of its own scenario that the chain
\* already holds, and the dashboard never shows an evaluation some committed
\* correction supersedes.
CorrectionsAreOrdered ==
    /\ \A r \in rows : r.parent # NoParent =>
        \E p \in rows :
            /\ p.object = r.parent /\ p.experiment = r.experiment
            /\ r.kind = "EVALUATION" => p.scenario = r.scenario
            /\ \E i, j \in DOMAIN audit[r.experiment] :
                /\ i < j
                /\ audit[r.experiment][i].object = p.object
                /\ audit[r.experiment][j].object = r.object
    /\ \A e \in Experiments, s \in Scenarios : EvaluationsOf(e, s) # {} =>
        ~ \E r \in rows : r.kind = "EVALUATION" /\ r.parent = ShownEvaluation(e, s)

\* Batches partition an initial part of the chain in order, each naming the
\* hash of the one before, and a repeated createBatch, which rebuilds the batch
\* from the events now stored, finds the hash it stored.
BatchesRebuild ==
    \A e \in Experiments :
        /\ BatchesContinuous([i \in DOMAIN batches[e] |-> batches[e][i].batch])
        /\ LastBatched(e) <= Len(audit[e])
        /\ \A i \in DOMAIN batches[e] : Rebuilt(e, batches[e][i]) = batches[e][i]

\* Every stored proof verifies, and only for its own leaf: the proof of one
\* event never verifies with the leaf of another.
ProofsBindLeaves ==
    \A e \in Experiments : \A i \in DOMAIN batches[e] :
        LET proofs == batches[e][i].proofs
        IN  \A p, q \in DOMAIN proofs :
                VerifyProof([proofs[p] EXCEPT !.leafHash = proofs[q].leafHash])
                    <=> p = q
=============================================================================
