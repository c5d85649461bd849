-------------------------- MODULE AuditPublication --------------------------
(***************************************************************************)
(* The audit log composed with what leaves it: the demo session that       *)
(* commits the log in one batch (scripts/demo-session.ts), the command     *)
(* that anchors the batch in the registry contract and records the         *)
(* receipt (scripts/publish-demo-session.ts), Arc blocks that a reorg may  *)
(* drop before they are final, and exports that read the log piecemeal.    *)
(* The command may die anywhere; it finds its place again from the files   *)
(* it retained, which is all it remembers.                                 *)
(***************************************************************************)
EXTENDS AuditLog

CONSTANTS
    DemoExperiment, DemoBatchId,
    Runs,           \* runs of the publication command
    Workloads,      \* calls and runs that occur together
    Owner, Publisher,
    MaxBlocks, MaxForks, MaxBroadcasts   \* bounds

ASSUME DemoAssumption == DemoExperiment \in Experiments
ASSUME WorkloadsAssumption ==
    \A w \in Workloads : w.calls \subseteq Calls /\ w.runs \subseteq Runs
ASSUME BoundsAssumption ==
    {MaxBlocks, MaxForks, MaxBroadcasts} \subseteq Nat

Registry == INSTANCE ProofOfAlphaRegistry

VARIABLES
    prep,       \* the demo session script: phase and events it has read
    session,    \* the session file it wrote
    chain,      \* Arc blocks: transaction, success, fork and registry after it
    finalized,  \* number of blocks that are final
    forks,      \* reorgs so far
    sent,       \* transactions broadcast, all with the calldata of the session
    run,        \* volatile state of each run of the command
    files,      \* retained transaction, published revision, evidence
    receipts,   \* registry_publication_receipts
    exporter,   \* events an export being assembled has read, or 0
    exports     \* reproducible_exports

pubVars == <<prep, session, chain, finalized, forks, sent, run, files,
             receipts, exporter, exports>>
vars == <<logVars, pubVars>>

NoSession == << >>
NoReceipt == << >>
Absent == [pc |-> "unmade", tx |-> 0, number |-> 0, fork |-> 0]
Resting == [pc |-> "off", tx |-> 0, number |-> 0, fork |-> 0]

Init ==
    /\ \E w \in Workloads :
        /\ LogInit(w.calls)
        /\ run = [r \in Runs |-> IF r \in w.runs THEN Resting ELSE Absent]
    /\ prep = [pc |-> "idle", seen |-> 0]
    /\ session = NoSession
    /\ chain = << >> /\ finalized = 0 /\ forks = 0 /\ sent = 0
    /\ files = [tx |-> 0, published |-> NoReceipt, evidence |-> NoReceipt]
    /\ receipts = {}
    /\ exporter = 0
    /\ exports = {}

-----------------------------------------------------------------------------
(* demo-session.ts: read the chain, commit it up to its last event, replay *)
(* the session before it is saved.  Reading and committing are separate    *)
(* transactions.                                                           *)

ReadAuditEvents ==
    /\ prep.pc = "idle" /\ audit[DemoExperiment] # << >>
    /\ prep' = [pc |-> "read", seen |-> Len(audit[DemoExperiment])]
    /\ UNCHANGED <<logVars, session, chain, finalized, forks, sent, run, files,
                   receipts, exporter, exports>>

SessionBatches ==
    {i \in DOMAIN batches[DemoExperiment] :
        batches[DemoExperiment][i].batch.id = DemoBatchId}

CommitSession ==
    /\ prep.pc = "read"
    /\ \/ CreateBatch([experiment |-> DemoExperiment, id |-> DemoBatchId,
                       last |-> prep.seen])
       \/ SessionBatches # {} /\ UNCHANGED logVars
    /\ prep' = [prep EXCEPT !.pc = "committed"]
    /\ UNCHANGED <<session, chain, finalized, forks, sent, run, files, receipts,
                   exporter, exports>>

StoredBatch == batches[DemoExperiment][CHOOSE i \in SessionBatches : TRUE]

\* replayDemoSession rebuilds the batch from the session's events, with no
\* predecessor.  The economic replay of the session is left out.
SessionReplays(events, built) ==
    /\ Batchable(DemoExperiment, events)
    /\ BuildBatch(DemoExperiment, built.batch.id, events, NoHash) = built

SaveSession ==
    LET events == SubSeq(audit[DemoExperiment], 1, prep.seen)
        built  == StoredBatch
    IN  /\ prep.pc = "committed"
        /\ prep' = [prep EXCEPT !.pc = IF SessionReplays(events, built)
                                       THEN "saved" ELSE "failed"]
        /\ session' = IF SessionReplays(events, built) THEN built.batch ELSE NoSession
        /\ UNCHANGED <<logVars, chain, finalized, forks, sent, run, files,
                       receipts, exporter, exports>>

-----------------------------------------------------------------------------
(* The Arc chain (external): a transaction is mined once on a branch and   *)
(* executes on the state before it; a reorg drops blocks that are not      *)
(* final and leaves their transactions pending.                            *)

RegistryAt(n) == IF n = 0 THEN Registry!DeployedRegistry ELSE chain[n].registry
Latest == RegistryAt(Len(chain))
Pending == {tx \in 1 .. sent : \A n \in DOMAIN chain : chain[n].tx # tx}

Mine(tx) ==
    LET ok == Registry!PublicationAccepted(Latest, Publisher, session, BatchHash(session))
    IN  /\ tx \in Pending /\ Len(chain) < MaxBlocks
        /\ chain' = Append(chain, [tx |-> tx, ok |-> ok, fork |-> forks,
                registry |-> IF ok THEN Registry!PublishBatch(Latest, session)
                             ELSE Latest])
        /\ UNCHANGED <<logVars, prep, session, finalized, forks, sent, run, files,
                       receipts, exporter, exports>>

\* The owner grants or revokes the publisher.
OwnerSetsPublisher ==
    /\ Len(chain) < MaxBlocks
    /\ \E allowed \in BOOLEAN :
        /\ allowed # (Publisher \in Latest.publishers)
        /\ chain' = Append(chain, [tx |-> 0, ok |-> TRUE, fork |-> forks,
            registry |-> Registry!SetPublisher(Latest, Owner, Publisher, allowed)])
    /\ UNCHANGED <<logVars, prep, session, finalized, forks, sent, run, files,
                   receipts, exporter, exports>>

Finalize ==
    /\ finalized < Len(chain)
    /\ finalized' = finalized + 1
    /\ UNCHANGED <<logVars, prep, session, chain, forks, sent, run, files,
                   receipts, exporter, exports>>

Reorg ==
    /\ finalized < Len(chain) /\ forks < MaxForks
    /\ chain' = SubSeq(chain, 1, finalized)
    /\ forks' = forks + 1
    /\ UNCHANGED <<logVars, prep, session, finalized, sent, run, files,
                   receipts, exporter, exports>>

-----------------------------------------------------------------------------
(* publish-demo-session.ts, one action per call that leaves the process.   *)

Step(r, from, to) ==
    /\ run[r].pc = from
    /\ run' = [run EXCEPT ![r].pc = to]

Unchanged == UNCHANGED <<logVars, prep, session, chain, finalized, forks,
                         exporter, exports>>

StartRun(r) ==
    /\ session # NoSession
    /\ run[r].pc = "off"
    /\ run' = [run EXCEPT ![r] =
            [Resting EXCEPT !.pc = IF files.tx = 0 THEN "check" ELSE "await",
                            !.tx = files.tx]]
    /\ Unchanged /\ UNCHANGED <<sent, files, receipts>>

\* Nothing retained: the publisher must be allowed and the head still empty.
CheckHead(r) ==
    /\ Step(r, "check", IF Publisher \in Latest.publishers /\ Latest.last = 0
                        THEN "send" ELSE "off")
    /\ Unchanged /\ UNCHANGED <<sent, files, receipts>>

\* simulateContract, then writeContract.
Simulates == Registry!PublicationAccepted(Latest, Publisher, session, BatchHash(session))

Broadcast(r) ==
    /\ run[r].pc = "send" /\ (Simulates => sent < MaxBroadcasts)
    /\ sent' = IF Simulates THEN sent + 1 ELSE sent
    /\ run' = [run EXCEPT ![r] = IF Simulates
                THEN [Resting EXCEPT !.pc = "retain", !.tx = sent + 1]
                ELSE Resting]
    /\ Unchanged /\ UNCHANGED <<files, receipts>>

\* The file is created only if there is none (flag wx).
Retain(r) ==
    /\ Step(r, "retain", IF files.tx = 0 THEN "await" ELSE "off")
    /\ files' = IF files.tx = 0 THEN [files EXCEPT !.tx = run[r].tx] ELSE files
    /\ Unchanged /\ UNCHANGED <<sent, receipts>>

AwaitReceipt(r) ==
    /\ run[r].pc = "await"
    /\ \E n \in DOMAIN chain :
        /\ chain[n].tx = run[r].tx
        /\ run' = [run EXCEPT ![r] = IF chain[n].ok
                THEN [@ EXCEPT !.pc = "final", !.number = n, !.fork = chain[n].fork]
                ELSE Resting]
    /\ Unchanged /\ UNCHANGED <<sent, files, receipts>>

AnyBlockMutant(r) == TRUE

\* The block of the receipt is final and still the block of that number.
FinalBlock(r) ==
    /\ run[r].number <= finalized
    /\ chain[run[r].number].fork = run[r].fork

\* The head of the final block is the session's batch and nothing after it.
FinalHead ==
    LET head == RegistryAt(finalized)
    IN  /\ head.last = session.last /\ head.count = 1
        /\ head.hash = BatchHash(session)

CheckFinal(r) ==
    /\ Step(r, "final", IF FinalBlock(r) /\ FinalHead THEN "write" ELSE "off")
    /\ Unchanged /\ UNCHANGED <<sent, files, receipts>>

Receipt(r) ==
    [batchId |-> session.id, batchHash |-> BatchHash(session),
     experiment |-> session.experiment, status |-> "CONFIRMED",
     tx |-> run[r].tx, number |-> run[r].number, fork |-> run[r].fork]

\* The published revision, then its evidence, each created once.  A run that
\* finds a published revision compares it and writes neither.
WritePublished(r) ==
    /\ Step(r, "write", IF files.published = NoReceipt THEN "evidence"
                        ELSE IF files.published = Receipt(r) THEN "compare"
                        ELSE "off")
    /\ files' = IF files.published = NoReceipt
                THEN [files EXCEPT !.published = Receipt(r)] ELSE files
    /\ Unchanged /\ UNCHANGED <<sent, receipts>>

WriteEvidence(r) ==
    /\ Step(r, "evidence", "compare")
    /\ files' = [files EXCEPT !.evidence = Receipt(r)]
    /\ Unchanged /\ UNCHANGED <<sent, receipts>>

CompareEvidence(r) ==
    /\ Step(r, "compare", IF files.evidence = Receipt(r) THEN "record" ELSE "off")
    /\ Unchanged /\ UNCHANGED <<sent, files, receipts>>

\* recordPublication reads the batch and the confirmed receipt, then inserts.
BatchStored(r) ==
    \E i \in DOMAIN batches[DemoExperiment] :
        VerifyPublication(batches[DemoExperiment][i].batch, Receipt(r))

Confirmed == {x \in receipts : x.batchId = session.id /\ x.status = "CONFIRMED"}

FindConfirmed(r) ==
    /\ Step(r, "record",
            IF ~BatchStored(r) THEN "off"
            ELSE IF Confirmed = {} THEN "insert"
            ELSE IF Receipt(r) \in Confirmed THEN "save" ELSE "off")
    /\ Unchanged /\ UNCHANGED <<sent, files, receipts>>

\* ON CONFLICT (transaction_hash) DO NOTHING; batch, status and block are unique.
InsertReceipt(r) ==
    LET present == \E x \in receipts : x.tx = run[r].tx
        clash   == \E x \in receipts : x.number = run[r].number /\ x.fork = run[r].fork
    IN  /\ Step(r, "insert", IF clash /\ ~present THEN "off" ELSE "save")
        /\ receipts' = IF present \/ clash THEN receipts ELSE receipts \cup {Receipt(r)}
        /\ Unchanged /\ UNCHANGED <<sent, files>>

\* saveDemoSession of the published revision; the command ends.
EndRun(r) ==
    /\ Step(r, "save", "off")
    /\ Unchanged /\ UNCHANGED <<sent, files, receipts>>

CrashRun(r) ==
    /\ run[r].pc \notin {"off", "unmade"}
    /\ run' = [run EXCEPT ![r] = Resting]
    /\ UNCHANGED <<logVars, prep, session, chain, finalized, forks, sent, files,
                   receipts, exporter, exports>>

RunStep(r) ==
    \/ StartRun(r) \/ CheckHead(r) \/ Broadcast(r) \/ Retain(r)
    \/ AwaitReceipt(r) \/ CheckFinal(r) \/ WritePublished(r) \/ WriteEvidence(r)
    \/ CompareEvidence(r) \/ FindConfirmed(r) \/ InsertReceipt(r) \/ EndRun(r)

-----------------------------------------------------------------------------
(* An export reads events and batches in separate queries and is verified  *)
(* before it is saved (auditEvents, getBatches, saveExport).               *)

ExportEvents ==
    /\ exporter = 0
    /\ exporter' = Len(audit[DemoExperiment])
    /\ UNCHANGED <<logVars, prep, session, chain, finalized, forks, sent, run,
                   files, receipts, exports>>

Flatten(seqs) == FoldLeft(LAMBDA x, y : x \o y, << >>, seqs)

\* The export of n events and m batches about the result of event k, which
\* names the batch that holds it.
Bundle(n, m, k) ==
    LET events == SubSeq(audit[DemoExperiment], 1, n)
        stored == SubSeq(batches[DemoExperiment], 1, m)
        holder == {i \in 1 .. m : k \in stored[i].batch.first .. stored[i].batch.last}
    IN  [events   |-> events,
         leaves   |-> [i \in 1 .. n |-> CreateLeaf(events[i])],
         batches  |-> [i \in 1 .. m |-> stored[i].batch],
         proofs   |-> Flatten([i \in 1 .. m |-> stored[i].proofs]),
         receipts |-> receipts,
         objects  |-> {events[i].object : i \in 1 .. n},
         selected |-> [sequence |-> k, object |-> events[k].object,
                       leafHash |-> LeafHash(events[k]),
                       batchId |-> IF holder = {} THEN DemoBatchId
                                   ELSE stored[CHOOSE i \in holder : TRUE].batch.id]]

\* Batches and receipts are read last, and the bundle is saved if it verifies.
SaveExport ==
    LET m == Len(batches[DemoExperiment])
    IN  /\ exporter > 0
        /\ \E k \in 1 .. exporter :
            exports' = IF VerifyExport(Bundle(exporter, m, k))
                       THEN exports \cup {[events |-> exporter, batches |-> m]}
                       ELSE exports
        /\ exporter' = 0
        /\ UNCHANGED <<logVars, prep, session, chain, finalized, forks, sent, run,
                       files, receipts>>

-----------------------------------------------------------------------------
Next ==
    \/ LogNext /\ UNCHANGED pubVars
    \/ ReadAuditEvents \/ CommitSession \/ SaveSession
    \/ \E tx \in 1 .. sent : Mine(tx)
    \/ OwnerSetsPublisher \/ Finalize \/ Reorg
    \/ \E r \in Runs : RunStep(r) \/ CrashRun(r)
    \/ ExportEvents \/ SaveExport

Spec == Init /\ [][Next]_vars

\* The operator runs the command until it is done; blocks are mined and final.
Fairness ==
    /\ \A r \in Runs : WF_vars(RunStep(r))
    /\ WF_vars(\E tx \in 1 .. sent : Mine(tx)) /\ WF_vars(Finalize)

LiveSpec == Spec /\ Fairness

-----------------------------------------------------------------------------
TypeOK ==
    /\ LogTypeOK
    /\ prep.pc \in {"idle", "read", "committed", "saved", "failed"}
    /\ finalized \in 0 .. Len(chain)
    /\ files.tx \in 0 .. sent
    /\ \A r \in Runs : run[r].tx \in 0 .. sent

\* On every branch of the chain the session's batch is anchored at most once,
\* and the registry's batches are the first committed batches of the database
\* in order, however often the command is run and broadcasts.
AnchoredOnce ==
    \A n \in DOMAIN chain :
        /\ Len(chain[n].registry.batches) <= Len(batches[DemoExperiment])
        /\ \A i \in DOMAIN chain[n].registry.batches :
            chain[n].registry.batches[i] = BatchHash(batches[DemoExperiment][i].batch)

\* A recorded publication, which the dashboard shows as verified, is a
\* successful transaction in a final block of the canonical chain, and a batch
\* has one: no reorg, crash, second run or second broadcast gets another in.
RecordedIsCanonical ==
    /\ Cardinality(receipts) <= 1
    /\ \A x \in receipts :
        /\ x.number <= finalized
        /\ chain[x.number].fork = x.fork /\ chain[x.number].tx = x.tx
        /\ chain[x.number].ok
        /\ chain[x.number].registry.hash = x.batchHash

\* A saved export holds exactly the events of the chain that the recorded
\* publications anchor, although its parts are read at different moments.
ExportsAreComplete ==
    \A x \in exports :
        /\ x.batches = Cardinality(receipts)
        /\ x.events = batches[DemoExperiment][x.batches].batch.last
        /\ \A i \in 1 .. x.batches : \E r \in receipts :
            r.batchHash = BatchHash(batches[DemoExperiment][i].batch)

\* Once its transaction is retained, a publication that stopped is recovered by
\* running the same command again and ends in the recorded receipt, if the
\* publisher stays allowed and crashes end (docs/runbooks/m7-demo-operations.md).
Undisturbed == /\ [](Publisher \in Latest.publishers)
               /\ <>[][\A r \in Runs : ~CrashRun(r)]_vars
RetainedIsRecovered == Undisturbed => ((files.tx # 0) ~> (receipts # {}))
=============================================================================
