------------------------ MODULE AuditPublicationProofs ------------------------
(***************************************************************************)
(* Proofs about AuditPublication, for every set of experiments, calls,     *)
(* batch requests and runs and every bound.                                *)
(*                                                                         *)
(* What the publication relies on, besides the log, is that the saved      *)
(* session is the first batch of its experiment, that at most one block of *)
(* any branch anchors it, and that a run past the finality check remembers *)
(* a block no reorg can drop.                                              *)
(***************************************************************************)
EXTENDS AuditPublication, AuditLogProofs

-----------------------------------------------------------------------------
(* The registry and the chain *)

IsRegistry(g) ==
  g = [last |-> g.last, count |-> g.count, hash |-> g.hash,
       publishers |-> g.publishers, batches |-> g.batches]

Pristine(g) == /\ IsRegistry(g)
               /\ g.last = 0 /\ g.count = 0 /\ g.hash = NoHash /\ g.batches = << >>

(* The registry holds the batch s and nothing else. *)
Anchors(g, s) == /\ IsRegistry(g)
                 /\ g.last = s.last /\ g.count = 1 /\ g.hash = BatchHash(s)
                 /\ g.batches = << BatchHash(s) >>

FirstBatch(s) == s.first = 1 /\ s.last \in Nat \ {0} /\ s.previous = NoHash

LEMMA RegistryHash ==
  /\ Registry!NoHash = NoHash
  /\ \A s : Registry!BatchHash(s) = BatchHash(s)
BY DEF Registry!NoHash, Registry!BatchHash, NoHash, BatchHash

LEMMA PristineOrAnchors == \A g, s : Pristine(g) => ~Anchors(g, s)
BY DEF Pristine, Anchors

LEMMA Deployed == Pristine(Registry!DeployedRegistry)
BY RegistryHash DEF Pristine, IsRegistry, Registry!DeployedRegistry

LEMMA PublishedOnce ==
  ASSUME NEW g, NEW s, FirstBatch(s),
         Registry!PublicationAccepted(g, Publisher, s, BatchHash(s)),
         Pristine(g) \/ Anchors(g, s)
  PROVE  Pristine(g) /\ Anchors(Registry!PublishBatch(g, s), s)
<1>1. Pristine(g)
  BY DEF Registry!PublicationAccepted, Anchors, FirstBatch
<1> DEFINE h == Registry!PublishBatch(g, s)
<1>2. h = [g EXCEPT !.last = s.last, !.count = g.count + 1, !.hash = BatchHash(s),
                    !.batches = Append(g.batches, BatchHash(s))]
  BY RegistryHash DEF Registry!PublishBatch
<1>3. /\ IsRegistry(h) /\ h.last = s.last /\ h.count = g.count + 1
      /\ h.hash = BatchHash(s) /\ h.batches = Append(g.batches, BatchHash(s))
  BY <1>1, <1>2 DEF Pristine, IsRegistry
<1>4. Append(<< >>, BatchHash(s)) = << BatchHash(s) >>
  OBVIOUS
<1> QED
  BY <1>1, <1>4, <1>3 DEF Pristine, Anchors

LEMMA PublisherSet ==
  ASSUME NEW g, NEW s, NEW allowed
  PROVE  LET h == Registry!SetPublisher(g, Owner, Publisher, allowed)
         IN  (Pristine(g) => Pristine(h)) /\ (Anchors(g, s) => Anchors(h, s))
<1> DEFINE h == Registry!SetPublisher(g, Owner, Publisher, allowed)
<1>1. h = [g EXCEPT !.publishers = IF allowed THEN @ \cup {Publisher} ELSE @ \ {Publisher}]
  BY DEF Registry!SetPublisher
<1>2. IsRegistry(g) =>
        /\ IsRegistry(h) /\ h.last = g.last /\ h.count = g.count
        /\ h.hash = g.hash /\ h.batches = g.batches
  BY <1>1 DEF IsRegistry
<1> QED
  BY <1>2 DEF Pristine, Anchors

(* A chain c, with f reorgs and n broadcasts so far, on which the batch s is
   anchored by at most one block. *)
SoundChain(c, s, f, n) ==
  /\ IsSequence(c)
  /\ \A i \in 1 .. Len(c) :
       /\ c[i].fork \in 0 .. f /\ c[i].tx \in 0 .. n
       /\ Pristine(c[i].registry) \/ Anchors(c[i].registry, s)
       /\ c[i].tx # 0 /\ c[i].ok => Anchors(c[i].registry, s)
  /\ \A i, j \in 1 .. Len(c) :
       i < j => /\ Anchors(c[i].registry, s) => Anchors(c[j].registry, s)
                /\ c[j].tx # 0 /\ c[j].ok => Pristine(c[i].registry)

After(c) == IF Len(c) = 0 THEN Registry!DeployedRegistry ELSE c[Len(c)].registry

LEMMA AfterFacts ==
  ASSUME NEW c, NEW s, NEW f, NEW n, SoundChain(c, s, f, n)
  PROVE  /\ Pristine(After(c)) \/ Anchors(After(c), s)
         /\ Pristine(After(c)) => \A i \in 1 .. Len(c) : Pristine(c[i].registry)
<1>1. Len(c) \in Nat
  BY SequenceFacts DEF SoundChain
<1>2. CASE Len(c) = 0
  BY <1>2, Deployed DEF After
<1>3. CASE Len(c) # 0
  <2>1. Len(c) \in 1 .. Len(c) /\ After(c) = c[Len(c)].registry
    BY <1>1, <1>3 DEF After
  <2>2. Pristine(After(c)) \/ Anchors(After(c), s)
    BY <2>1 DEF SoundChain
  <2>3. ASSUME NEW i \in 1 .. Len(c), Pristine(After(c))
        PROVE  Pristine(c[i].registry)
    <3>1. i = Len(c) \/ i < Len(c)
      BY <1>1
    <3> QED
      BY <2>1, <2>3, <3>1, PristineOrAnchors DEF SoundChain
  <2> QED
    BY <2>2, <2>3
<1> QED
  BY <1>2, <1>3

LEMMA MinedChain ==
  ASSUME NEW c, NEW s, NEW f \in Nat, NEW n \in Nat, SoundChain(c, s, f, n),
         NEW b, b.fork = f, b.tx \in 0 .. n,
         \/ Pristine(After(c)) /\ Anchors(b.registry, s)
         \/ Pristine(After(c)) /\ Pristine(b.registry) /\ ~(b.tx # 0 /\ b.ok)
         \/ Anchors(After(c), s) /\ Anchors(b.registry, s) /\ ~(b.tx # 0 /\ b.ok)
  PROVE  SoundChain(Append(c, b), s, f, n)
<1> DEFINE d == Append(c, b)
<1>1. IsSequence(c) /\ Len(c) \in Nat
  BY SequenceFacts DEF SoundChain
<1>2. /\ IsSequence(d) /\ Len(d) = Len(c) + 1 /\ d[Len(c) + 1] = b
      /\ \A i \in 1 .. Len(c) : d[i] = c[i]
  BY <1>1, AppendFacts
<1> HIDE DEF d
<1>3. ASSUME NEW i \in 1 .. Len(d)
      PROVE  /\ d[i].fork \in 0 .. f /\ d[i].tx \in 0 .. n
             /\ Pristine(d[i].registry) \/ Anchors(d[i].registry, s)
             /\ d[i].tx # 0 /\ d[i].ok => Anchors(d[i].registry, s)
  <2>1. CASE i \in 1 .. Len(c)
    BY <1>2, <2>1 DEF SoundChain
  <2>2. CASE i = Len(c) + 1
    BY <1>2, <2>2
  <2> QED
    BY <1>1, <1>2, <2>1, <2>2
<1>4. ASSUME NEW i \in 1 .. Len(d), NEW j \in 1 .. Len(d), i < j
      PROVE  /\ Anchors(d[i].registry, s) => Anchors(d[j].registry, s)
             /\ d[j].tx # 0 /\ d[j].ok => Pristine(d[i].registry)
  <2>1. i \in 1 .. Len(c) /\ d[i] = c[i]
    BY <1>1, <1>2, <1>4
  <2>2. CASE j \in 1 .. Len(c)
    BY <1>2, <1>4, <2>1, <2>2 DEF SoundChain
  <2>3. CASE j = Len(c) + 1
    <3>1. d[j] = b
      BY <1>2, <2>3
    <3>2. Pristine(After(c)) => Pristine(c[i].registry)
      BY <2>1, AfterFacts
    <3> QED
      BY <2>1, <3>1, <3>2, PristineOrAnchors
  <2> QED
    BY <1>1, <1>2, <2>2, <2>3
<1>5. SoundChain(d, s, f, n)
  BY <1>2, <1>3, <1>4 DEF SoundChain
<1> QED
  BY <1>5 DEF d

LEMMA CutChain ==
  ASSUME NEW c, NEW s, NEW f \in Nat, NEW n \in Nat, SoundChain(c, s, f, n),
         NEW k \in 0 .. Len(c)
  PROVE  SoundChain(SubSeq(c, 1, k), s, f + 1, n)
<1> DEFINE d == SubSeq(c, 1, k)
<1>1. IsSequence(c) /\ Len(c) \in Nat
  BY SequenceFacts DEF SoundChain
<1>2. /\ IsSequence(d) /\ Len(d) = k
      /\ \A i \in 1 .. k : i \in 1 .. Len(c) /\ d[i] = c[i]
  BY <1>1, PrefixFacts
<1> HIDE DEF d
<1>3. ASSUME NEW i \in 1 .. Len(d)
      PROVE  /\ d[i].fork \in 0 .. f + 1 /\ d[i].tx \in 0 .. n
             /\ Pristine(d[i].registry) \/ Anchors(d[i].registry, s)
             /\ d[i].tx # 0 /\ d[i].ok => Anchors(d[i].registry, s)
  <2>1. i \in 1 .. Len(c) /\ d[i] = c[i]
    BY <1>2
  <2> QED
    BY <2>1 DEF SoundChain
<1>4. ASSUME NEW i \in 1 .. Len(d), NEW j \in 1 .. Len(d), i < j
      PROVE  /\ Anchors(d[i].registry, s) => Anchors(d[j].registry, s)
             /\ d[j].tx # 0 /\ d[j].ok => Pristine(d[i].registry)
  <2>1. i \in 1 .. Len(c) /\ j \in 1 .. Len(c) /\ d[i] = c[i] /\ d[j] = c[j]
    BY <1>2
  <2> QED
    BY <1>4, <2>1 DEF SoundChain
<1>5. SoundChain(d, s, f + 1, n)
  BY <1>2, <1>3, <1>4 DEF SoundChain
<1> QED
  BY <1>5 DEF d

(* A batch saved while nothing is anchored. *)
LEMMA PristineChain ==
  ASSUME NEW c, NEW s, NEW t, NEW f, NEW n \in Nat, n = 0, SoundChain(c, s, f, n),
         \A i \in 1 .. Len(c) : Pristine(c[i].registry)
  PROVE  SoundChain(c, t, f, n)
<1>1. \A i \in 1 .. Len(c) : c[i].tx = 0
  BY DEF SoundChain
<1> QED
  BY <1>1, PristineOrAnchors DEF SoundChain

-----------------------------------------------------------------------------
(* What a run or a receipt b remembers of the chain c: its transaction, and   *)
(* the number and branch of the block that held it.                           *)

(* The block is final, whatever becomes of the rest of the chain. *)
Canonical(b, c, final) ==
  /\ b.number \in 1 .. final /\ b.tx # 0
  /\ c[b.number].tx = b.tx /\ c[b.number].fork = b.fork /\ c[b.number].ok

(* The block was on the chain once: if a block of its number and branch is on
   the chain, then it is that block; if its number is free, then the next block
   of that number is on another branch. *)
Seen(b, c, f) ==
  /\ b.number \in Nat \ {0} /\ b.fork \in 0 .. f
  /\ b.number <= Len(c) /\ c[b.number].fork = b.fork =>
       c[b.number].tx = b.tx /\ c[b.number].ok
  /\ b.number > Len(c) => b.fork < f

Idle == {"unmade", "off"}
Confirming == {"write", "evidence", "compare", "record", "insert", "save"}
RunPhase == Idle \cup {"check", "send", "retain", "await", "final"} \cup Confirming

RunFits(b, c, final, f, n) ==
  /\ b.pc \in RunPhase /\ b.tx \in 0 .. n
  /\ b.pc \in {"retain", "await", "final"} => b.tx # 0
  /\ b.pc = "final" => Seen(b, c, f)
  /\ b.pc \in Confirming => Canonical(b, c, final)

(* The receipt a session and a final block determine. *)
ReceiptFits(x, c, final, s) ==
  /\ Canonical(x, c, final)
  /\ x = [batchId |-> s.id, batchHash |-> BatchHash(s), experiment |-> s.experiment,
          status |-> "CONFIRMED", tx |-> x.tx, number |-> x.number, fork |-> x.fork]

SessionInv ==
  /\ prep = [pc |-> prep.pc, seen |-> prep.seen]
  /\ prep.seen \in 0 .. Len(audit[DemoExperiment])
  /\ prep.pc = "committed" => SessionBatches # {}
  /\ session # NoSession =>
       /\ prep.pc = "saved" /\ FirstBatch(session)
       /\ 1 \in 1 .. Len(batches[DemoExperiment])
       /\ batches[DemoExperiment][1].batch = session

(* Nothing is published before there is a session. *)
QuietBefore ==
  session = NoSession =>
    /\ sent = 0 /\ receipts = {}
    /\ \A i \in 1 .. Len(chain) : Pristine(chain[i].registry)
    /\ \A r \in Runs : run[r].pc \in Idle

ChainInv ==
  /\ sent \in Nat /\ forks \in Nat /\ finalized \in 0 .. Len(chain)
  /\ SoundChain(chain, session, forks, sent)

IsRun(b) == b = [pc |-> b.pc, tx |-> b.tx, number |-> b.number, fork |-> b.fork]

RunsInv ==
  /\ run = [r \in Runs |-> run[r]]
  /\ \A r \in Runs : IsRun(run[r]) /\ RunFits(run[r], chain, finalized, forks, sent)
  /\ files = [tx |-> files.tx, published |-> files.published, evidence |-> files.evidence]
  /\ files.tx \in 0 .. sent

ReceiptsInv == \A x \in receipts : ReceiptFits(x, chain, finalized, session)

PubInv == SessionInv /\ QuietBefore /\ ChainInv /\ RunsInv /\ ReceiptsInv

LEMMA PubInvInit == Init => PubInv
<1> SUFFICES ASSUME Init PROVE PubInv
  OBVIOUS
<1>1. IsSequence(<< >>) /\ Len(<< >>) = 0
  BY EmptyUnbroken DEF Unbroken
<1>2. /\ prep = [pc |-> "idle", seen |-> 0] /\ session = NoSession
      /\ chain = << >> /\ finalized = 0 /\ forks = 0 /\ sent = 0
      /\ files = [tx |-> 0, published |-> NoReceipt, evidence |-> NoReceipt]
      /\ receipts = {}
      /\ run \in [Runs -> {Absent, Resting}]
      /\ audit = [e \in Experiments |-> << >>]
  BY DEF Init, LogInit
<1>3. SessionInv
  BY <1>1, <1>2, DemoAssumption DEF SessionInv
<1>4. QuietBefore
  BY <1>2 DEF QuietBefore, Absent, Resting, Idle
<1>5. ChainInv
  BY <1>1, <1>2 DEF ChainInv, SoundChain
<1>6. RunsInv
  <2>1. \A b \in {Absent, Resting} :
          IsRun(b) /\ b.pc \in Idle /\ b.tx = 0
    BY DEF IsRun, Absent, Resting, Idle
  <2>2. \A b : b.pc \in Idle /\ b.tx = 0 => RunFits(b, chain, finalized, forks, sent)
    BY <1>2 DEF RunFits, RunPhase, Idle, Confirming
  <2> QED
    BY <1>2, <2>1, <2>2 DEF RunsInv
<1>7. ReceiptsInv
  BY <1>2 DEF ReceiptsInv
<1> QED
  BY <1>3, <1>4, <1>5, <1>6, <1>7 DEF PubInv

-----------------------------------------------------------------------------
(* Steps of the log and of the session script *)

LEMMA SessionKept ==
  ASSUME LogInv, SessionInv, LogNext \/ \E q : CreateBatch(q)
  PROVE  /\ prep.seen \in 0 .. Len(audit'[DemoExperiment])
         /\ SessionBatches # {} => SessionBatches' # {}
         /\ session # NoSession =>
              /\ 1 \in 1 .. Len(batches'[DemoExperiment])
              /\ batches'[DemoExperiment][1].batch = session
<1> DEFINE e == DemoExperiment
<1>1. /\ Len(audit[e]) \in Nat /\ Len(audit'[e]) \in Nat
      /\ Len(audit[e]) <= Len(audit'[e])
      /\ Len(batches[e]) \in Nat /\ Len(batches'[e]) \in Nat
      /\ Len(batches[e]) <= Len(batches'[e])
      /\ \A i \in 1 .. Len(batches[e]) : batches'[e][i] = batches[e][i]
  BY DemoAssumption, LogGrows
<1>2. LogInv'
  BY LogStep, CreateBatchStep
<1>3. DOMAIN batches[e] = 1 .. Len(batches[e]) /\ DOMAIN batches'[e] = 1 .. Len(batches'[e])
  BY <1>2, DemoAssumption, SequenceFacts DEF LogInv, LogShape
<1>4. SessionBatches # {} => SessionBatches' # {}
  <2> SUFFICES ASSUME NEW i \in SessionBatches PROVE i \in SessionBatches'
    OBVIOUS
  <2>1. i \in 1 .. Len(batches'[e]) /\ batches'[e][i] = batches[e][i]
    BY <1>1, <1>3 DEF SessionBatches
  <2> QED
    BY <1>3, <2>1 DEF SessionBatches
<1> QED
  BY <1>1, <1>4 DEF SessionInv

LEMMA SessionFrame ==
  ASSUME PubInv, SessionInv', UNCHANGED <<session, chain, finalized, forks, sent, run,
                                          files, receipts>>
  PROVE  PubInv'
<1>1. QuietBefore'
  BY DEF PubInv, QuietBefore
<1>2. ChainInv'
  BY DEF PubInv, ChainInv
<1>3. RunsInv' /\ ReceiptsInv'
  BY DEF PubInv, RunsInv, ReceiptsInv
<1> QED
  BY <1>1, <1>2, <1>3 DEF PubInv

LEMMA LogNextStep ==
  ASSUME LogInv, PubInv, LogNext, UNCHANGED pubVars
  PROVE  PubInv'
<1>1. SessionInv'
  BY SessionKept DEF PubInv, SessionInv, pubVars
<1> QED
  BY <1>1, SessionFrame DEF pubVars

LEMMA ReadAuditEventsStep ==
  ASSUME LogInv, PubInv, ReadAuditEvents
  PROVE  LogInv' /\ PubInv'
<1>1. LogInv'
  BY LogStutter DEF ReadAuditEvents
<1>2. Len(audit[DemoExperiment]) \in Nat
  BY DemoAssumption, SequenceFacts DEF LogInv, LogShape, Unbroken
<1>3. SessionInv'
  BY <1>2 DEF PubInv, SessionInv, ReadAuditEvents, logVars
<1> QED
  BY <1>1, <1>3, SessionFrame DEF ReadAuditEvents

LEMMA CommitSessionStep ==
  ASSUME LogInv, PubInv, CommitSession
  PROVE  LogInv' /\ PubInv'
<1> DEFINE e == DemoExperiment
           q == [experiment |-> e, id |-> DemoBatchId, last |-> prep.seen]
<1>1. /\ prep' = [prep EXCEPT !.pc = "committed"] /\ prep.pc = "read"
      /\ UNCHANGED <<session, chain, finalized, forks, sent, run, files, receipts>>
      /\ CreateBatch(q) \/ (SessionBatches # {} /\ UNCHANGED logVars)
  BY DEF CommitSession
<1>2. prep'.pc = "committed" /\ prep'.seen = prep.seen /\ session = NoSession
      /\ prep' = [pc |-> prep'.pc, seen |-> prep'.seen]
  BY <1>1 DEF PubInv, SessionInv
<1>3. CASE CreateBatch(q)
  <2>1. PICK built : /\ built.batch.id = q.id
                     /\ batches' = [batches EXCEPT ![q.experiment] = Append(@, built)]
    BY <1>3, CreateBatchStep
  <2>2. LogInv'
    BY <1>3, CreateBatchStep
  <2>3. batches'[e] = Append(batches[e], built) /\ built.batch.id = DemoBatchId
    BY <2>1, DemoAssumption DEF LogInv, LogShape
  <2>4. IsSequence(batches[e]) /\ Len(batches[e]) \in Nat
    BY DemoAssumption, SequenceFacts DEF LogInv, LogShape
  <2>5. Len(batches[e]) + 1 \in SessionBatches'
    <3>1. /\ DOMAIN batches'[e] = 1 .. Len(batches[e]) + 1
          /\ batches'[e][Len(batches[e]) + 1] = built
      BY <2>3, <2>4, AppendFacts
    <3> QED
      BY <2>3, <2>4, <3>1 DEF SessionBatches
  <2>6. prep.seen \in 0 .. Len(audit'[e])
    BY <1>3, SessionKept DEF PubInv
  <2>7. SessionInv'
    BY <1>1, <1>2, <2>5, <2>6 DEF SessionInv
  <2> QED
    BY <1>1, <2>2, <2>7, SessionFrame
<1>4. CASE SessionBatches # {} /\ UNCHANGED logVars
  <2>1. SessionInv'
    BY <1>1, <1>2, <1>4 DEF PubInv, SessionInv, SessionBatches, logVars
  <2> QED
    BY <1>1, <1>4, <2>1, LogStutter, SessionFrame
<1> QED
  BY <1>1, <1>3, <1>4

LEMMA SessionBatchStep ==
  ASSUME LogInv, PubInv, BatchInv, CommitSession
  PROVE  BatchInv'
<1> DEFINE q == [experiment |-> DemoExperiment, id |-> DemoBatchId, last |-> prep.seen]
<1>1. CreateBatch(q) \/ UNCHANGED logVars
  BY DEF CommitSession
<1>2. q.last \in Nat
  BY DemoAssumption, SequenceFacts DEF PubInv, SessionInv, LogInv, LogShape, Unbroken
<1> HIDE DEF q
<1> QED
  BY <1>1, <1>2, BatchesOfRequest, BatchInvStutter DEF logVars

(* A batch that replays without a predecessor is the first of its experiment. *)
LEMMA ReplayedIsFirst ==
  ASSUME LogInv, PubInv, prep.pc = "committed",
         SessionReplays(SubSeq(audit[DemoExperiment], 1, prep.seen), StoredBatch)
  PROVE  /\ FirstBatch(StoredBatch.batch)
         /\ 1 \in 1 .. Len(batches[DemoExperiment])
         /\ StoredBatch = batches[DemoExperiment][1]
<1> DEFINE e == DemoExperiment
           events == SubSeq(audit[e], 1, prep.seen)
           built == BuildBatch(e, StoredBatch.batch.id, events, NoHash)
<1>1. events # << >> /\ built = StoredBatch
  BY DEF SessionReplays, Batchable
<1>2. /\ built.batch.first = events[1].sequence
      /\ built.batch.last = events[Len(events)].sequence
      /\ built.batch.previous = NoHash
  BY DEF BuildBatch
<1> HIDE DEF built
<1>3. Unbroken(e, audit[e]) /\ IsSequence(audit[e]) /\ Len(audit[e]) \in Nat
  BY DemoAssumption, SequenceFacts DEF LogInv, LogShape, Unbroken
<1>4. prep.seen \in 0 .. Len(audit[e])
  BY DEF PubInv, SessionInv
<1>5. /\ IsSequence(events) /\ Len(events) = prep.seen
      /\ \A i \in 1 .. prep.seen : events[i] = audit[e][i]
  BY <1>3, <1>4, PrefixFacts
<1>6. prep.seen \in 1 .. Len(audit[e])
  BY <1>1, <1>3, <1>4, <1>5, SequenceFacts
<1> HIDE DEF events
<1>7. events[1].sequence = 1 /\ events[Len(events)].sequence = prep.seen
  <2>1. 1 \in 1 .. prep.seen /\ prep.seen \in 1 .. prep.seen
    BY <1>3, <1>6
  <2>2. 1 \in 1 .. Len(audit[e])
    BY <1>3, <1>6
  <2> QED
    BY <1>3, <1>5, <1>6, <2>1, <2>2 DEF Unbroken
<1>8. FirstBatch(StoredBatch.batch)
  BY <1>1, <1>2, <1>3, <1>6, <1>7 DEF FirstBatch
<1>9. PICK i \in SessionBatches : StoredBatch = batches[e][i]
  BY DEF PubInv, SessionInv, StoredBatch
<1>10. i \in 1 .. Len(batches[e]) /\ Len(batches[e]) \in Nat
  BY DemoAssumption, SequenceFacts DEF LogInv, LogShape, SessionBatches
<1>11. i = 1
  BY <1>8, <1>9, <1>10, DemoAssumption DEF LogInv, BatchesLinked, FirstBatch
<1> QED
  BY <1>8, <1>9, <1>10, <1>11

LEMMA SaveSessionStep ==
  ASSUME LogInv, PubInv, SaveSession
  PROVE  LogInv' /\ PubInv'
<1>1. /\ prep.pc = "committed" /\ session = NoSession
      /\ UNCHANGED logVars
      /\ UNCHANGED <<chain, finalized, forks, sent, run, files, receipts>>
  BY DEF SaveSession, PubInv, SessionInv
<1>2. LogInv'
  BY <1>1, LogStutter
<1>3. prep' = [pc |-> prep'.pc, seen |-> prep'.seen] /\ prep'.seen = prep.seen
      /\ prep'.pc \in {"saved", "failed"}
  BY DEF SaveSession, PubInv, SessionInv
<1>4. session' # NoSession =>
        /\ prep'.pc = "saved" /\ FirstBatch(session')
        /\ 1 \in 1 .. Len(batches[DemoExperiment])
        /\ batches[DemoExperiment][1].batch = session'
  BY <1>1, ReplayedIsFirst DEF SaveSession, PubInv, SessionInv
<1>5. SessionInv'
  BY <1>1, <1>3, <1>4 DEF PubInv, SessionInv, logVars
<1>6. /\ sent = 0 /\ receipts = {}
      /\ \A i \in 1 .. Len(chain) : Pristine(chain[i].registry)
      /\ \A r \in Runs : run[r].pc \in Idle
  BY <1>1 DEF PubInv, QuietBefore
<1>7. QuietBefore'
  BY <1>1, <1>6 DEF QuietBefore
<1>8. ChainInv'
  BY <1>1, <1>6, PristineChain DEF PubInv, ChainInv
<1>9. RunsInv' /\ ReceiptsInv'
  BY <1>1, <1>6 DEF PubInv, RunsInv, ReceiptsInv
<1> QED
  BY <1>2, <1>5, <1>7, <1>8, <1>9 DEF PubInv

-----------------------------------------------------------------------------
(* Steps of the chain *)

LEMMA ChainFrame ==
  ASSUME PubInv, ChainInv',
         UNCHANGED <<logVars, prep, session, sent, run, files, receipts>>,
         session = NoSession => \A i \in 1 .. Len(chain') : Pristine(chain'[i].registry),
         \A b : Canonical(b, chain, finalized) => Canonical(b, chain', finalized'),
         \A b : Seen(b, chain, forks) => Seen(b, chain', forks')
  PROVE  PubInv'
<1>1. SessionInv'
  BY DEF PubInv, SessionInv, SessionBatches, logVars
<1>2. QuietBefore'
  BY DEF PubInv, QuietBefore
<1>3. \A b : RunFits(b, chain, finalized, forks, sent)
               => RunFits(b, chain', finalized', forks', sent)
  BY DEF RunFits
<1>4. RunsInv'
  BY <1>3 DEF PubInv, RunsInv
<1>5. ReceiptsInv'
  BY DEF PubInv, ReceiptsInv, ReceiptFits
<1> QED
  BY <1>1, <1>2, <1>4, <1>5 DEF PubInv

LEMMA BlockStep ==
  ASSUME LogInv, PubInv, NEW b, chain' = Append(chain, b),
         b.fork = forks, b.tx \in 0 .. sent,
         \/ Pristine(After(chain)) /\ Anchors(b.registry, session)
         \/ Pristine(After(chain)) /\ Pristine(b.registry) /\ ~(b.tx # 0 /\ b.ok)
         \/ Anchors(After(chain), session) /\ Anchors(b.registry, session)
            /\ ~(b.tx # 0 /\ b.ok),
         session = NoSession => Pristine(b.registry),
         UNCHANGED <<logVars, prep, session, finalized, forks, sent, run, files, receipts>>
  PROVE  LogInv' /\ PubInv'
<1>1. LogInv'
  BY LogStutter
<1>2. /\ forks \in Nat /\ sent \in Nat /\ finalized \in 0 .. Len(chain)
      /\ SoundChain(chain, session, forks, sent)
  BY DEF PubInv, ChainInv
<1>3. IsSequence(chain) /\ Len(chain) \in Nat
  BY <1>2, SequenceFacts DEF SoundChain
<1>4. /\ Len(chain') = Len(chain) + 1
      /\ chain'[Len(chain) + 1] = b
      /\ \A i \in 1 .. Len(chain) : chain'[i] = chain[i]
  BY <1>3, AppendFacts
<1>5. SoundChain(chain', session, forks, sent)
  BY <1>2, MinedChain
<1>6. ChainInv'
  BY <1>2, <1>3, <1>4, <1>5 DEF ChainInv
<1>7. session = NoSession => \A i \in 1 .. Len(chain') : Pristine(chain'[i].registry)
  <2> SUFFICES ASSUME session = NoSession, NEW i \in 1 .. Len(chain')
               PROVE  Pristine(chain'[i].registry)
    OBVIOUS
  <2>1. CASE i \in 1 .. Len(chain)
    BY <1>4, <2>1 DEF PubInv, QuietBefore
  <2>2. CASE i = Len(chain) + 1
    BY <1>4, <2>2
  <2> QED
    BY <1>3, <1>4, <2>1, <2>2
<1>8. ASSUME NEW x, Canonical(x, chain, finalized)
      PROVE  Canonical(x, chain', finalized')
  <2>1. x.number \in 1 .. Len(chain)
    BY <1>2, <1>3, <1>8 DEF Canonical
  <2> QED
    BY <1>4, <1>8, <2>1 DEF Canonical
<1>9. ASSUME NEW x, Seen(x, chain, forks)
      PROVE  Seen(x, chain', forks')
  <2>1. x.number \in Nat \ {0} /\ x.fork \in 0 .. forks
    BY <1>9 DEF Seen
  <2>2. CASE x.number <= Len(chain)
    <3>1. x.number \in 1 .. Len(chain) /\ x.number <= Len(chain') /\ ~(x.number > Len(chain'))
      BY <1>3, <1>4, <2>1, <2>2
    <3>2. chain'[x.number] = chain[x.number]
      BY <1>4, <3>1
    <3> QED
      BY <1>9, <2>1, <2>2, <3>1, <3>2 DEF Seen
  <2>3. CASE x.number = Len(chain) + 1
    <3>1. x.fork < forks /\ chain'[x.number] = b /\ x.number <= Len(chain')
          /\ ~(x.number > Len(chain'))
      BY <1>3, <1>4, <1>9, <2>3 DEF Seen
    <3>2. chain'[x.number].fork # x.fork
      BY <1>2, <2>1, <3>1
    <3> QED
      BY <2>1, <3>1, <3>2 DEF Seen
  <2>4. CASE x.number > Len(chain) + 1
    <3>1. x.number > Len(chain') /\ ~(x.number <= Len(chain')) /\ x.fork < forks
      BY <1>3, <1>4, <1>9, <2>1, <2>4 DEF Seen
    <3> QED
      BY <2>1, <3>1 DEF Seen
  <2> QED
    BY <1>3, <2>1, <2>2, <2>3, <2>4
<1> QED
  BY <1>1, <1>6, <1>7, <1>8, <1>9, ChainFrame

LEMMA LatestIsAfter == Latest = After(chain)
BY DEF Latest, RegistryAt, After

LEMMA MineStep ==
  ASSUME LogInv, PubInv, NEW tx \in 1 .. sent, Mine(tx)
  PROVE  LogInv' /\ PubInv'
<1> DEFINE ok == Registry!PublicationAccepted(Latest, Publisher, session, BatchHash(session))
           g == IF ok THEN Registry!PublishBatch(Latest, session) ELSE Latest
           b == [tx |-> tx, ok |-> ok, fork |-> forks, registry |-> g]
<1>1. chain' = Append(chain, b)
  BY DEF Mine
<1>2. /\ sent \in Nat /\ SoundChain(chain, session, forks, sent)
      /\ tx \in 0 .. sent /\ tx # 0
  BY DEF PubInv, ChainInv
<1>3. session # NoSession
  BY <1>2 DEF PubInv, QuietBefore
<1>4. FirstBatch(session)
  BY <1>3 DEF PubInv, SessionInv
<1>5. Pristine(Latest) \/ Anchors(Latest, session)
  BY <1>2, AfterFacts, LatestIsAfter
<1>6. CASE ok
  <2>1. Pristine(Latest) /\ Anchors(g, session)
    BY <1>4, <1>5, <1>6, PublishedOnce
  <2> QED
    BY <1>1, <1>2, <1>3, <2>1, BlockStep, LatestIsAfter DEF Mine
<1>7. CASE ~ok
  <2>1. g = Latest /\ ~b.ok
    BY <1>7
  <2> QED
    BY <1>1, <1>2, <1>3, <1>5, <2>1, BlockStep, LatestIsAfter DEF Mine
<1> QED
  BY <1>6, <1>7

LEMMA OwnerStep ==
  ASSUME LogInv, PubInv, OwnerSetsPublisher
  PROVE  LogInv' /\ PubInv'
<1>1. PICK allowed \in BOOLEAN :
        chain' = Append(chain, [tx |-> 0, ok |-> TRUE, fork |-> forks,
            registry |-> Registry!SetPublisher(Latest, Owner, Publisher, allowed)])
  BY DEF OwnerSetsPublisher
<1> DEFINE g == Registry!SetPublisher(Latest, Owner, Publisher, allowed)
           b == [tx |-> 0, ok |-> TRUE, fork |-> forks, registry |-> g]
<1>2. sent \in Nat /\ SoundChain(chain, session, forks, sent)
  BY DEF PubInv, ChainInv
<1>3. (Pristine(Latest) => Pristine(g)) /\ (Anchors(Latest, session) => Anchors(g, session))
  BY PublisherSet
<1>4. Pristine(Latest) \/ Anchors(Latest, session)
  BY <1>2, AfterFacts, LatestIsAfter
<1>5. session = NoSession => Pristine(Latest)
  <2> SUFFICES ASSUME session = NoSession PROVE Pristine(After(chain))
    BY LatestIsAfter
  <2>1. Len(chain) \in Nat
    BY <1>2, SequenceFacts DEF SoundChain
  <2> QED
    BY <2>1, Deployed DEF PubInv, QuietBefore, After
<1> HIDE DEF g
<1>6. b.tx = 0 /\ b.fork = forks /\ b.registry = g /\ chain' = Append(chain, b)
  BY <1>1 DEF g
<1> HIDE DEF b
<1> QED
  BY <1>2, <1>3, <1>4, <1>5, <1>6, BlockStep, LatestIsAfter DEF OwnerSetsPublisher

LEMMA FinalizeStep ==
  ASSUME LogInv, PubInv, Finalize
  PROVE  LogInv' /\ PubInv'
<1>1. LogInv'
  BY LogStutter DEF Finalize
<1>2. Len(chain) \in Nat /\ finalized \in 0 .. Len(chain)
  BY SequenceFacts DEF PubInv, ChainInv, SoundChain
<1>3. /\ finalized' = finalized + 1 /\ finalized' \in 0 .. Len(chain)
      /\ UNCHANGED <<chain, forks, sent, session>>
  BY <1>2 DEF Finalize
<1>4. ChainInv'
  BY <1>3 DEF PubInv, ChainInv
<1>5. \A b : Canonical(b, chain, finalized) => Canonical(b, chain', finalized')
  BY <1>2, <1>3 DEF Canonical
<1> QED
  BY <1>1, <1>3, <1>4, <1>5, ChainFrame DEF PubInv, QuietBefore, Finalize

LEMMA ReorgStep ==
  ASSUME LogInv, PubInv, Reorg
  PROVE  LogInv' /\ PubInv'
<1>1. LogInv'
  BY LogStutter DEF Reorg
<1>2. /\ forks \in Nat /\ sent \in Nat /\ finalized \in 0 .. Len(chain)
      /\ SoundChain(chain, session, forks, sent)
      /\ IsSequence(chain) /\ Len(chain) \in Nat
  BY SequenceFacts DEF PubInv, ChainInv, SoundChain
<1>3. /\ chain' = SubSeq(chain, 1, finalized) /\ forks' = forks + 1
      /\ UNCHANGED <<logVars, prep, session, finalized, sent, run, files, receipts>>
  BY DEF Reorg
<1>4. /\ Len(chain') = finalized
      /\ \A i \in 1 .. finalized : i \in 1 .. Len(chain) /\ chain'[i] = chain[i]
  BY <1>2, <1>3, PrefixFacts
<1>5. SoundChain(chain', session, forks', sent)
  BY <1>2, <1>3, CutChain
<1>6. ChainInv'
  BY <1>2, <1>3, <1>4, <1>5 DEF ChainInv
<1>7. \A b : Canonical(b, chain, finalized) => Canonical(b, chain', finalized')
  BY <1>3, <1>4 DEF Canonical
<1>8. ASSUME NEW x, Seen(x, chain, forks)
      PROVE  Seen(x, chain', forks')
  <2>1. x.number \in Nat \ {0} /\ x.fork \in 0 .. forks' /\ x.fork < forks'
    BY <1>2, <1>3, <1>8 DEF Seen
  <2>2. x.number <= Len(chain') => x.number <= Len(chain) /\ chain'[x.number] = chain[x.number]
    BY <1>2, <1>4, <2>1
  <2> QED
    BY <1>8, <2>1, <2>2 DEF Seen
<1>9. session = NoSession => \A i \in 1 .. Len(chain') : Pristine(chain'[i].registry)
  BY <1>4 DEF PubInv, QuietBefore
<1> QED
  BY <1>1, <1>3, <1>6, <1>7, <1>8, <1>9, ChainFrame

-----------------------------------------------------------------------------
(* Steps of a run *)

(* A run moves, the chain does not; what it broadcasts, retains or records
   fits what was there. *)
LEMMA RunFrame ==
  ASSUME LogInv, PubInv, NEW r \in Runs, NEW b,
         run' = [run EXCEPT ![r] = b], IsRun(b),
         RunFits(b, chain, finalized, forks, sent'),
         UNCHANGED <<logVars, prep, session, chain, finalized, forks>>,
         session # NoSession,
         sent' = sent \/ sent' = sent + 1,
         files' = [tx |-> files'.tx, published |-> files'.published,
                   evidence |-> files'.evidence],
         files'.tx \in 0 .. sent',
         \A x \in receipts' : x \in receipts \/ ReceiptFits(x, chain, finalized, session)
  PROVE  LogInv' /\ PubInv'
<1>1. LogInv'
  BY LogStutter
<1>2. SessionInv'
  BY DEF PubInv, SessionInv, SessionBatches, logVars
<1>3. QuietBefore'
  BY DEF QuietBefore
<1>4. sent \in Nat /\ sent' \in Nat /\ sent <= sent'
  BY DEF PubInv, ChainInv
<1>5. SoundChain(chain, session, forks, sent')
  BY <1>4 DEF PubInv, ChainInv, SoundChain
<1>6. ChainInv'
  BY <1>4, <1>5 DEF PubInv, ChainInv
<1>7. \A q \in Runs : RunFits(run[q], chain, finalized, forks, sent')
  BY <1>4 DEF PubInv, RunsInv, RunFits
<1>8. \A q \in Runs : run'[q] = IF q = r THEN b ELSE run[q]
  BY DEF PubInv, RunsInv
<1>9. run' = [q \in Runs |-> run'[q]]
  BY DEF PubInv, RunsInv
<1>10. RunsInv'
  BY <1>7, <1>8, <1>9 DEF PubInv, RunsInv
<1>11. ReceiptsInv'
  BY DEF PubInv, ReceiptsInv
<1> QED
  BY <1>1, <1>2, <1>3, <1>6, <1>10, <1>11 DEF PubInv

(* A run whose only change is its place in the command. *)
LEMMA StepFacts ==
  ASSUME PubInv, NEW r \in Runs, NEW from, NEW to, Step(r, from, to)
  PROVE  LET b == [run[r] EXCEPT !.pc = to]
         IN  /\ run[r].pc = from /\ run' = [run EXCEPT ![r] = b]
             /\ IsRun(b) /\ b.pc = to /\ b.tx = run[r].tx
             /\ b.number = run[r].number /\ b.fork = run[r].fork
<1>1. IsRun(run[r])
  BY DEF PubInv, RunsInv
<1> DEFINE b == [run[r] EXCEPT !.pc = to]
<1>2. /\ IsRun(b) /\ b.pc = to /\ b.tx = run[r].tx
      /\ b.number = run[r].number /\ b.fork = run[r].fork
  BY <1>1 DEF IsRun
<1>3. run[r].pc = from /\ run' = [run EXCEPT ![r] = b]
  BY DEF Step
<1> QED
  BY <1>2, <1>3

LEMMA RunTyped ==
  ASSUME PubInv, NEW r \in Runs
  PROVE  /\ RunFits(run[r], chain, finalized, forks, sent)
         /\ sent \in Nat /\ run[r].tx \in Nat
         /\ run[r].pc \notin Idle => session # NoSession
         /\ files = [tx |-> files.tx, published |-> files.published,
                     evidence |-> files.evidence]
         /\ files.tx \in 0 .. sent
<1>1. sent \in Nat /\ RunFits(run[r], chain, finalized, forks, sent)
  BY DEF PubInv, ChainInv, RunsInv
<1> QED
  BY <1>1 DEF PubInv, RunsInv, RunFits, QuietBefore

(* The run has ended, or was never made. *)
LEMMA RestingFits ==
  /\ IsRun(Resting)
  /\ \A n \in Nat : RunFits(Resting, chain, finalized, forks, n)
BY DEF IsRun, RunFits, Resting, RunPhase, Idle, Confirming

RestartedAt(phase, tx) == [Resting EXCEPT !.pc = phase, !.tx = tx]

FinalizedAt(b, phase, number, fork) ==
  [b EXCEPT !.pc = phase, !.number = number, !.fork = fork]

LEMMA RestartedRun ==
  ASSUME NEW phase, NEW tx
  PROVE  /\ IsRun(RestartedAt(phase, tx))
         /\ RestartedAt(phase, tx).pc = phase /\ RestartedAt(phase, tx).tx = tx
<1> DEFINE b == RestartedAt(phase, tx)
           a == [Resting EXCEPT !.pc = phase]
<1>1. a = [pc |-> phase, tx |-> 0, number |-> 0, fork |-> 0]
  BY DEF Resting
<1>2. b = [a EXCEPT !.tx = tx]
  BY DEF RestartedAt
<1> HIDE DEF a, b
<1>3. b = [pc |-> phase, tx |-> tx, number |-> 0, fork |-> 0]
  BY <1>1, <1>2
<1>4. IsRun(b) /\ b.pc = phase /\ b.tx = tx
  BY <1>3 DEF IsRun
<1> QED
  BY <1>4 DEF b

LEMMA ConfirmedRun ==
  ASSUME NEW b, IsRun(b), NEW phase, NEW number, NEW fork
  PROVE  LET d == FinalizedAt(b, phase, number, fork)
         IN  /\ IsRun(d) /\ d.pc = phase /\ d.tx = b.tx
             /\ d.number = number /\ d.fork = fork
<1> DEFINE d == FinalizedAt(b, phase, number, fork)
           a == [b EXCEPT !.pc = phase]
           c == [a EXCEPT !.number = number]
<1>1. d = [c EXCEPT !.fork = fork]
  BY DEF FinalizedAt
<1> HIDE DEF d
<1>2. IsRun(a) /\ a.pc = phase /\ a.tx = b.tx
  BY DEF IsRun
<1> HIDE DEF a
<1>3. IsRun(c) /\ c.pc = phase /\ c.tx = b.tx /\ c.number = number
  BY <1>2 DEF IsRun
<1> HIDE DEF c
<1>4. /\ IsRun(d) /\ d.pc = phase /\ d.tx = b.tx
      /\ d.number = number /\ d.fork = fork
  BY <1>3, <1>1 DEF IsRun
<1> QED
  BY <1>4 DEF d

LEMMA StartRunStep ==
  ASSUME LogInv, PubInv, NEW r \in Runs, StartRun(r)
  PROVE  LogInv' /\ PubInv'
<1> DEFINE phase == IF files.tx = 0 THEN "check" ELSE "await"
           b == [Resting EXCEPT !.pc = phase, !.tx = files.tx]
<1>1. run' = [run EXCEPT ![r] = b] /\ session # NoSession
  BY DEF StartRun
<1>2. b = RestartedAt(phase, files.tx)
  BY DEF RestartedAt
<1> HIDE DEF b
<1>3. IsRun(b) /\ b.tx = files.tx /\ b.pc = phase
  BY <1>2, RestartedRun
<1>4. sent \in Nat /\ files.tx \in 0 .. sent
  BY RunTyped
<1>5. RunFits(b, chain, finalized, forks, sent)
  BY <1>3, <1>4 DEF RunFits, RunPhase, Confirming
<1> QED
  BY <1>1, <1>3, <1>5, RunTyped, RunFrame DEF StartRun, Unchanged

LEMMA CheckHeadStep ==
  ASSUME LogInv, PubInv, NEW r \in Runs, CheckHead(r)
  PROVE  LogInv' /\ PubInv'
<1> DEFINE to == IF Publisher \in Latest.publishers /\ Latest.last = 0 THEN "send" ELSE "off"
           b == [run[r] EXCEPT !.pc = to]
<1>1. Step(r, "check", to) /\ to \in {"send", "off"}
  BY DEF CheckHead
<1> HIDE DEF to
<1>2. /\ run[r].pc = "check" /\ run' = [run EXCEPT ![r] = b]
      /\ IsRun(b) /\ b.pc = to /\ b.tx = run[r].tx
  BY <1>1, StepFacts
<1> HIDE DEF b
<1>3. RunFits(b, chain, finalized, forks, sent)
  BY <1>1, <1>2, RunTyped DEF RunFits, RunPhase, Idle, Confirming
<1>4. session # NoSession
  BY <1>2, RunTyped DEF Idle
<1> QED
  BY <1>2, <1>3, <1>4, RunTyped, RunFrame DEF CheckHead, Unchanged

LEMMA BroadcastStep ==
  ASSUME LogInv, PubInv, NEW r \in Runs, Broadcast(r)
  PROVE  LogInv' /\ PubInv'
<1>1. run[r].pc = "send" /\ session # NoSession
  BY RunTyped DEF Broadcast, Idle
<1>2. CASE Simulates
  <2> DEFINE b == [Resting EXCEPT !.pc = "retain", !.tx = sent + 1]
  <2>1. run' = [run EXCEPT ![r] = b] /\ sent' = sent + 1
    BY <1>2 DEF Broadcast
  <2>2. b = RestartedAt("retain", sent + 1)
    BY DEF RestartedAt
  <2> HIDE DEF b
  <2>3. IsRun(b) /\ b.pc = "retain" /\ b.tx = sent + 1
    BY <2>2, RestartedRun
  <2>4. sent \in Nat /\ files.tx \in 0 .. sent'
    BY <2>1, RunTyped
  <2>5. RunFits(b, chain, finalized, forks, sent')
    BY <2>1, <2>3, <2>4 DEF RunFits, RunPhase, Confirming
  <2> QED
    BY <1>1, <2>1, <2>3, <2>4, <2>5, RunTyped, RunFrame DEF Broadcast, Unchanged
<1>3. CASE ~Simulates
  <2>1. run' = [run EXCEPT ![r] = Resting] /\ sent' = sent
    BY <1>3 DEF Broadcast
  <2> QED
    BY <1>1, <2>1, RestingFits, RunTyped, RunFrame DEF Broadcast, Unchanged
<1> QED
  BY <1>2, <1>3

LEMMA RetainStep ==
  ASSUME LogInv, PubInv, NEW r \in Runs, Retain(r)
  PROVE  LogInv' /\ PubInv'
<1> DEFINE to == IF files.tx = 0 THEN "await" ELSE "off"
           b == [run[r] EXCEPT !.pc = to]
<1>1. Step(r, "retain", to) /\ to \in {"await", "off"}
  BY DEF Retain
<1> HIDE DEF to
<1>2. /\ run[r].pc = "retain" /\ run' = [run EXCEPT ![r] = b]
      /\ IsRun(b) /\ b.pc = to /\ b.tx = run[r].tx
  BY <1>1, StepFacts
<1> HIDE DEF b
<1>3. RunFits(b, chain, finalized, forks, sent)
  BY <1>1, <1>2, RunTyped DEF RunFits, RunPhase, Idle, Confirming
<1>4. session # NoSession
  BY <1>2, RunTyped DEF Idle
<1>5. /\ files' = [tx |-> files'.tx, published |-> files'.published,
                   evidence |-> files'.evidence]
      /\ files'.tx \in 0 .. sent
  <2>1. CASE files.tx = 0
    <3>1. files' = [files EXCEPT !.tx = run[r].tx]
      BY <2>1 DEF Retain
    <3>2. run[r].tx \in 0 .. sent
      BY RunTyped DEF RunFits
    <3> QED
      BY <3>1, <3>2, RunTyped
  <2>2. CASE files.tx # 0
    BY <2>2, RunTyped DEF Retain
  <2> QED
    BY <2>1, <2>2
<1> QED
  BY <1>2, <1>3, <1>4, <1>5, RunFrame DEF Retain, Unchanged

LEMMA AwaitReceiptStep ==
  ASSUME LogInv, PubInv, NEW r \in Runs, AwaitReceipt(r)
  PROVE  LogInv' /\ PubInv'
<1>1. run[r].pc = "await" /\ session # NoSession
  BY RunTyped DEF AwaitReceipt, Idle
<1>2. PICK n \in DOMAIN chain :
        /\ chain[n].tx = run[r].tx
        /\ run' = [run EXCEPT ![r] = IF chain[n].ok
                THEN [run[r] EXCEPT !.pc = "final", !.number = n, !.fork = chain[n].fork]
                ELSE Resting]
  BY DEF AwaitReceipt, PubInv, RunsInv
<1>3. n \in 1 .. Len(chain) /\ Len(chain) \in Nat
  BY SequenceFacts DEF PubInv, ChainInv, SoundChain
<1>4. chain[n].fork \in 0 .. forks
  BY <1>3 DEF PubInv, ChainInv, SoundChain
<1>5. CASE chain[n].ok
  <2> DEFINE b == [run[r] EXCEPT !.pc = "final", !.number = n, !.fork = chain[n].fork]
  <2>1. run' = [run EXCEPT ![r] = b]
    BY <1>2, <1>5
  <2>2. IsRun(run[r])
    BY DEF PubInv, RunsInv
  <2>3. b = FinalizedAt(run[r], "final", n, chain[n].fork)
    BY DEF FinalizedAt
  <2> HIDE DEF b
  <2>4. /\ IsRun(b) /\ b.pc = "final" /\ b.tx = run[r].tx
        /\ b.number = n /\ b.fork = chain[n].fork
    BY <2>2, <2>3, ConfirmedRun
  <2>5. Seen(b, chain, forks)
    BY <1>2, <1>3, <1>4, <1>5, <2>4 DEF Seen
  <2>6. RunFits(b, chain, finalized, forks, sent)
    BY <1>1, <2>4, <2>5, RunTyped DEF RunFits, RunPhase, Confirming
  <2> QED
    BY <1>1, <2>1, <2>4, <2>6, RunTyped, RunFrame DEF AwaitReceipt, Unchanged
<1>6. CASE ~chain[n].ok
  <2>1. run' = [run EXCEPT ![r] = Resting]
    BY <1>2, <1>6
  <2> QED
    BY <1>1, <2>1, RestingFits, RunTyped, RunFrame DEF AwaitReceipt, Unchanged
<1> QED
  BY <1>5, <1>6

(* A final block that is still the block of its number is canonical for good. *)
LEMMA CheckFinalStep ==
  ASSUME LogInv, PubInv, NEW r \in Runs, CheckFinal(r)
  PROVE  LogInv' /\ PubInv'
<1> DEFINE to == IF FinalBlock(r) /\ FinalHead THEN "write" ELSE "off"
           b == [run[r] EXCEPT !.pc = to]
<1>1. Step(r, "final", to) /\ (to = "off" \/ (to = "write" /\ FinalBlock(r)))
  BY DEF CheckFinal
<1> HIDE DEF to
<1>2. /\ run[r].pc = "final" /\ run' = [run EXCEPT ![r] = b]
      /\ IsRun(b) /\ b.pc = to /\ b.tx = run[r].tx
      /\ b.number = run[r].number /\ b.fork = run[r].fork
  BY <1>1, StepFacts
<1> HIDE DEF b
<1>3. Seen(run[r], chain, forks) /\ run[r].tx # 0 /\ run[r].tx \in 0 .. sent
  BY <1>2, RunTyped DEF RunFits
<1>4. finalized \in 0 .. Len(chain) /\ Len(chain) \in Nat
  BY SequenceFacts DEF PubInv, ChainInv, SoundChain
<1>5. to = "write" => Canonical(b, chain, finalized)
  BY <1>1, <1>2, <1>3, <1>4 DEF Seen, Canonical, FinalBlock
<1>6. RunFits(b, chain, finalized, forks, sent)
  BY <1>1, <1>2, <1>3, <1>5 DEF RunFits, RunPhase, Idle, Confirming
<1>7. session # NoSession
  BY <1>2, RunTyped DEF Idle
<1> QED
  BY <1>2, <1>6, <1>7, RunTyped, RunFrame DEF CheckFinal, Unchanged

(* From there a run stays with its block until it ends. *)
LEMMA ConfirmingStep ==
  ASSUME LogInv, PubInv, NEW r \in Runs, NEW from \in Confirming,
         NEW to \in Confirming \cup {"off"}, Step(r, from, to), Unchanged, sent' = sent,
         files' = [tx |-> files'.tx, published |-> files'.published,
                   evidence |-> files'.evidence],
         files'.tx = files.tx,
         receipts' = receipts \/ receipts' = receipts \cup {Receipt(r)}
  PROVE  LogInv' /\ PubInv'
<1> DEFINE b == [run[r] EXCEPT !.pc = to]
<1>1. /\ run[r].pc = from /\ run' = [run EXCEPT ![r] = b]
      /\ IsRun(b) /\ b.pc = to /\ b.tx = run[r].tx
      /\ b.number = run[r].number /\ b.fork = run[r].fork
  BY StepFacts
<1> HIDE DEF b
<1>2. Canonical(run[r], chain, finalized)
  BY <1>1, RunTyped DEF RunFits
<1>3. Canonical(b, chain, finalized)
  BY <1>1, <1>2 DEF Canonical
<1>4. RunFits(b, chain, finalized, forks, sent)
  BY <1>1, <1>3, RunTyped DEF RunFits, RunPhase, Idle, Confirming
<1>5. session # NoSession
  BY <1>1, RunTyped DEF Idle, Confirming
<1>6. ReceiptFits(Receipt(r), chain, finalized, session)
  <2>1. /\ Receipt(r).number = run[r].number /\ Receipt(r).tx = run[r].tx
        /\ Receipt(r).fork = run[r].fork
    BY DEF Receipt
  <2>2. Canonical(Receipt(r), chain, finalized)
    BY <1>2, <2>1 DEF Canonical
  <2> QED
    BY <2>1, <2>2 DEF ReceiptFits, Receipt
<1>7. \A x \in receipts' : x \in receipts \/ ReceiptFits(x, chain, finalized, session)
  BY <1>6
<1> QED
  BY <1>1, <1>4, <1>5, <1>7, RunTyped, RunFrame DEF Unchanged

LEMMA ConfirmStep ==
  ASSUME LogInv, PubInv, NEW r \in Runs,
         \/ WritePublished(r) \/ WriteEvidence(r) \/ CompareEvidence(r)
         \/ FindConfirmed(r) \/ InsertReceipt(r) \/ EndRun(r)
  PROVE  LogInv' /\ PubInv'
<1>1. files = [tx |-> files.tx, published |-> files.published, evidence |-> files.evidence]
  BY RunTyped
<1>2. CASE WritePublished(r)
  <2> DEFINE to == IF files.published = NoReceipt THEN "evidence"
                   ELSE IF files.published = Receipt(r) THEN "compare" ELSE "off"
  <2>1. Step(r, "write", to) /\ to \in {"evidence", "compare", "off"}
    BY <1>2 DEF WritePublished
  <2> HIDE DEF to
  <2>2. files' = files \/ files' = [files EXCEPT !.published = Receipt(r)]
    BY <1>2 DEF WritePublished
  <2>3. /\ files' = [tx |-> files'.tx, published |-> files'.published,
                     evidence |-> files'.evidence]
        /\ files'.tx = files.tx
    BY <1>1, <2>2
  <2> QED
    BY <1>2, <2>1, <2>3, ConfirmingStep DEF WritePublished, Confirming
<1>3. CASE WriteEvidence(r)
  <2>1. files' = [files EXCEPT !.evidence = Receipt(r)]
    BY <1>3 DEF WriteEvidence
  <2>2. /\ files' = [tx |-> files'.tx, published |-> files'.published,
                     evidence |-> files'.evidence]
        /\ files'.tx = files.tx
    BY <1>1, <2>1
  <2> QED
    BY <1>3, <2>2, ConfirmingStep DEF WriteEvidence, Confirming
<1>4. CASE CompareEvidence(r)
  <2> DEFINE to == IF files.evidence = Receipt(r) THEN "record" ELSE "off"
  <2>1. Step(r, "compare", to) /\ to \in {"record", "off"}
    BY <1>4 DEF CompareEvidence
  <2> HIDE DEF to
  <2> QED
    BY <1>1, <1>4, <2>1, ConfirmingStep DEF CompareEvidence, Confirming
<1>5. CASE FindConfirmed(r)
  <2> DEFINE to == IF ~BatchStored(r) THEN "off"
                   ELSE IF Confirmed = {} THEN "insert"
                   ELSE IF Receipt(r) \in Confirmed THEN "save" ELSE "off"
  <2>1. Step(r, "record", to) /\ to \in {"insert", "save", "off"}
    BY <1>5 DEF FindConfirmed
  <2> HIDE DEF to
  <2> QED
    BY <1>1, <1>5, <2>1, ConfirmingStep DEF FindConfirmed, Confirming
<1>6. CASE InsertReceipt(r)
  <2> DEFINE present == \E x \in receipts : x.tx = run[r].tx
             clash == \E x \in receipts : x.number = run[r].number /\ x.fork = run[r].fork
             to == IF clash /\ ~present THEN "off" ELSE "save"
  <2>1. /\ Step(r, "insert", to) /\ to \in {"save", "off"}
        /\ receipts' = receipts \/ receipts' = receipts \cup {Receipt(r)}
    BY <1>6 DEF InsertReceipt
  <2> HIDE DEF to
  <2> QED
    BY <1>1, <1>6, <2>1, ConfirmingStep DEF InsertReceipt, Confirming
<1>7. CASE EndRun(r)
  BY <1>1, <1>7, ConfirmingStep DEF EndRun, Confirming
<1> QED
  BY <1>2, <1>3, <1>4, <1>5, <1>6, <1>7

LEMMA CrashRunStep ==
  ASSUME LogInv, PubInv, NEW r \in Runs, CrashRun(r)
  PROVE  LogInv' /\ PubInv'
<1>1. run' = [run EXCEPT ![r] = Resting] /\ session # NoSession
  BY RunTyped DEF CrashRun, Idle
<1> QED
  BY <1>1, RestingFits, RunTyped, RunFrame DEF CrashRun

-----------------------------------------------------------------------------
(* The inductive invariant *)

IInv == LogInv /\ PubInv /\ BatchInv

LEMMA IInvStep == IInv /\ [Next]_vars => IInv'
<1> SUFFICES ASSUME IInv, [Next]_vars PROVE IInv'
  OBVIOUS
<1> USE DEF IInv
<1>1. CASE LogNext /\ UNCHANGED pubVars
  BY <1>1, LogStep, LogNextStep, BatchesOfLog
<1>2. CASE ReadAuditEvents \/ CommitSession \/ SaveSession
  <2>1. LogInv' /\ PubInv'
    BY <1>2, ReadAuditEventsStep, CommitSessionStep, SaveSessionStep
  <2>2. CASE CommitSession
    BY <2>2, <2>1, SessionBatchStep
  <2>3. CASE ReadAuditEvents \/ SaveSession
    BY <2>1, <2>3, BatchInvStutter DEF ReadAuditEvents, SaveSession, logVars
  <2> QED
    BY <1>2, <2>2, <2>3
<1>3. CASE (\E tx \in 1 .. sent : Mine(tx)) \/ OwnerSetsPublisher \/ Finalize \/ Reorg
  <2>1. LogInv' /\ PubInv'
    BY <1>3, MineStep, OwnerStep, FinalizeStep, ReorgStep
  <2>2. BatchInv'
    BY <1>3, BatchInvStutter DEF Mine, OwnerSetsPublisher, Finalize, Reorg, logVars
  <2> QED
    BY <2>1, <2>2
<1>4. ASSUME NEW r \in Runs, RunStep(r) \/ CrashRun(r)
      PROVE  IInv'
  <2>1. LogInv' /\ PubInv'
    BY <1>4, StartRunStep, CheckHeadStep, BroadcastStep, RetainStep, AwaitReceiptStep,
       CheckFinalStep, ConfirmStep, CrashRunStep DEF RunStep
  <2>2. UNCHANGED <<audit, batches>>
    BY <1>4 DEF RunStep, StartRun, CheckHead, Broadcast, Retain, AwaitReceipt,
       CheckFinal, WritePublished, WriteEvidence, CompareEvidence, FindConfirmed,
       InsertReceipt, EndRun, CrashRun, Unchanged, logVars
  <2> QED
    BY <2>1, <2>2, BatchInvStutter
<1>5. CASE ExportEvents \/ SaveExport \/ UNCHANGED vars
  <2>1. /\ UNCHANGED logVars
        /\ UNCHANGED <<prep, session, chain, finalized, forks, sent, run, files, receipts>>
    BY <1>5 DEF ExportEvents, SaveExport, vars, pubVars
  <2>2. SessionInv'
    BY <2>1 DEF PubInv, SessionInv, SessionBatches, logVars
  <2> QED
    BY <2>1, <2>2, LogStutter, SessionFrame, BatchInvStutter DEF logVars
<1> QED
  BY <1>1, <1>2, <1>3, <1>4, <1>5 DEF Next

(* The log, the batches and the publication keep the promises they make each
   other, in every order of calls, runs, crashes and reorgs. *)
THEOREM Inductive == Spec => []IInv
<1>1. Init => IInv
  BY LogInvInit, PubInvInit, BatchInvInit DEF IInv, Init
<1> QED
  BY <1>1, IInvStep, PTL DEF Spec

(* The audit log of every experiment is an unbroken chain that holds every
   object once and every committed row, and no call loses its transaction to
   the primary key, whatever calls run together and wherever they die. *)
THEOREM LogVerifies == Spec => []ChainVerifies
<1>1. IInv => ChainVerifies
  BY LogInvVerifies DEF IInv
<1> QED
  BY <1>1, Inductive, PTL

(* The batches of every experiment partition an initial part of its log in
   order, and createBatch called again with a batch id rebuilds the batch it
   stored. *)
THEOREM BatchesAreRebuilt == Spec => []BatchesRebuild
<1>1. IInv => BatchesRebuild
  BY BatchInvRebuilds DEF IInv
<1> QED
  BY <1>1, Inductive, PTL

(* Every stored inclusion proof verifies, and only for the leaf it was built
   for, whatever the batches hold (buildBatch, verifyProof). *)
THEOREM ProofsAreBound == Spec => []ProofsBindLeaves
<1>1. IInv => ProofsBindLeaves
  BY LogBinds DEF IInv
<1> QED
  BY <1>1, Inductive, PTL

(* The order of the rows, beside the chain and the batches. *)
RowsInv ==
  /\ OrderInv /\ DraftsHeld
  /\ prep.pc \in {"idle", "read", "committed", "saved", "failed"}

LEMMA RowsInvStep == IInv /\ RowsInv /\ [Next]_vars => RowsInv'
<1> SUFFICES ASSUME IInv, RowsInv, [Next]_vars PROVE RowsInv'
  OBVIOUS
<1>1. LogNext \/ UNCHANGED <<pc, draft, insertion, rows, audit>>
  BY DEF Next, vars, logVars, ReadAuditEvents, CommitSession, CreateBatch, SaveSession,
     Mine, OwnerSetsPublisher, Finalize, Reorg, RunStep, StartRun, CheckHead, Broadcast,
     Retain, AwaitReceipt, CheckFinal, WritePublished, WriteEvidence, CompareEvidence,
     FindConfirmed, InsertReceipt, EndRun, CrashRun, ExportEvents, SaveExport, Unchanged
<1>2. OrderInv' /\ DraftsHeld'
  BY <1>1, OrderStep, DraftsHeldStep, RowsFrame DEF IInv, RowsInv
<1>3. \/ UNCHANGED prep
      \/ ReadAuditEvents \/ CommitSession \/ SaveSession
  BY DEF Next, vars, pubVars, Mine, OwnerSetsPublisher, Finalize, Reorg, RunStep,
     StartRun, CheckHead, Broadcast, Retain, AwaitReceipt, CheckFinal, WritePublished,
     WriteEvidence, CompareEvidence, FindConfirmed, InsertReceipt, EndRun, CrashRun,
     ExportEvents, SaveExport, Unchanged
<1>4. prep'.pc \in {"idle", "read", "committed", "saved", "failed"}
  <2>1. CASE ReadAuditEvents \/ CommitSession \/ SaveSession
    BY <2>1 DEF ReadAuditEvents, CommitSession, SaveSession, IInv, PubInv, SessionInv
  <2> QED
    BY <1>3, <2>1 DEF RowsInv
<1> QED
  BY <1>2, <1>4 DEF RowsInv

(* The insertions stay accounted for by rows and open transactions, and the
   demo script is where its reads have brought it. *)
THEOREM RowsInductive == Spec => [](IInv /\ RowsInv)
<1>1. Init => RowsInv
  BY OrderInvInit, DraftsHeldInit DEF Init, RowsInv
<1>2. IInv /\ RowsInv /\ [Next]_vars => RowsInv'
  BY RowsInvStep
<1> QED
  BY <1>1, <1>2, Inductive, PTL DEF Spec

(* A correction or a recovery is committed after the row it names, in the table
   and in the chain, and the dashboard never shows an evaluation that a
   committed correction supersedes, whatever calls run together and wherever
   they die (saveEligibility, recordIncident, dashboard). *)
THEOREM CorrectionsStayOrdered == Spec => []CorrectionsAreOrdered
<1>1. IInv /\ RowsInv => CorrectionsAreOrdered
  BY OrderInvCorrections DEF IInv, RowsInv
<1> QED
  BY <1>1, RowsInductive, PTL

(* The state is well typed; an object is inserted at most once among the calls
   that are under way or committed. *)
THEOREM TypesAreKept == Spec => []TypeOK
<1>1. IInv /\ RowsInv => TypeOK
  <2> SUFFICES ASSUME IInv, RowsInv PROVE TypeOK
    OBVIOUS
  <2>1. LogTypeOK
    BY LogTypes DEF IInv, RowsInv
  <2>2. finalized \in 0 .. Len(chain) /\ files.tx \in 0 .. sent
    BY DEF IInv, PubInv, ChainInv, RunsInv
  <2>3. \A r \in Runs : run[r].tx \in 0 .. sent
    BY DEF IInv, PubInv, RunsInv, RunFits
  <2> QED
    BY <2>1, <2>2, <2>3 DEF TypeOK, RowsInv
<1> QED
  BY <1>1, RowsInductive, PTL

(* On every branch of the chain the session's batch is anchored at most once,
   and it is the first batch of its experiment. *)
THEOREM BatchAnchoredOnce == Spec => []AnchoredOnce
<1>1. IInv => AnchoredOnce
  <2> SUFFICES ASSUME IInv, NEW n \in DOMAIN chain
               PROVE  /\ Len(chain[n].registry.batches) <= Len(batches[DemoExperiment])
                      /\ \A i \in DOMAIN chain[n].registry.batches :
                           chain[n].registry.batches[i]
                             = BatchHash(batches[DemoExperiment][i].batch)
    BY DEF AnchoredOnce
  <2> DEFINE g == chain[n].registry
  <2>1. n \in 1 .. Len(chain) /\ (Pristine(g) \/ Anchors(g, session))
    BY SequenceFacts DEF IInv, PubInv, ChainInv, SoundChain
  <2>2. Len(batches[DemoExperiment]) \in Nat
    BY DemoAssumption, SequenceFacts DEF IInv, LogInv, LogShape
  <2>3. CASE Pristine(g)
    <3>1. g.batches = << >>
      BY <2>3 DEF Pristine
    <3> QED
      BY <2>2, <3>1
  <2>4. CASE Anchors(g, session) /\ ~Pristine(g)
    <3>1. session # NoSession
      BY <2>1, <2>4 DEF IInv, PubInv, QuietBefore
    <3>2. /\ 1 \in 1 .. Len(batches[DemoExperiment])
          /\ batches[DemoExperiment][1].batch = session
      BY <3>1 DEF IInv, PubInv, SessionInv
    <3>3. g.batches = << BatchHash(session) >>
      BY <2>4 DEF Anchors
    <3> QED
      BY <2>2, <3>2, <3>3
  <2> QED
    BY <2>1, <2>3, <2>4
<1> QED
  BY <1>1, Inductive, PTL

LEMMA IInvCanonical == IInv => RecordedIsCanonical /\ \A x, y \in receipts : x = y
<1> SUFFICES ASSUME IInv PROVE RecordedIsCanonical /\ \A x, y \in receipts : x = y
  OBVIOUS
<1>1. /\ finalized \in 0 .. Len(chain) /\ Len(chain) \in Nat
      /\ SoundChain(chain, session, forks, sent)
  BY SequenceFacts DEF IInv, PubInv, ChainInv, SoundChain
<1>2. ASSUME NEW x \in receipts
      PROVE  /\ x.number \in 1 .. Len(chain) /\ x.number <= finalized
             /\ chain[x.number].fork = x.fork /\ chain[x.number].tx = x.tx
             /\ chain[x.number].tx # 0 /\ chain[x.number].ok
             /\ x.batchHash = BatchHash(session)
             /\ Anchors(chain[x.number].registry, session)
  <2>1. ReceiptFits(x, chain, finalized, session)
    BY DEF IInv, PubInv, ReceiptsInv
  <2>2. Canonical(x, chain, finalized) /\ x.batchHash = BatchHash(session)
    BY <2>1 DEF ReceiptFits
  <2>3. /\ x.number \in 1 .. Len(chain) /\ x.number <= finalized
        /\ chain[x.number].fork = x.fork /\ chain[x.number].tx = x.tx
        /\ chain[x.number].tx # 0 /\ chain[x.number].ok
    BY <1>1, <2>2 DEF Canonical
  <2> QED
    BY <1>1, <2>2, <2>3 DEF SoundChain
<1>3. ASSUME NEW x \in receipts, NEW y \in receipts PROVE x = y
  <2>1. x.number = y.number
    <3>1. ~(x.number < y.number) /\ ~(y.number < x.number)
      BY <1>1, <1>2, PristineOrAnchors DEF SoundChain
    <3> QED
      BY <1>1, <1>2, <3>1
  <2>2. x.tx = y.tx /\ x.fork = y.fork
    BY <1>2, <2>1
  <2> QED
    BY <2>1, <2>2 DEF IInv, PubInv, ReceiptsInv, ReceiptFits
<1>4. Cardinality(receipts) <= 1
  <2>1. CASE receipts = {}
    BY <2>1, FS_EmptySet
  <2>2. CASE receipts # {}
    <3>1. PICK x \in receipts : TRUE
      BY <2>2
    <3>2. receipts = {x}
      BY <1>3, <3>1
    <3>3. Cardinality({x}) = 1
      BY FS_Singleton
    <3> QED
      BY <3>2, <3>3
  <2> QED
    BY <2>1, <2>2
<1>5. \A x \in receipts : chain[x.number].registry.hash = x.batchHash
  BY <1>2 DEF Anchors
<1> QED
  BY <1>2, <1>3, <1>4, <1>5 DEF RecordedIsCanonical

(* A recorded publication is the one successful transaction that anchors the
   batch, in a block that is final, and a batch has at most one. *)
THEOREM RecordingIsCanonical == Spec => []RecordedIsCanonical
BY Inductive, IInvCanonical, PTL

-----------------------------------------------------------------------------
(* Exports *)

ExportInv ==
  /\ exporter \in 0 .. Len(audit[DemoExperiment])
  /\ \A x \in exports : /\ x.batches = 1 /\ receipts # {}
                        /\ x.events = batches[DemoExperiment][1].batch.last

(* What a saved export relies on never goes away. *)
LEMMA ExportKept ==
  ASSUME IInv, [Next]_vars
  PROVE  /\ Len(audit[DemoExperiment]) \in Nat /\ Len(audit'[DemoExperiment]) \in Nat
         /\ Len(audit[DemoExperiment]) <= Len(audit'[DemoExperiment])
         /\ receipts \subseteq receipts'
         /\ receipts # {} => batches'[DemoExperiment][1] = batches[DemoExperiment][1]
<1> DEFINE e == DemoExperiment
<1>1. receipts \subseteq receipts'
  <2>1. ASSUME NEW r \in Runs, InsertReceipt(r) PROVE receipts \subseteq receipts'
    BY <2>1 DEF InsertReceipt
  <2> QED
    BY <2>1 DEF Next, vars, pubVars, ReadAuditEvents, CommitSession, SaveSession, Mine,
       OwnerSetsPublisher, Finalize, Reorg, RunStep, StartRun, CheckHead, Broadcast,
       Retain, AwaitReceipt, CheckFinal, WritePublished, WriteEvidence,
       CompareEvidence, FindConfirmed, EndRun, CrashRun, ExportEvents, SaveExport
<1>2. LogNext \/ (\E q : CreateBatch(q)) \/ UNCHANGED logVars
  BY DEF Next, vars, ReadAuditEvents, CommitSession, SaveSession, Mine,
     OwnerSetsPublisher, Finalize, Reorg, RunStep, StartRun, CheckHead, Broadcast,
     Retain, AwaitReceipt, CheckFinal, WritePublished, WriteEvidence, CompareEvidence,
     FindConfirmed, InsertReceipt, EndRun, CrashRun, ExportEvents, SaveExport, Unchanged
<1>3. receipts # {} => 1 \in 1 .. Len(batches[e])
  BY DEF IInv, PubInv, QuietBefore, SessionInv
<1>4. CASE LogNext \/ \E q : CreateBatch(q)
  BY <1>1, <1>3, <1>4, DemoAssumption, LogGrows DEF IInv
<1>5. CASE UNCHANGED logVars
  <2>1. Len(audit[e]) \in Nat
    BY DemoAssumption, SequenceFacts DEF IInv, LogInv, LogShape, Unbroken
  <2> QED
    BY <1>1, <1>5, <2>1 DEF logVars
<1> QED
  BY <1>2, <1>4, <1>5

(* A bundle that verifies has as many receipts as batches, which is one. *)
LEMMA VerifiedBundle ==
  ASSUME IInv, NEW n \in 1 .. Len(audit[DemoExperiment]), NEW m, NEW k,
         m = Len(batches[DemoExperiment]), VerifyExport(Bundle(n, m, k))
  PROVE  m = 1 /\ receipts # {} /\ n = batches[DemoExperiment][1].batch.last
<1> DEFINE e == DemoExperiment
           log == audit[e]
           events == SubSeq(log, 1, n)
           stored == SubSeq(batches[e], 1, m)
           list == [i \in 1 .. m |-> stored[i].batch]
           bundle == Bundle(n, m, k)
<1>1. bundle.events = events /\ bundle.batches = list /\ bundle.receipts = receipts
  BY DEF Bundle
<1> HIDE DEF bundle, list, events
<1>2. /\ list # << >> /\ Cardinality(receipts) = Len(list)
      /\ list[Len(list)].last = events[Len(events)].sequence
  BY <1>1 DEF VerifyExport, bundle
<1>3. /\ Unbroken(e, log) /\ IsSequence(log) /\ Len(log) \in Nat
      /\ IsSequence(batches[e]) /\ m \in Nat
  BY DemoAssumption, SequenceFacts DEF IInv, LogInv, LogShape, Unbroken
<1>4. Len(list) = m
  BY <1>3 DEF list
<1>5. Cardinality(receipts) <= 1
  BY IInvCanonical DEF RecordedIsCanonical
<1>6. m # 0
  <2> SUFFICES ASSUME m = 0 PROVE FALSE
    OBVIOUS
  <2>1. list = << >>
    BY DEF list
  <2> QED
    BY <1>2, <2>1
<1>7. m = 1
  <2>1. Cardinality(receipts) = m
    BY <1>2, <1>4
  <2>2. m <= 1
    BY <1>5, <2>1
  <2>3. m \in Nat
    BY <1>3
  <2>4. \A i \in Nat : i <= 1 /\ i # 0 => i = 1
    OBVIOUS
  <2> QED
    BY <1>6, <2>2, <2>3, <2>4
<1>8. receipts # {}
  <2>1. Cardinality(receipts) = 1
    BY <1>2, <1>4, <1>7
  <2>2. Cardinality({}) = 0
    BY FS_EmptySet
  <2> QED
    BY <2>1, <2>2
<1>9. list[1] = batches[e][1].batch
  <2>1. m \in 0 .. Len(batches[e])
    BY <1>3
  <2>2. stored[1] = batches[e][1]
    BY <1>3, <1>7, <2>1, PrefixFacts
  <2> QED
    BY <1>7, <2>2 DEF list
<1>10. events[Len(events)].sequence = n
  <2>1. /\ Len(events) = n /\ events[n] = log[n]
    BY <1>3, PrefixFacts DEF events
  <2> QED
    BY <1>3, <2>1 DEF Unbroken
<1> QED
  BY <1>2, <1>4, <1>7, <1>8, <1>9, <1>10

LEMMA ExportInvStep == IInv /\ ExportInv /\ [Next]_vars => ExportInv'
<1> SUFFICES ASSUME IInv, ExportInv, [Next]_vars PROVE ExportInv'
  OBVIOUS
<1> DEFINE log == audit[DemoExperiment]
<1>1. /\ Len(log) \in Nat /\ Len(log') \in Nat /\ Len(log) <= Len(log')
      /\ receipts \subseteq receipts'
      /\ receipts # {} => batches'[DemoExperiment][1] = batches[DemoExperiment][1]
  BY ExportKept
<1>2. \A x \in exports : /\ x.batches = 1 /\ receipts' # {}
                         /\ x.events = batches'[DemoExperiment][1].batch.last
  BY <1>1 DEF ExportInv
<1>3. CASE ExportEvents
  <2>1. exporter' = Len(log) /\ exports' = exports
    BY <1>3 DEF ExportEvents
  <2> QED
    BY <1>1, <1>2, <2>1 DEF ExportInv
<1>4. CASE SaveExport
  <2> DEFINE m == Len(batches[DemoExperiment])
  <2>1. PICK k \in 1 .. exporter :
          exports' = IF VerifyExport(Bundle(exporter, m, k))
                     THEN exports \cup {[events |-> exporter, batches |-> m]}
                     ELSE exports
    BY <1>4 DEF SaveExport
  <2>2. exporter' = 0 /\ UNCHANGED <<logVars, receipts>> /\ exporter > 0
    BY <1>4 DEF SaveExport
  <2>3. exporter \in 1 .. Len(log)
    BY <1>1, <2>2 DEF ExportInv
  <2>4. ASSUME VerifyExport(Bundle(exporter, m, k))
        PROVE  m = 1 /\ receipts # {}
               /\ exporter = batches[DemoExperiment][1].batch.last
    BY <2>3, <2>4, VerifiedBundle
  <2>5. ASSUME NEW x \in exports'
        PROVE  /\ x.batches = 1 /\ receipts' # {}
               /\ x.events = batches'[DemoExperiment][1].batch.last
    <3>1. CASE x \in exports
      BY <1>2, <3>1
    <3>2. CASE x \notin exports
      <4>1. /\ VerifyExport(Bundle(exporter, m, k))
            /\ x = [events |-> exporter, batches |-> m]
        BY <2>1, <2>5, <3>2
      <4>2. /\ m = 1 /\ receipts # {}
            /\ exporter = batches[DemoExperiment][1].batch.last
        BY <2>4, <4>1
      <4>3. x.batches = m /\ x.events = exporter
        BY <4>1
      <4>4. batches' = batches /\ receipts' = receipts
        BY <2>2 DEF logVars
      <4> QED
        BY <4>2, <4>3, <4>4
    <3> QED
      BY <3>1, <3>2
  <2> QED
    BY <1>1, <2>2, <2>5 DEF ExportInv
<1>5. CASE ~ExportEvents /\ ~SaveExport
  <2>1. UNCHANGED <<exporter, exports>>
    BY <1>5 DEF Next, vars, pubVars, ReadAuditEvents, CommitSession, SaveSession, Mine,
       OwnerSetsPublisher, Finalize, Reorg, RunStep, StartRun, CheckHead, Broadcast,
       Retain, AwaitReceipt, CheckFinal, WritePublished, WriteEvidence, CompareEvidence,
       FindConfirmed, InsertReceipt, EndRun, CrashRun, Unchanged
  <2> QED
    BY <1>1, <1>2, <2>1 DEF ExportInv
<1> QED
  BY <1>3, <1>4, <1>5

(* A saved export holds exactly the events that the recorded publication
   anchors, although its parts are read at different moments. *)
THEOREM SavedExportsAreComplete == Spec => []ExportsAreComplete
<1>1. Init => ExportInv
  BY DemoAssumption DEF Init, LogInit, ExportInv
<1>2. IInv /\ ExportInv => ExportsAreComplete
  <2> SUFFICES ASSUME IInv, ExportInv, NEW x \in exports
               PROVE  /\ x.batches = Cardinality(receipts)
                      /\ x.events = batches[DemoExperiment][x.batches].batch.last
                      /\ \A i \in 1 .. x.batches : \E r \in receipts :
                           r.batchHash = BatchHash(batches[DemoExperiment][i].batch)
    BY DEF ExportsAreComplete
  <2>1. /\ x.batches = 1 /\ x.events = batches[DemoExperiment][1].batch.last
    BY DEF ExportInv
  <2>2. PICK r \in receipts : TRUE
    BY DEF ExportInv
  <2>3. r.batchHash = BatchHash(session)
    BY DEF IInv, PubInv, ReceiptsInv, ReceiptFits
  <2>4. session = batches[DemoExperiment][1].batch
    BY <2>2 DEF IInv, PubInv, QuietBefore, SessionInv
  <2>5. Cardinality(receipts) = 1
    <3>1. receipts = {r}
      BY <2>2, IInvCanonical
    <3>2. Cardinality({r}) = 1
      BY FS_Singleton
    <3> QED
      BY <3>1, <3>2
  <2> QED
    BY <2>1, <2>3, <2>4, <2>5
<1> QED
  BY <1>1, <1>2, Inductive, ExportInvStep, PTL DEF Spec
=============================================================================
