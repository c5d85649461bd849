-------------------------- MODULE MerkleCommitment --------------------------
(***************************************************************************)
(* The pure functions of packages/commitments: the audit event chain, the  *)
(* leaves and nodes of a batch's Merkle tree, inclusion proofs, batches    *)
(* linked by their predecessor's hash, and the verification of exports.    *)
(*                                                                         *)
(* A hash is the tagged value it is computed from, which makes it free of  *)
(* collisions; the tag is the domain string the code prefixes, so that a   *)
(* leaf is never a node.  A leaf body repeats fields of its event next to  *)
(* the event's hash, so the event's hash alone stands for it.  Audit       *)
(* objects are opaque: an object is its type and content hash together.    *)
(***************************************************************************)
EXTENDS Integers, Sequences, FiniteSets

NoHash == << >>

EventHash(event) ==
    <<"event", <<event.experiment, event.sequence, event.object,
                 event.supersedes, event.previous>> >>

\* The hash an event appended to the log must name, and its sequence number.
HeadHash(log) == IF log = << >> THEN NoHash ELSE EventHash(log[Len(log)])
HeadSequence(log) == IF log = << >> THEN 0 ELSE log[Len(log)].sequence

\* A bug that forgets to link an event to the one before it.
UnlinkedMutant(experiment, object, supersedes, log) ==
    [experiment |-> experiment, sequence |-> HeadSequence(log) + 1,
     object |-> object, supersedes |-> supersedes, previous |-> NoHash]

CreateAuditEvent(experiment, object, supersedes, log) ==
    [experiment |-> experiment, sequence |-> HeadSequence(log) + 1,
     object |-> object, supersedes |-> supersedes, previous |-> HeadHash(log)]

AuditContinuous(events) ==
    \A i \in DOMAIN events :
        /\ events[i].sequence = i
        /\ events[i].previous = HeadHash(SubSeq(events, 1, i - 1))

LeafHash(event) == <<"leaf", EventHash(event)>>

CreateLeaf(event) == [sequence |-> event.sequence, object |-> event.object,
                      leafHash |-> LeafHash(event)]

NodeHash(left, right) == <<"node", <<left, right>> >>

-----------------------------------------------------------------------------
(* The tree: a level pairs the hashes of the one below, the odd last one   *)
(* with itself.                                                            *)

OrSelf(level, i, self) == IF i \in DOMAIN level THEN level[i] ELSE level[self]

NextLevel(level) ==
    [i \in 1 .. (Len(level) + 1) \div 2 |->
        NodeHash(level[2 * i - 1], OrSelf(level, 2 * i, 2 * i - 1))]

\* All levels of the tree, the leaves first and the root alone on the last one.
Levels(hashes) ==
    LET level[k \in 0 .. Len(hashes)] ==
            IF k = 0 THEN hashes ELSE NextLevel(level[k - 1])
        root == CHOOSE k \in 0 .. Len(hashes) :
                    /\ Len(level[k]) = 1
                    /\ \A j \in 0 .. k - 1 : Len(level[j]) > 1
    IN  [k \in 1 .. root + 1 |-> level[k - 1]]

RootOf(levels) == levels[Len(levels)][1]

MerkleRoot(hashes) == RootOf(Levels(hashes))

\* The position, from zero, of leaf index's ancestor on level k.
Ancestor(index, k) ==
    LET position[j \in 0 .. k] == IF j = 0 THEN index ELSE position[j - 1] \div 2
    IN  position[k]

\* A bug that hashes the sibling of a right child on the wrong side.
AlwaysRightMutant(level, position) ==
    [side |-> "RIGHT",
     hash |-> IF position % 2 = 0 THEN OrSelf(level, position + 2, position + 1)
                                  ELSE level[position]]

Sibling(level, position) ==
    IF position % 2 = 0
    THEN [side |-> "RIGHT", hash |-> OrSelf(level, position + 2, position + 1)]
    ELSE [side |-> "LEFT", hash |-> level[position]]

\* The proof of the leaf at an index, from zero, in the tree of those levels.
CreateProof(batchId, levels, index) ==
    [batchId |-> batchId, leafHash |-> levels[1][index + 1], leafIndex |-> index,
     leafCount |-> Len(levels[1]),
     siblings |-> [k \in 1 .. Len(levels) - 1 |->
                      Sibling(levels[k], Ancestor(index, k - 1))],
     root |-> RootOf(levels)]

VerifyProof(proof) ==
    LET value[k \in 0 .. Len(proof.siblings)] ==
            IF k = 0 THEN proof.leafHash
            ELSE LET s == proof.siblings[k]
                 IN  IF s.side = "LEFT" THEN NodeHash(s.hash, value[k - 1])
                                        ELSE NodeHash(value[k - 1], s.hash)
    IN  value[Len(proof.siblings)] = proof.root

-----------------------------------------------------------------------------
(* Batches.                                                                *)

BatchHash(batch) ==
    <<"batch", <<batch.experiment, batch.first, batch.last, batch.root,
                 batch.previous, batch.leavesHash>> >>

Batchable(experiment, events) ==
    /\ events # << >>
    /\ \A i \in DOMAIN events :
        /\ events[i].experiment = experiment
        /\ i > 1 => events[i].sequence = events[i - 1].sequence + 1

LeafHashes(leaves) == [i \in DOMAIN leaves |-> leaves[i].leafHash]

LeafSetHash(batchId, first, last, leaves) ==
    <<"leaves", <<batchId, first, last, leaves>> >>

BuildBatch(experiment, batchId, events, previous) ==
    LET leaves == [i \in DOMAIN events |-> CreateLeaf(events[i])]
        levels == Levels(LeafHashes(leaves))
        first  == events[1].sequence
        last   == events[Len(events)].sequence
    IN  [batch |-> [experiment |-> experiment, id |-> batchId, first |-> first,
                    last |-> last, root |-> RootOf(levels),
                    previous |-> previous,
                    leavesHash |-> LeafSetHash(batchId, first, last, leaves)],
         proofs |-> [i \in DOMAIN events |->
                        CreateProof(batchId, levels, i - 1)]]

BatchesContinuous(batches) ==
    \A i \in DOMAIN batches :
        /\ batches[i].experiment = batches[1].experiment
        /\ batches[i].first = IF i = 1 THEN 1 ELSE batches[i - 1].last + 1
        /\ batches[i].previous = IF i = 1 THEN NoHash
                                          ELSE BatchHash(batches[i - 1])

VerifyPublication(batch, receipt) ==
    /\ receipt.batchId = batch.id
    /\ receipt.batchHash = BatchHash(batch)
    /\ receipt.experiment = batch.experiment
    /\ receipt.status # "REORGED"

-----------------------------------------------------------------------------
(* An export: events, leaves, batches, proofs and registry receipts that   *)
(* must account for each other completely.  Engine versions, the list of   *)
(* required object types and the frozen hashes are left out: they compare  *)
(* constants of the bundle.                                                *)

LeavesOf(bundle, batch) ==
    SelectSeq(bundle.leaves, LAMBDA leaf : leaf.sequence \in batch.first .. batch.last)

BatchExported(bundle, batch) ==
    LET leaves   == LeavesOf(bundle, batch)
        proofs   == SelectSeq(bundle.proofs, LAMBDA p : p.batchId = batch.id)
        receipts == {r \in bundle.receipts : r.batchId = batch.id}
    IN  /\ Len(leaves) = batch.last - batch.first + 1
        /\ LeafSetHash(batch.id, batch.first, batch.last, leaves) = batch.leavesHash
        /\ MerkleRoot(LeafHashes(leaves)) = batch.root
        /\ Len(proofs) = Len(leaves)
        /\ \A i \in DOMAIN leaves :
            \E p \in DOMAIN proofs :
                /\ \A q \in DOMAIN proofs :
                        proofs[q].leafHash = leaves[i].leafHash <=> q = p
                /\ proofs[p].leafIndex = i - 1
                /\ proofs[p].leafCount = Len(leaves)
                /\ proofs[p].root = batch.root
                /\ VerifyProof(proofs[p])
        /\ Cardinality(receipts) = 1
        /\ \A r \in receipts : VerifyPublication(batch, r)

\* The result the export is about has an event, a leaf, a batch and a proof.
SelectedResult(bundle) ==
    LET selected == bundle.selected
    IN  /\ \E i \in DOMAIN bundle.events :
            /\ bundle.events[i].sequence = selected.sequence
            /\ bundle.events[i].object = selected.object
        /\ \E i \in DOMAIN bundle.leaves :
            /\ bundle.leaves[i].leafHash = selected.leafHash
            /\ bundle.leaves[i].object = selected.object
        /\ \E i \in DOMAIN bundle.batches, j \in DOMAIN bundle.proofs :
            /\ bundle.batches[i].id = selected.batchId
            /\ bundle.proofs[j].batchId = selected.batchId
            /\ bundle.proofs[j].leafHash = selected.leafHash
            /\ bundle.proofs[j].root = bundle.batches[i].root

\* A bug that forgets that the batches must reach the last event.
PartialExportMutant(bundle) ==
    /\ AuditContinuous(bundle.events)
    /\ Len(bundle.leaves) = Len(bundle.events)
    /\ BatchesContinuous(bundle.batches)
    /\ bundle.batches # << >>
    /\ \A i \in DOMAIN bundle.batches : BatchExported(bundle, bundle.batches[i])
    /\ Cardinality(bundle.receipts) = Len(bundle.batches)
    /\ SelectedResult(bundle)

VerifyExport(bundle) ==
    /\ AuditContinuous(bundle.events)
    /\ \A i \in DOMAIN bundle.events : bundle.events[i].object \in bundle.objects
    /\ Len(bundle.leaves) = Len(bundle.events)
    /\ \A i \in DOMAIN bundle.events : bundle.leaves[i] = CreateLeaf(bundle.events[i])
    /\ BatchesContinuous(bundle.batches)
    /\ bundle.batches # << >> /\ bundle.events # << >>
    /\ bundle.batches[Len(bundle.batches)].last
            = bundle.events[Len(bundle.events)].sequence
    /\ \A i \in DOMAIN bundle.batches : BatchExported(bundle, bundle.batches[i])
    /\ Cardinality(bundle.receipts) = Len(bundle.batches)
    /\ SelectedResult(bundle)
=============================================================================
