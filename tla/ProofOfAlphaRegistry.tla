------------------------ MODULE ProofOfAlphaRegistry ------------------------
(***************************************************************************)
(* The registry contract as pure functions of its state for one           *)
(* experiment: the head, the publishers and the batches it stored.  A call *)
(* that reverts leaves the state as it was.                                *)
(***************************************************************************)
EXTENDS MerkleCommitment

CONSTANTS Owner, Publisher

\* heads[experiment], isPublisher, and the hashes of batches[experiment].
DeployedRegistry ==
    [last |-> 0, count |-> 0, hash |-> NoHash,
     publishers |-> {Publisher}, batches |-> << >>]

SetPublisher(registry, sender, publisher, allowed) ==
    IF sender # Owner THEN registry
    ELSE [registry EXCEPT !.publishers =
            IF allowed THEN @ \cup {publisher} ELSE @ \ {publisher}]

\* A bug that leaves out the comparison with the head of the chain.
UnsequencedMutant(registry, sender, batch, claimed) ==
    /\ sender \in registry.publishers
    /\ batch.first > 0 /\ batch.first <= batch.last
    /\ claimed = BatchHash(batch)

PublicationAccepted(registry, sender, batch, claimed) ==
    /\ sender \in registry.publishers
    /\ batch.first > 0 /\ batch.first <= batch.last
    /\ batch.first = registry.last + 1
    /\ batch.previous = registry.hash
    /\ claimed = BatchHash(batch)

PublishBatch(registry, batch) ==
    [registry EXCEPT !.last = batch.last, !.count = @ + 1,
                     !.hash = BatchHash(batch),
                     !.batches = Append(@, BatchHash(batch))]
=============================================================================
