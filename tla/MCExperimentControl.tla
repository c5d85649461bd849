------------------------- MODULE MCExperimentControl -------------------------
(* Small instances of the calls on experiments. *)
EXTENDS ExperimentControl

CONSTANTS e1, e2, e3, agentA, agentB, vA, vB, forward, s1,
          keyA, keyB, i1, i2, i3, i4, i5, i6, i7, i8

MCAgent == e1 :> agentA @@ e2 :> agentA @@ e3 :> agentB
MCVersion == e1 :> vA @@ e2 :> vA @@ e3 :> vB
MCProfile == [e \in {e1, e2, e3} |-> forward]

Call(id, kind, e) == [id |-> id, kind |-> kind, experiment |-> e, scenario |-> s1]
On(id, kind, key) == Call(id, kind, e1) @@ [key |-> key]
Acceptance(id, key, expected) == On(id, "ACCEPT", key) @@ [expected |-> expected]
Entry(id, outcome) == Call(id, "ENTRY", e1) @@ [outcome |-> outcome]

\* Two experiments of one agent and one of another start at once, the first
\* one registered and created beside the starts.
Starts == {Call(i1, "REGISTER", e1), Call(i2, "CREATE", e1), Call(i3, "START", e1),
           Call(i4, "START", e2), Call(i5, "START", e3), Call(i6, "STOP", e3)}

\* An envelope delivered twice, another one, a revocation and a correction.
Intake == {Call(i1, "START", e1), Acceptance(i2, keyA, 0), Acceptance(i3, keyA, 0),
           Acceptance(i4, keyB, 0), Call(i5, "REVOKE", e1), Call(i6, "CORRECT", e1)}

\* The receipt of an action, its end, and a checkpoint.
Receipts == {Call(i1, "START", e1), Acceptance(i2, keyA, 0), On(i3, "APPLY", keyA),
             On(i4, "APPLY", keyA), On(i5, "COMPLETE", keyA), Call(i6, "CHECKPOINT", e1)}

\* Entries of a reference portfolio with two outcomes and two checkpoints.
Entries == {Call(i1, "START", e1), Entry(i2, "ACTIVE"), Entry(i3, "ENTRY_FAILED"),
            Call(i4, "CHECKPOINT", e1), Call(i5, "CHECKPOINT", e1)}

\* Whatever holds the experiment row against whatever needs it last.
Locks == {Call(i1, "START", e1), Call(i2, "CORRECT", e1), Call(i4, "CHECKPOINT", e1),
          Call(i5, "STOP", e1), Call(i6, "AUDIT", e1), Acceptance(i7, keyA, 0),
          On(i8, "COMPLETE", keyA)}

\* Corrections that need all connections of the pool, and what they stop.
Corrections == {Call(i1, "START", e1), Call(i2, "CORRECT", e1), Call(i3, "CORRECT", e1),
                Call(i6, "CORRECT", e1), Call(i4, "CHECKPOINT", e1), Call(i5, "STOP", e1)}

MCWorkloads == {Starts, Intake, Receipts, Entries, Locks, Corrections}
MCCalls == UNION MCWorkloads
=============================================================================
