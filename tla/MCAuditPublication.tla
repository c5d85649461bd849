------------------------- MODULE MCAuditPublication -------------------------
(* Small instances of the audit trail and its publication. *)
EXTENDS AuditPublication

CONSTANTS c1, c2, c3, c4, e1, s1, evalA, evalB, object, demo, other, r1, r2

Call(id, kind, obj, parent) ==
    [id |-> id, kind |-> kind, experiment |-> e1, scenario |-> s1,
     object |-> obj, parent |-> parent]

\* An evaluation delivered twice, its correction, and an object.
MCCalls == {Call(c1, "EVALUATION", evalA, NoParent),
            Call(c2, "EVALUATION", evalA, NoParent),
            Call(c3, "EVALUATION", evalB, evalA),
            Call(c4, "OBJECT", object, NoParent)}
MCCorrection == {Call(c1, "EVALUATION", evalA, NoParent),
                 Call(c2, "EVALUATION", evalA, NoParent),
                 Call(c3, "EVALUATION", evalB, evalA)}
MCOneCall == {Call(c4, "OBJECT", object, NoParent)}

\* All calls without a run; one run beside the evaluation and its correction;
\* two runs that overlap beside a single call.
MCWorkloads == {[calls |-> MCCalls, runs |-> {}],
                [calls |-> MCCorrection, runs |-> {r1}],
                [calls |-> MCOneCall, runs |-> {r1, r2}]}
MCOneWorkload == {[calls |-> MCOneCall, runs |-> {r1}]}

\* The two deliveries of the evaluation are interchangeable.
MCSymmetry == Permutations({c1, c2})

MCBatchRequests == {[experiment |-> e1, id |-> demo, last |-> 1],
                    [experiment |-> e1, id |-> other, last |-> 2],
                    [experiment |-> e1, id |-> other, last |-> 3]}
MCNoRequests == {}
=============================================================================
