----------------------------- MODULE MCPipeline -----------------------------
(* TLC instances of Pipeline: two items, two contents, small documents.     *)
EXTENDS Pipeline, TLC

e(i, h, p) == [id |-> i, hash |-> h, pub |-> p]

\* An item appears, is edited, and a dated item is listed before an undated one.
MCBodies == {<<e("a", "v1", 0)>>,
             <<e("b", "v1", 2), e("a", "v2", 1)>>,
             <<e("b", "v1", 2), e("a", "v1", 0)>>}

\* One item, edited back and forth.
MCOneItem == {<<e("a", "v1", 0)>>, <<e("a", "v2", 0)>>}

Symmetry == Permutations(Inst)

\* All but the histories that neither a step nor CommittedWasDelivered reads.
WithoutHistories == <<origin, lease, storeVars, pc, jobVars, got, dlq, sweep, faults>>
=============================================================================
