-------------------------- MODULE MCWorkflowQueue --------------------------
(* Small instances of WorkflowQueue for TLC.                                *)
EXTENDS WorkflowQueue, TLC

CONSTANTS wa, wb, r1, r2, h1, h2, c1, c2, c3

TwoTasks == {1, 2}
TwoWorkflows == [t \in Tasks |-> IF t = 2 THEN wb ELSE wa]
TestTypes == [w \in Workflows |-> IF w = wa THEN "workflow" ELSE "test"]
LimitOneZero == [w \in Workflows |-> IF w = wa THEN 1 ELSE 0]
HostOnFirst == [h \in Handlers |-> r1]
HostApart == [h \in Handlers |-> IF h = h1 THEN r1 ELSE CHOOSE r \in Replicas : r # r1]

CtlSymmetry == Permutations(Ctls)
=============================================================================
